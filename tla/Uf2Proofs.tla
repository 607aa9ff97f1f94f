------------------------------ MODULE Uf2Proofs ------------------------------
(***************************************************************************)
(* Proofs about Uf2Session.                                                 *)
(***************************************************************************)
EXTENDS Uf2Session, FiniteSetTheorems, TLAPS

Areas == {"mbr", "sd", "app", "boot", "uicr", "out"}

WsType ==
    [numBlocks : 0 .. MAX_BLOCKS, kind : {"none", "app", "boot"}, aborted : BOOLEAN,
     written : SUBSET Nat, targets : SUBSET (Areas \X Nat),
     invalidated : BOOLEAN, erased : SUBSET (0 .. (AppPages - 1)), maxEnd : Nat, appSize : Nat,
     hasUicr : BOOLEAN, stagingErased : 0 .. BootPages]

CacheType == [page : -1 .. (BootPages - 1), buf : [0 .. (PageBlocks - 1) -> Content]]

Shape ==
    /\ app \in [App -> Content] /\ stage \in [Boot -> Content] /\ boot \in [Boot -> Content]
    /\ rec.bank \in {"valid", "zero", "none"}
    /\ run \in {"boot", "dfu", "app"}
    /\ ws \in WsType /\ ws.written \subseteq 0 .. (ws.numBlocks - 1)
    /\ cache \in CacheType
    /\ cmd \in {"none", "write", "eject", "other"}
    /\ status \in {"updating", "complete", "reset", "timeout"}
    /\ device \in DOMAIN Devices
    /\ sector \in Devices[device].offered \cup {NoSector}

LEMMA ShapeIsType == Shape => TypeOK
  BY DEF Shape, TypeOK, WsType, CacheType

-----------------------------------------------------------------------------
(* Blocks and pages. *)

LEMMA Sizes ==
    /\ PageBlocks \in Nat /\ PageBlocks > 0
    /\ AppPages \in Nat /\ AppPages > 0
    /\ BootPages \in Nat /\ BootPages > 0
    /\ AppPages * PageBlocks \in Nat /\ BootPages * PageBlocks \in Nat
    /\ MAX_BLOCKS \in Nat
  BY Uf2Constants

LEMMA Times ==
    ASSUME NEW x \in Int, NEW y \in Int
    PROVE  /\ x * PageBlocks \in Int
           /\ (x + 1) * PageBlocks = x * PageBlocks + PageBlocks
           /\ x <= y => x * PageBlocks <= y * PageBlocks
<1>1. PageBlocks \in Nat /\ PageBlocks > 0
  BY Sizes
<1>2. x * PageBlocks \in Int /\ y * PageBlocks \in Int
  BY <1>1
<1>3. (x + 1) * PageBlocks = x * PageBlocks + PageBlocks
  BY <1>1
<1>4. ASSUME x <= y PROVE x * PageBlocks <= y * PageBlocks
  <2>1. y - x \in Nat
    BY <1>4
  <2> DEFINE d == y - x
  <2>2. d * PageBlocks \in Nat
    BY <2>1, <1>1
  <2>3. d * PageBlocks = y * PageBlocks - x * PageBlocks
    BY <1>1
  <2> HIDE DEF d
  <2> QED BY <1>2, <2>2, <2>3
<1> QED BY <1>2, <1>3, <1>4

\* A block is in the page it belongs to, at its offset, and in no other.
LEMMA Place ==
    ASSUME NEW i \in Nat
    PROVE  /\ PageOf(i) \in Nat /\ i % PageBlocks \in 0 .. (PageBlocks - 1)
           /\ i = PageOf(i) * PageBlocks + (i % PageBlocks)
           /\ \A p \in Int : i \in InPage(p) <=> p = PageOf(i)
<1>1. PageBlocks \in Nat /\ PageBlocks > 0
  BY Sizes
<1>2. PageOf(i) \in Nat /\ i % PageBlocks \in 0 .. (PageBlocks - 1)
  BY <1>1 DEF PageOf
<1>3. i = PageOf(i) * PageBlocks + (i % PageBlocks)
  BY <1>1 DEF PageOf
<1>4. ASSUME NEW p \in Int PROVE i \in InPage(p) <=> p = PageOf(i)
  <2>1. p * PageBlocks \in Int /\ PageOf(i) * PageBlocks \in Int
    BY <1>2, Times
  <2>2. CASE p = PageOf(i)
    BY <2>2, <1>1, <1>2, <1>3, <2>1 DEF InPage
  <2>3. CASE p < PageOf(i)
    <3>1. (p + 1) * PageBlocks <= PageOf(i) * PageBlocks
      BY <2>3, <1>2, Times
    <3>2. (p + 1) * PageBlocks = p * PageBlocks + PageBlocks
      BY Times
    <3> QED BY <2>3, <3>1, <3>2, <1>1, <1>2, <1>3, <2>1 DEF InPage
  <2>4. CASE p > PageOf(i)
    <3>1. (PageOf(i) + 1) * PageBlocks <= p * PageBlocks
      BY <2>4, <1>2, Times
    <3>2. (PageOf(i) + 1) * PageBlocks = PageOf(i) * PageBlocks + PageBlocks
      BY <1>2, Times
    <3> QED BY <2>4, <3>1, <3>2, <1>1, <1>2, <1>3, <2>1 DEF InPage
  <2> QED BY <2>2, <2>3, <2>4, <1>2
<1> QED BY <1>2, <1>3, <1>4

\* The page of a block below the end is below the end.
LEMMA PageBelow ==
    ASSUME NEW n \in Nat, NEW i \in 0 .. (n * PageBlocks - 1)
    PROVE  i \in Nat /\ PageOf(i) \in 0 .. (n - 1)
<1>1. PageBlocks \in Nat /\ PageBlocks > 0 /\ n * PageBlocks \in Int
  BY Sizes
<1>2. i \in Nat /\ i < n * PageBlocks
  BY <1>1
<1>3. PageOf(i) \in Nat /\ i % PageBlocks \in 0 .. (PageBlocks - 1)
      /\ i = PageOf(i) * PageBlocks + (i % PageBlocks) /\ PageOf(i) * PageBlocks \in Int
  BY <1>2, Place, Times
<1>4. ASSUME n <= PageOf(i) PROVE FALSE
  <2>1. n * PageBlocks <= PageOf(i) * PageBlocks
    BY <1>3, <1>4, Times
  <2> QED BY <1>1, <1>2, <1>3, <2>1
<1> QED BY <1>2, <1>3, <1>4

\* Block j of page p.
LEMMA BlockOfPage ==
    ASSUME NEW n \in Nat, NEW p \in 0 .. (n - 1), NEW j \in 0 .. (PageBlocks - 1)
    PROVE  /\ p * PageBlocks + j \in 0 .. (n * PageBlocks - 1)
           /\ PageOf(p * PageBlocks + j) = p
           /\ (p * PageBlocks + j) % PageBlocks = j
<1>1. PageBlocks \in Nat /\ PageBlocks > 0 /\ p * PageBlocks \in Nat /\ n * PageBlocks \in Nat
  BY Sizes
<1> DEFINE a == p * PageBlocks + j
<1>2. a \in Nat
  BY <1>1
<1>3. a \in InPage(p)
  BY <1>1 DEF InPage
<1>4. PageOf(a) = p
  BY <1>2, <1>3, Place
<1>5. a = p * PageBlocks + (a % PageBlocks) /\ a % PageBlocks \in 0 .. (PageBlocks - 1)
  BY <1>2, <1>4, Place
<1>6. a % PageBlocks = j
  BY <1>1, <1>5
<1>7. (p + 1) * PageBlocks <= n * PageBlocks /\ (p + 1) * PageBlocks = p * PageBlocks + PageBlocks
  BY Times
<1> QED BY <1>1, <1>2, <1>4, <1>6, <1>7

\* What is known of a block that the host may write.
LEMMA BlockFacts ==
    ASSUME NEW d \in DOMAIN Devices, NEW b \in Devices[d].offered
    PROVE  /\ b.num \in Nat /\ b.no \in Nat /\ b.at \in Nat
           /\ b.kind \in {"app", "boot"} /\ b.area \in Areas
           /\ b.area = "app" => b.at \in App
           /\ b.area = "boot" => b.at \in Boot
           /\ b.data \notin {"old", "blank", "mixed"} /\ b.data \in Content
           /\ b # NoSector /\ b \in Offered
<1>1. b \in Offered
  BY DEF Offered
<1>2. b.data \in Content
  BY <1>1 DEF Content
<1>3. AppPages * PageBlocks \in Nat /\ BootPages * PageBlocks \in Nat
  BY Sizes
<1> QED BY <1>1, <1>2, <1>3, Uf2Constants DEF Areas, App, Boot, NoSector

-----------------------------------------------------------------------------
(* The transfer: what each step makes of its fields. *)

\* v is w with other values of numBlocks and kind.
SameButGeometry(v, w) ==
    /\ v.aborted = w.aborted /\ v.written = w.written /\ v.targets = w.targets
    /\ v.invalidated = w.invalidated /\ v.erased = w.erased /\ v.maxEnd = w.maxEnd
    /\ v.appSize = w.appSize /\ v.hasUicr = w.hasUicr /\ v.stagingErased = w.stagingErased

\* v is w, aborted.
SameButAborted(v, w) ==
    /\ v.numBlocks = w.numBlocks /\ v.kind = w.kind
    /\ v.written = w.written /\ v.targets = w.targets
    /\ v.invalidated = w.invalidated /\ v.erased = w.erased /\ v.maxEnd = w.maxEnd
    /\ v.appSize = w.appSize /\ v.hasUicr = w.hasUicr /\ v.stagingErased = w.stagingErased

\* v is w with block b in it.
WithBlock(v, w, b) ==
    /\ v.numBlocks = b.num /\ v.kind = b.kind /\ v.aborted = w.aborted
    /\ v.written = w.written \cup {b.no}
    /\ v.targets = IF b.kind = "app" THEN w.targets \cup {Target(b)} ELSE w.targets
    /\ v.invalidated = w.invalidated /\ v.erased = w.erased
    /\ v.maxEnd = (IF b.kind = "app" /\ b.area = "app" /\ b.at >= w.maxEnd THEN b.at + 1 ELSE w.maxEnd)
    /\ v.appSize = w.appSize
    /\ v.hasUicr = (w.hasUicr \/ b.area = "uicr")
    /\ v.stagingErased = w.stagingErased

LEMMA NoTransferType ==
    NoTransfer \in WsType /\ NoTransfer.written \subseteq 0 .. (NoTransfer.numBlocks - 1)
  BY Sizes DEF NoTransfer, WsType

LEMMA AbortedFields ==
    ASSUME NEW w \in WsType
    PROVE  /\ AbortedTransfer(w) \in WsType /\ AbortedTransfer(w).aborted = TRUE
           /\ SameButAborted(AbortedTransfer(w), w)
  BY DEF WsType, AbortedTransfer, SameButAborted

LEMMA LatchedFields ==
    ASSUME ws \in WsType, NEW b, b.num \in 0 .. MAX_BLOCKS, b.kind \in {"app", "boot"}
    PROVE  /\ Latched(b) \in WsType /\ SameButGeometry(Latched(b), ws)
           /\ Latched(b).numBlocks = b.num /\ Latched(b).kind = b.kind
  BY DEF WsType, Latched, SameButGeometry

LEMMA CommittedFields ==
    ASSUME ws \in WsType, NEW b, b.num \in 0 .. MAX_BLOCKS, b.kind \in {"app", "boot"},
           b.no \in Nat, b.at \in Nat, b.area \in Areas
    PROVE  Committed(b) \in WsType /\ WithBlock(Committed(b), ws, b)
<1> DEFINE L == Latched(b)
<1>1. /\ L \in WsType /\ SameButGeometry(L, ws)
      /\ L.numBlocks = b.num /\ L.kind = b.kind
  BY LatchedFields
<1>2. Committed(b) =
        [L EXCEPT
            !.written = @ \cup {b.no},
            !.targets = IF b.kind = "app" THEN @ \cup {Target(b)} ELSE @,
            !.maxEnd = IF b.kind = "app" /\ b.area = "app" /\ b.at >= @ THEN b.at + 1 ELSE @,
            !.hasUicr = @ \/ b.area = "uicr"]
  BY DEF Committed
<1> HIDE DEF L
<1>3. WithBlock(Committed(b), ws, b)
  BY <1>1, <1>2 DEF WsType, WithBlock, SameButGeometry
<1>4. Target(b) \in Areas \X Nat
  BY DEF Target
<1>5. /\ L.written \cup {b.no} \in SUBSET Nat
      /\ (IF b.kind = "app" THEN L.targets \cup {Target(b)} ELSE L.targets) \in SUBSET (Areas \X Nat)
      /\ (IF b.kind = "app" /\ b.area = "app" /\ b.at >= L.maxEnd THEN b.at + 1 ELSE L.maxEnd) \in Nat
      /\ (L.hasUicr \/ b.area = "uicr") \in BOOLEAN
  BY <1>1, <1>4 DEF WsType
<1>6. Committed(b) \in WsType
  BY <1>1, <1>2, <1>5 DEF WsType
<1> QED BY <1>3, <1>6

\* What uf2_transfer_prepare has checked of a block that it accepts, or takes for a
\* repetition.
LEMMA Prepared ==
    ASSUME NEW b, b.num \in Nat, b.no \in Nat,
           uf2_transfer_prepare(b) \in {"accept", "duplicate"}
    PROVE  /\ b.num \in 1 .. MAX_BLOCKS /\ b.no < b.num
           /\ ws.numBlocks \in {0, b.num} /\ ws.kind \in {"none", b.kind}
           /\ uf2_transfer_prepare(b) = "accept" => b.no \notin ws.written
           /\ uf2_transfer_prepare(b) = "duplicate" => b.no \in ws.written
  BY Sizes DEF uf2_transfer_prepare

\* All blocks are written exactly when their number is.
LEMMA FullMeansAll ==
    ASSUME NEW w \in WsType, w.written \subseteq 0 .. (w.numBlocks - 1)
    PROVE  Full(w) <=> w.written = 0 .. (w.numBlocks - 1)
<1>1. w.numBlocks \in Nat
  BY Sizes DEF WsType
<1>2. IsFiniteSet(0 .. (w.numBlocks - 1)) /\ Cardinality(0 .. (w.numBlocks - 1)) = w.numBlocks
  <2> DEFINE m == w.numBlocks - 1
  <2>1. m \in Int /\ w.numBlocks = IF 0 > m THEN 0 ELSE m - 0 + 1
    BY <1>1
  <2> HIDE DEF m
  <2>2. IsFiniteSet(0 .. m) /\ Cardinality(0 .. m) = w.numBlocks
    BY <2>1, FS_Interval
  <2> QED BY <2>2 DEF m
<1>3. IsFiniteSet(w.written) /\ Cardinality(w.written) <= w.numBlocks
      /\ (Cardinality(w.written) = w.numBlocks => w.written = 0 .. (w.numBlocks - 1))
      /\ Cardinality(w.written) \in Nat
  BY <1>2, FS_Subset, FS_CardinalityType
<1> QED BY <1>1, <1>2, <1>3 DEF Full

\* A block that is stored finds its transfer incomplete.
LEMMA StoringFacts ==
    ASSUME Shape, NEW kind, NEW area, Storing(kind, area)
    PROVE  /\ run = "dfu" /\ cmd = "write" /\ ~ws.aborted
           /\ sector \in Devices[device].offered
           /\ sector.kind = kind /\ sector.area \in area
           /\ sector.num \in 1 .. MAX_BLOCKS /\ sector.no \in 0 .. (sector.num - 1)
           /\ ws.numBlocks \in {0, sector.num} /\ ws.kind \in {"none", kind}
           /\ sector.no \notin ws.written /\ ~Unacceptable(sector)
           /\ ws.numBlocks = 0 \/ ~Full(ws)
           /\ ws.written \subseteq 0 .. (sector.num - 1)
<1>1. /\ run = "dfu" /\ cmd = "write" /\ ~ws.aborted /\ sector # NoSector
      /\ uf2_transfer_prepare(sector) = "accept" /\ ~Unacceptable(sector)
      /\ sector.kind = kind /\ sector.area \in area
  BY DEF Storing, Calling
<1>2. sector \in Devices[device].offered /\ device \in DOMAIN Devices
  BY <1>1 DEF Shape
<1>3. sector.num \in Nat /\ sector.no \in Nat
  BY <1>2, BlockFacts
<1>4. /\ sector.num \in 1 .. MAX_BLOCKS /\ sector.no < sector.num
      /\ ws.numBlocks \in {0, sector.num} /\ ws.kind \in {"none", sector.kind}
      /\ sector.no \notin ws.written
  BY <1>1, <1>3, Prepared
<1>5. ws \in WsType /\ ws.written \subseteq 0 .. (ws.numBlocks - 1)
  BY DEF Shape
<1>6. ASSUME Full(ws), ws.numBlocks # 0 PROVE FALSE
  <2>1. ws.written = 0 .. (ws.numBlocks - 1)
    BY <1>5, <1>6, FullMeansAll
  <2> QED BY <2>1, <1>3, <1>4, <1>6
<1>7. ws.written \subseteq 0 .. (sector.num - 1)
  BY <1>4, <1>5
<1> QED BY <1>1, <1>2, <1>3, <1>4, <1>6, <1>7

-----------------------------------------------------------------------------
(* Types. *)

LEMMA ContentFacts == "blank" \in Content /\ "mixed" \in Content /\ "old" \in Content /\ "running" \in Content
  BY DEF Content

LEMMA NoCacheType == NoCache \in CacheType
  BY Sizes, ContentFacts DEF NoCache, CacheType

LEMMA ProgrammedType ==
    ASSUME NEW x \in Content, NEW y \in Content
    PROVE  Programmed(x, y) \in Content
  BY ContentFacts DEF Programmed

LEMMA FlushedType ==
    ASSUME NEW c \in CacheType, NEW s \in [Boot -> Content]
    PROVE  Flushed(c, s) \in [Boot -> Content]
<1>1. ASSUME NEW i \in Boot PROVE c.buf[i % PageBlocks] \in Content
  <2>1. i \in Nat
    BY Sizes DEF Boot
  <2>2. i % PageBlocks \in 0 .. (PageBlocks - 1)
    BY <2>1, Place
  <2> QED BY <2>2 DEF CacheType
<1>2. ASSUME NEW i \in Boot PROVE Programmed(s[i], c.buf[i % PageBlocks]) \in Content
  BY <1>1, ProgrammedType
<1> QED BY <1>2 DEF Flushed

LEMMA CacheOfType ==
    ASSUME cache \in CacheType, NEW s \in [Boot -> Content], NEW at \in Boot, NEW v \in Content
    PROVE  /\ CacheOf(s, at) \in CacheType
           /\ [CacheOf(s, at) EXCEPT !.buf[at % PageBlocks] = v] \in CacheType
<1>1. at \in Nat /\ PageOf(at) \in 0 .. (BootPages - 1)
  BY Sizes, PageBelow DEF Boot
<1>2. ASSUME NEW j \in 0 .. (PageBlocks - 1) PROVE s[PageOf(at) * PageBlocks + j] \in Content
  BY <1>1, Sizes, BlockOfPage DEF Boot
<1>3. CacheOf(s, at) \in CacheType
  BY <1>1, <1>2 DEF CacheOf, CacheType
<1> QED BY <1>3 DEF CacheType

\* What the types of the flash and of the transfer depend on.
ShapeOf(a, s, t, r, w, c) ==
    /\ a \in [App -> Content] /\ s \in [Boot -> Content] /\ t \in [Boot -> Content]
    /\ r.bank \in {"valid", "zero", "none"}
    /\ w \in WsType /\ w.written \subseteq 0 .. (w.numBlocks - 1)
    /\ c \in CacheType

LEMMA ShapeParts ==
    Shape <=> /\ ShapeOf(app, stage, boot, rec, ws, cache)
              /\ run \in {"boot", "dfu", "app"}
              /\ cmd \in {"none", "write", "eject", "other"}
              /\ status \in {"updating", "complete", "reset", "timeout"}
              /\ device \in DOMAIN Devices
              /\ sector \in Devices[device].offered \cup {NoSector}
  BY DEF Shape, ShapeOf

LEMMA SessionResetType == NoTransfer \in WsType /\ NoTransfer.written \subseteq 0 .. (NoTransfer.numBlocks - 1)
  BY NoTransferType

LEMMA AbortedShape ==
    ASSUME NEW w \in WsType, w.written \subseteq 0 .. (w.numBlocks - 1)
    PROVE  AbortedTransfer(w) \in WsType
           /\ AbortedTransfer(w).written \subseteq 0 .. (AbortedTransfer(w).numBlocks - 1)
  BY AbortedFields DEF SameButAborted

LEMMA CommittedShape ==
    ASSUME Shape, NEW kind, NEW area, Storing(kind, area)
    PROVE  /\ Committed(sector) \in WsType /\ WithBlock(Committed(sector), ws, sector)
           /\ Committed(sector).written \subseteq 0 .. (Committed(sector).numBlocks - 1)
<1>1. /\ sector \in Devices[device].offered
      /\ sector.num \in 1 .. MAX_BLOCKS /\ sector.no \in 0 .. (sector.num - 1)
      /\ ws.written \subseteq 0 .. (sector.num - 1)
  BY StoringFacts
<1>2. device \in DOMAIN Devices /\ ws \in WsType
  BY DEF Shape
<1>3. sector.at \in Nat /\ sector.kind \in {"app", "boot"} /\ sector.area \in Areas
      /\ sector.num \in 0 .. MAX_BLOCKS /\ sector.no \in Nat
  BY <1>1, <1>2, BlockFacts, Sizes
<1>4. Committed(sector) \in WsType /\ WithBlock(Committed(sector), ws, sector)
  BY <1>2, <1>3, CommittedFields
<1>5. Committed(sector).written = ws.written \cup {sector.no} /\ Committed(sector).numBlocks = sector.num
  BY <1>4 DEF WithBlock
<1> QED BY <1>1, <1>4, <1>5

LEMMA AppFinalizedShape ==
    ASSUME NEW w \in WsType, w.written \subseteq 0 .. (w.numBlocks - 1), NEW a
    PROVE  AppFinalized(w, a) \in WsType
           /\ AppFinalized(w, a).written \subseteq 0 .. (AppFinalized(w, a).numBlocks - 1)
<1>1. [w EXCEPT !.appSize = w.maxEnd] \in WsType
      /\ [w EXCEPT !.appSize = w.maxEnd].written = w.written
      /\ [w EXCEPT !.appSize = w.maxEnd].numBlocks = w.numBlocks
  BY DEF WsType
<1> QED BY <1>1, AbortedShape DEF AppFinalized

LEMMA LatchedShape ==
    ASSUME Shape, NEW kind, NEW area, Storing(kind, area)
    PROVE  /\ Latched(sector) \in WsType /\ SameButGeometry(Latched(sector), ws)
           /\ Latched(sector).numBlocks = sector.num /\ Latched(sector).kind = sector.kind
           /\ Latched(sector).written \subseteq 0 .. (Latched(sector).numBlocks - 1)
<1>1. /\ sector \in Devices[device].offered /\ sector.num \in 1 .. MAX_BLOCKS
      /\ ws.written \subseteq 0 .. (sector.num - 1)
  BY StoringFacts
<1>2. device \in DOMAIN Devices /\ ws \in WsType
  BY DEF Shape
<1>3. sector.kind \in {"app", "boot"} /\ sector.num \in 0 .. MAX_BLOCKS
  BY <1>1, <1>2, BlockFacts, Sizes
<1>4. /\ Latched(sector) \in WsType /\ SameButGeometry(Latched(sector), ws)
      /\ Latched(sector).numBlocks = sector.num /\ Latched(sector).kind = sector.kind
  BY <1>2, <1>3, LatchedFields
<1> QED BY <1>1, <1>4 DEF SameButGeometry

\* What a call of write_block leaves alone.
LEMMA WriteFrame ==
    ASSUME write_block, UNCHANGED device
    PROVE  /\ run = "dfu" /\ cmd = "write" /\ sector # NoSector
           /\ UNCHANGED <<boot, run, cmd, active, completionVars, status, done, device>>
           /\ sector' \in {sector, NoSector}
<1>1. CASE WriteRefused
  BY <1>1 DEF WriteRefused, NotFlash, flashVars, HostVars, Failed
<1>2. CASE WriteAborts
  BY <1>2 DEF WriteAborts, NotFlash, flashVars, HostVars, Failed, Noted, Calling
<1>3. CASE WriteDuplicate
  BY <1>3 DEF WriteDuplicate, NotFlash, flashVars, HostVars, Accepted, Noted, Calling
<1>4. CASE WriteChecked
  BY <1>4 DEF WriteChecked, flashVars, HostVars, CommitApp, Failed, Accepted, Noted, Calling, Storing
<1>5. CASE WriteInvalidates
  BY <1>5 DEF WriteInvalidates, HostVars, Busy, Noted, Calling, Storing
<1>6. CASE WriteErases
  BY <1>6 DEF WriteErases, HostVars, Busy, Noted, Calling, Storing
<1>7. CASE WritePrograms
  BY <1>7 DEF WritePrograms, HostVars, CommitApp, Failed, Accepted, Noted, Calling, Storing
<1>8. CASE WriteErasesStaging
  BY <1>8 DEF WriteErasesStaging, HostVars, Busy, Noted, Calling, Storing
<1>9. CASE WriteStages
  BY <1>9 DEF WriteStages, HostVars, CommitBoot, Failed, Accepted, Noted, Calling, Storing
<1>10. CASE WriteSkips
  BY <1>10 DEF WriteSkips, HostVars, CommitBoot, Failed, Accepted, Noted, Calling, Storing
<1> QED BY <1>1, <1>2, <1>3, <1>4, <1>5, <1>6, <1>7, <1>8, <1>9, <1>10 DEF write_block

LEMMA CommitBootShape ==
    ASSUME Shape, NEW kind, NEW area, Storing(kind, area), NEW c \in CacheType, NEW s \in [Boot -> Content],
           CommitBoot(c, s)
    PROVE  /\ stage' \in [Boot -> Content] /\ cache' \in CacheType
           /\ ws' \in WsType /\ ws'.written \subseteq 0 .. (ws'.numBlocks - 1)
  BY CommittedShape, AbortedShape, FlushedType, NoCacheType DEF CommitBoot

LEMMA WriteShape ==
    ASSUME Shape, write_block, UNCHANGED device
    PROVE  ShapeOf(app, stage, boot, rec, ws, cache)'
<1>0. /\ ShapeOf(app, stage, boot, rec, ws, cache) /\ device \in DOMAIN Devices
      /\ ws \in WsType /\ ws.written \subseteq 0 .. (ws.numBlocks - 1)
      /\ app \in [App -> Content] /\ stage \in [Boot -> Content] /\ boot \in [Boot -> Content]
      /\ cache \in CacheType
  BY ShapeParts DEF ShapeOf
<1>w. boot' = boot
  BY WriteFrame
<1> SUFFICES /\ app' \in [App -> Content] /\ stage' \in [Boot -> Content]
             /\ rec'.bank \in {"valid", "zero", "none"}
             /\ ws' \in WsType /\ ws'.written \subseteq 0 .. (ws'.numBlocks - 1)
             /\ cache' \in CacheType
  BY <1>0, <1>w DEF ShapeOf
<1>r. rec.bank \in {"valid", "zero", "none"}
  BY DEF Shape
<1>1. CASE WriteRefused \/ WriteDuplicate
  BY <1>1, <1>0, <1>r DEF WriteRefused, WriteDuplicate, NotFlash, flashVars
<1>2. CASE WriteAborts
  <2>1. UNCHANGED <<app, stage, rec, cache>>
    BY <1>2 DEF WriteAborts, NotFlash, flashVars
  <2>2. CASE ws' = AbortedTransfer(ws)
    BY <2>1, <2>2, <1>0, <1>r, AbortedShape
  <2>3. CASE uf2_transfer_prepare(sector) = "accept" /\ ws' = AbortedTransfer(Latched(sector))
    <3>1. sector \in Devices[device].offered
      BY <1>2 DEF WriteAborts, Calling, Shape
    <3>2. sector.num \in Nat /\ sector.no \in Nat /\ sector.kind \in {"app", "boot"}
      BY <3>1, <1>0, BlockFacts
    <3>3. sector.num \in 1 .. MAX_BLOCKS /\ ws.numBlocks \in {0, sector.num}
      BY <2>3, <3>2, Prepared
    <3>4. /\ Latched(sector) \in WsType /\ Latched(sector).written = ws.written
          /\ Latched(sector).numBlocks = sector.num
      BY <1>0, <3>2, <3>3, Sizes, LatchedFields DEF SameButGeometry
    <3>5. Latched(sector).written \subseteq 0 .. (Latched(sector).numBlocks - 1)
      BY <1>0, <3>3, <3>4
    <3> QED BY <2>1, <2>3, <3>4, <3>5, <1>0, <1>r, AbortedShape
  <2> QED BY <1>2, <2>2, <2>3 DEF WriteAborts
<1>4. CASE WriteChecked
  <2>1. Storing("app", {"mbr", "sd"}) /\ CommitApp(app) /\ UNCHANGED <<app, stage, rec>>
    BY <1>4 DEF WriteChecked, flashVars
  <2> QED BY <2>1, <1>0, <1>r, CommittedShape, AppFinalizedShape, NoCacheType DEF CommitApp
<1>5. CASE WriteInvalidates
  <2>1. /\ Storing("app", {"app"}) /\ ws' = [Latched(sector) EXCEPT !.invalidated = TRUE]
        /\ cache' = NoCache /\ rec'.bank = "zero" /\ UNCHANGED <<app, stage>>
    BY <1>5 DEF WriteInvalidates, Record
  <2>2. /\ Latched(sector) \in WsType
        /\ Latched(sector).written \subseteq 0 .. (Latched(sector).numBlocks - 1)
    BY <2>1, LatchedShape
  <2> QED BY <2>1, <2>2, <1>0, NoCacheType DEF WsType
<1>6. CASE WriteErases
  <2>1. /\ Storing("app", {"app"}) /\ ws' = [Latched(sector) EXCEPT !.erased = @ \cup {PageOf(sector.at)}]
        /\ app' = [i \in App |-> IF i \in InPage(PageOf(sector.at)) THEN "blank" ELSE app[i]]
        /\ UNCHANGED <<stage, rec, cache>>
    BY <1>6 DEF WriteErases
  <2>2. /\ Latched(sector) \in WsType
        /\ Latched(sector).written \subseteq 0 .. (Latched(sector).numBlocks - 1)
    BY <2>1, LatchedShape
  <2>3. sector.at \in App
    BY <2>1, <1>0, StoringFacts, BlockFacts
  <2>4. PageOf(sector.at) \in 0 .. (AppPages - 1)
    BY <2>3, Sizes, PageBelow DEF App
  <2>5. app' \in [App -> Content]
    BY <2>1, <1>0, ContentFacts
  <2>6. ws' \in WsType /\ ws'.written = Latched(sector).written /\ ws'.numBlocks = Latched(sector).numBlocks
    BY <2>1, <2>2, <2>4 DEF WsType
  <2> QED BY <2>1, <2>2, <2>5, <2>6, <1>0, <1>r
<1>7. CASE WritePrograms
  <2>1. /\ Storing("app", {"app"}) /\ CommitApp(app') /\ UNCHANGED <<stage, rec>>
        /\ app' = [app EXCEPT ![sector.at] = Programmed(@, sector.data)]
    BY <1>7 DEF WritePrograms
  <2>2. sector.at \in App /\ sector.data \in Content
    BY <2>1, <1>0, StoringFacts, BlockFacts
  <2>3. app' \in [App -> Content]
    BY <2>1, <2>2, <1>0, ProgrammedType
  <2>4. ws' = AppFinalized(Committed(sector), app') /\ cache' \in {cache, NoCache}
    BY <2>1 DEF CommitApp
  <2> QED BY <2>1, <2>3, <2>4, <1>0, <1>r, CommittedShape, AppFinalizedShape, NoCacheType
<1>8. CASE WriteErasesStaging
  <2>1. /\ Storing("boot", {"boot"}) /\ ws.stagingErased < BootPages
        /\ ws' = [Latched(sector) EXCEPT !.stagingErased = @ + 1]
        /\ stage' = [i \in Boot |-> IF i \in InPage(ws.stagingErased) THEN "blank" ELSE stage[i]]
        /\ UNCHANGED <<app, rec, cache>>
    BY <1>8 DEF WriteErasesStaging
  <2>2. /\ Latched(sector) \in WsType /\ Latched(sector).stagingErased = ws.stagingErased
        /\ Latched(sector).written \subseteq 0 .. (Latched(sector).numBlocks - 1)
    BY <2>1, LatchedShape DEF SameButGeometry
  <2>3. stage' \in [Boot -> Content]
    BY <2>1, <1>0, ContentFacts
  <2>4. ws' \in WsType /\ ws'.written = Latched(sector).written /\ ws'.numBlocks = Latched(sector).numBlocks
    BY <2>1, <2>2, <1>0, Sizes DEF WsType
  <2> QED BY <2>1, <2>2, <2>3, <2>4, <1>0, <1>r
<1>9. CASE WriteStages
  <2> DEFINE s == IF cache.page = PageOf(sector.at) THEN stage ELSE Flushed(cache, stage)
             c == CacheOf(s, sector.at)
  <2>1. /\ Storing("boot", {"boot"}) /\ UNCHANGED <<app, rec>>
        /\ CommitBoot([c EXCEPT !.buf[sector.at % PageBlocks] = sector.data], s)
    BY <1>9 DEF WriteStages
  <2>2. sector.at \in Boot /\ sector.data \in Content
    BY <2>1, <1>0, StoringFacts, BlockFacts
  <2>3. s \in [Boot -> Content]
    BY <1>0, FlushedType
  <2> HIDE DEF s
  <2>4. [c EXCEPT !.buf[sector.at % PageBlocks] = sector.data] \in CacheType
    BY <2>2, <2>3, <1>0, CacheOfType
  <2> HIDE DEF c
  <2> QED BY <2>1, <2>3, <2>4, <1>0, <1>r, CommitBootShape
<1>10. CASE WriteSkips
  <2>1. Storing("boot", {"mbr", "uicr"}) /\ CommitBoot(cache, stage) /\ UNCHANGED <<app, rec>>
    BY <1>10 DEF WriteSkips
  <2> QED BY <2>1, <1>0, <1>r, CommitBootShape
<1> QED BY <1>1, <1>2, <1>4, <1>5, <1>6, <1>7, <1>8, <1>9, <1>10 DEF write_block

\* A session ends: with a reset of the device, or by uf2_write_session_reset.
Fresh == ws' = NoTransfer /\ could' = GoodFiles /\ acked' = {} /\ ~pending' /\ ~active'

\* What a step that is no call of write_block does to the session,
SessionStep ==
    \/ Fresh /\ cache' \in {NoCache, CacheAfterReset}
    \/ UNCHANGED <<ws, could, acked, cache>>
    \/ /\ pending /\ ~ws.aborted /\ ws.appSize = 0
       /\ ws' = AbortedTransfer(ws) /\ UNCHANGED <<could, acked, cache, rec>>

\* and to flash.
FlashStep ==
    \/ UNCHANGED flashVars
    \/ /\ run = "dfu" /\ run' = "dfu" /\ pending /\ ~pending' /\ ~ws.aborted /\ ws.appSize # 0
       /\ rec' = Record("valid", Image(app, ws.appSize))
       /\ UNCHANGED <<app, stage, boot>>
       /\ Fresh \/ UNCHANGED <<ws, could, acked, cache>>
    \/ CopyBootloader
    \/ Reset

\* What it does to the command in progress and to a completion that is pending.
CommandStep ==
    /\ run' = "app" => run = "app" \/ AppValid(app, rec)
    /\ pending' => pending \/ (ws' = ws /\ ws.kind = "app" /\ Full(ws) /\ ~ws.aborted /\ cmd' = "none")
    /\ pending' /\ cmd' # "none" => active' \/ (cmd' = cmd /\ active' = active /\ pending)
    /\ status' = "complete" => status = "complete" \/ cmd' = "none" \/ (cmd' = cmd /\ pending /\ ~active)

HostStep ==
    /\ SessionStep /\ FlashStep /\ CommandStep
    /\ sector' \in Devices[device].offered \cup {sector, NoSector}
    /\ cmd' \in {"none", "write", "eject", "other", cmd}
    /\ status' \in {"updating", "complete", "reset", "timeout", status}
    /\ run' \in {"boot", "dfu", "app", run}
    /\ device' = device

LEMMA Completion ==
    ASSUME TakeCompletion, UNCHANGED <<app, stage, boot, could, acked, cache>>, run = "dfu", run' = "dfu",
           ~pending'
    PROVE  SessionStep /\ FlashStep /\ status' \in {"complete", status}
<1>1. CASE ~(pending /\ ~ws.aborted)
  BY <1>1 DEF TakeCompletion, SessionStep, FlashStep, flashVars
<1>2. CASE pending /\ ~ws.aborted /\ ws.appSize = 0
  BY <1>2 DEF TakeCompletion, complete_app_update, SessionStep, FlashStep, flashVars
<1>3. CASE pending /\ ~ws.aborted /\ ws.appSize # 0
  BY <1>3 DEF TakeCompletion, complete_app_update, SessionStep, FlashStep, flashVars
<1> QED BY <1>1, <1>2, <1>3

LEMMA TimerIsHostStep ==
    ASSUME app_completion_timer_handler, UNCHANGED device PROVE HostStep
<1>1. run = "dfu" /\ UNCHANGED <<app, stage, boot, run, cache, could, acked, sector, cmd, active>>
  BY DEF app_completion_timer_handler, mscVars
<1>2. CASE UNCHANGED <<rec, status, ws, pending>>
  BY <1>1, <1>2 DEF HostStep, SessionStep, FlashStep, flashVars, CommandStep
<1>3. CASE TakeCompletion /\ ~pending' /\ pending /\ ~MustWait
  <2>1. CommandStep
    BY <1>1, <1>3 DEF CommandStep, MustWait
  <2> QED BY <1>1, <1>3, <2>1, Completion DEF HostStep
<1> QED BY <1>2, <1>3 DEF app_completion_timer_handler

LEMMA ScsiIsHostStep ==
    ASSUME ScsiStatusSent, UNCHANGED device PROVE HostStep
<1>1. run = "dfu" /\ UNCHANGED <<app, stage, boot, run>>
  BY DEF ScsiStatusSent
<1>2. CASE TakeCompletion /\ ~pending' /\ FinishCommand /\ UNCHANGED <<cache, could, acked>>
  BY <1>1, <1>2, Completion DEF HostStep, FinishCommand, CommandStep
<1>3. CASE uf2_write_session_reset /\ cmd' = "none" /\ sector' = NoSector /\ status' = "reset" /\ rec' = rec
  BY <1>1, <1>3 DEF HostStep, SessionStep, FlashStep, flashVars, uf2_write_session_reset, Fresh, CommandStep
<1>4. CASE FinishCommand /\ UNCHANGED <<rec, status, cache, session, pending>>
  BY <1>1, <1>4 DEF HostStep, SessionStep, FlashStep, flashVars, session, FinishCommand, CommandStep
<1> QED BY <1>2, <1>3, <1>4 DEF ScsiStatusSent

LEMMA EjectIsHostStep ==
    ASSUME EjectBegin, UNCHANGED device PROVE HostStep
<1>1. cmd' = "eject" /\ UNCHANGED <<flashVars, run, sector, status>>
  BY DEF EjectBegin, exitVars
<1>2. CASE UNCHANGED <<cache, session, pending>> /\ active'
  BY <1>1, <1>2 DEF HostStep, SessionStep, FlashStep, session, CommandStep
<1>3. CASE uf2_write_session_reset
  BY <1>1, <1>3 DEF HostStep, SessionStep, FlashStep, uf2_write_session_reset, Fresh, CommandStep
<1> QED BY <1>2, <1>3 DEF EjectBegin

LEMMA MountIsHostStep ==
    ASSUME Mount, UNCHANGED device PROVE HostStep
  BY DEF Mount, HostStep, SessionStep, FlashStep, uf2_write_session_reset, Fresh, exitVars, CommandStep

LEMMA UnmountIsHostStep ==
    ASSUME Unmount, UNCHANGED device PROVE HostStep
<1>1. /\ run = "dfu" /\ uf2_write_session_reset /\ cmd' = "none" /\ sector' = NoSector
      /\ UNCHANGED <<app, stage, boot, run>>
  BY DEF Unmount
<1>2. Fresh /\ cache' = CacheAfterReset
  BY <1>1 DEF uf2_write_session_reset, Fresh
<1>3. CommandStep
  BY <1>1, <1>2 DEF CommandStep, Fresh
<1>4. CASE pending /\ ~ws.aborted /\ ws.appSize # 0
  BY <1>1, <1>2, <1>3, <1>4 DEF Unmount, HostStep, SessionStep, FlashStep, Fresh
<1>5. CASE ~(pending /\ ~ws.aborted /\ ws.appSize # 0)
  BY <1>1, <1>2, <1>3, <1>5 DEF Unmount, HostStep, SessionStep, FlashStep, flashVars
<1> QED BY <1>4, <1>5

LEMMA WriteStatusIsHostStep ==
    ASSUME WriteStatusSent, UNCHANGED device PROVE HostStep
<1>1. UNCHANGED <<app, stage, rec, cache, session, boot, run>> /\ FinishCommand
      /\ status' \in {"reset", status}
  BY DEF WriteStatusSent
<1>2. pending' => pending \/ (ws.kind = "app" /\ Full(ws) /\ ~ws.aborted)
  BY DEF WriteStatusSent
<1>3. CommandStep
  BY <1>1, <1>2 DEF CommandStep, FinishCommand, session
<1> QED BY <1>1, <1>3 DEF HostStep, SessionStep, FlashStep, flashVars, session, FinishCommand

LEMMA ResetIsHostStep ==
    ASSUME ResetRam, UNCHANGED device, FlashStep, run' = "boot" \/ (run' = "app" /\ AppValid(app, rec))
    PROVE  HostStep
  BY DEF ResetRam, HostStep, SessionStep, Fresh, CommandStep

\* The steps that change neither flash nor the session.
LEMMA QuietIsHostStep ==
    ASSUME \/ \E c \in {"write", "other"} : CommandBegin(c)
           \/ \E b \in Devices[device].offered : NextSector(b)
           \/ FailureStatusSent \/ tud_msc_reset_cb \/ StartupTimeout \/ BootApp \/ BootDfu
           \/ UNCHANGED vars,
           UNCHANGED device
    PROVE  HostStep
<1> USE DEF HostStep, SessionStep, FlashStep, CommandStep, session, exitVars, mscVars, completionVars
<1>1. CASE \E c \in {"write", "other"} : CommandBegin(c)
  BY <1>1 DEF CommandBegin
<1>2. CASE \E b \in Devices[device].offered : NextSector(b)
  BY <1>2 DEF NextSector
<1>3. CASE FailureStatusSent \/ tud_msc_reset_cb
  BY <1>3 DEF FailureStatusSent, tud_msc_reset_cb, FinishCommand
<1>4. CASE StartupTimeout \/ BootApp \/ BootDfu
  BY <1>4 DEF StartupTimeout, BootApp, BootDfu
<1>5. CASE UNCHANGED vars
  BY <1>5 DEF vars
<1> QED BY <1>1, <1>2, <1>3, <1>4, <1>5

\* Every step is a call of write_block or a step of the host or the device.
LEMMA StepCases ==
    ASSUME [Next]_vars
    PROVE  (write_block \/ HostStep) /\ device' = device
<1>1. CASE UNCHANGED vars
  <2>1. device' = device
    BY <1>1 DEF vars
  <2> QED BY <1>1, <2>1, QuietIsHostStep
<1>2. CASE Next
  <2>1. device' = device
    BY <1>2 DEF Next
  <2>2. CASE CopyBootloader
    BY <2>1, <2>2, ResetIsHostStep DEF CopyBootloader, FlashStep
  <2>3. CASE LeaveDfu
    BY <2>1, <2>3, ResetIsHostStep DEF LeaveDfu, FlashStep
  <2>4. CASE Reset
    BY <2>1, <2>4, ResetIsHostStep DEF Reset, FlashStep
  <2>5. CASE \/ \E c \in {"write", "other"} : CommandBegin(c)
             \/ \E b \in Devices[device].offered : NextSector(b)
             \/ FailureStatusSent \/ tud_msc_reset_cb \/ StartupTimeout \/ BootApp \/ BootDfu
    BY <2>1, <2>5, QuietIsHostStep
  <2> QED BY <1>2, <2>1, <2>2, <2>3, <2>4, <2>5, TimerIsHostStep, ScsiIsHostStep, EjectIsHostStep,
             MountIsHostStep, UnmountIsHostStep, WriteStatusIsHostStep DEF Next
<1> QED BY <1>1, <1>2

LEMMA CutShape ==
    ASSUME Shape, CutFlash
    PROVE  /\ app' \in [App -> Content] /\ stage' \in [Boot -> Content] /\ boot' = boot
           /\ rec'.bank \in {"valid", "zero", "none"}
<1>0. /\ app \in [App -> Content] /\ stage \in [Boot -> Content]
      /\ rec.bank \in {"valid", "zero", "none"} /\ "mixed" \in Content
  BY ContentFacts DEF Shape
<1>1. CASE UNCHANGED flashVars
  BY <1>0, <1>1 DEF flashVars
<1>2. CASE \E S : app' = Torn(app, S) /\ UNCHANGED <<stage, boot, rec>>
  BY <1>0, <1>2 DEF Torn
<1>3. CASE stage' = Torn(stage, Boot) /\ UNCHANGED <<app, boot, rec>>
  BY <1>0, <1>3 DEF Torn
<1>4. CASE rec' \in {Record("none", Image(app, ws.appSize)), Record("zero", NoImage)}
           /\ UNCHANGED <<app, stage, boot>>
  BY <1>0, <1>4 DEF Record
<1> QED BY <1>1, <1>2, <1>3, <1>4 DEF CutFlash

LEMMA ShapeStep ==
    ASSUME Shape, [Next]_vars PROVE Shape'
<1>0. (write_block \/ HostStep) /\ device' = device
  BY StepCases
<1>d. /\ device \in DOMAIN Devices /\ run \in {"boot", "dfu", "app"}
      /\ cmd \in {"none", "write", "eject", "other"}
      /\ status \in {"updating", "complete", "reset", "timeout"}
      /\ sector \in Devices[device].offered \cup {NoSector}
      /\ app \in [App -> Content] /\ stage \in [Boot -> Content] /\ boot \in [Boot -> Content]
      /\ rec.bank \in {"valid", "zero", "none"}
      /\ ws \in WsType /\ ws.written \subseteq 0 .. (ws.numBlocks - 1) /\ cache \in CacheType
  BY DEF Shape
<1>1. CASE write_block
  <2>1. ShapeOf(app, stage, boot, rec, ws, cache)'
    BY <1>0, <1>1, WriteShape
  <2>2. UNCHANGED <<run, cmd, status, device>> /\ sector' \in {sector, NoSector}
    BY <1>0, <1>1, WriteFrame
  <2> QED BY <1>d, <2>1, <2>2 DEF Shape, ShapeOf
<1>2. CASE HostStep
  <2>1. /\ run' \in {"boot", "dfu", "app"} /\ cmd' \in {"none", "write", "eject", "other"}
        /\ status' \in {"updating", "complete", "reset", "timeout"}
        /\ sector' \in Devices[device'].offered \cup {NoSector}
    BY <1>2, <1>d DEF HostStep
  <2>2. ws' \in WsType /\ ws'.written \subseteq 0 .. (ws'.numBlocks - 1)
    <3>1. CASE ws' = NoTransfer
      BY <3>1, NoTransferType
    <3>2. CASE ws' = ws \/ ws' = AbortedTransfer(ws)
      BY <3>2, <1>d, AbortedShape
    <3> QED BY <1>2, <3>1, <3>2 DEF HostStep, SessionStep, Fresh
  <2>3. cache' \in CacheType
    BY <1>2, <1>d, NoCacheType DEF HostStep, SessionStep, CacheAfterReset
  <2>4. /\ app' \in [App -> Content] /\ stage' \in [Boot -> Content] /\ boot' \in [Boot -> Content]
        /\ rec'.bank \in {"valid", "zero", "none"}
    <3>1. CASE UNCHANGED flashVars
      BY <3>1, <1>d DEF flashVars
    <3>2. CASE rec' = Record("valid", Image(app, ws.appSize)) /\ UNCHANGED <<app, stage, boot>>
      BY <3>2, <1>d DEF Record
    <3>3. CASE CopyBootloader
      BY <3>3, <1>d DEF CopyBootloader
    <3>4. CASE Reset
      BY <3>4, <1>d, CutShape DEF Reset
    <3> QED BY <1>2, <3>1, <3>2, <3>3, <3>4 DEF HostStep, FlashStep
  <2> QED BY <1>0, <1>d, <2>1, <2>2, <2>3, <2>4 DEF Shape
<1> QED BY <1>0, <1>1, <1>2

LEMMA ShapeInit == Init => Shape
<1> SUFFICES ASSUME Init PROVE Shape
  OBVIOUS
<1>1. /\ app \in [App -> Content] /\ rec.bank \in {"valid", "zero", "none"}
  BY ContentFacts DEF Init, Record
<1>2. stage \in [Boot -> Content] /\ boot \in [Boot -> Content]
  BY ContentFacts DEF Init
<1> QED BY <1>1, <1>2, NoTransferType, NoCacheType DEF Init, Shape

\* Every reachable state of a UF2 session has its type: a block number is committed only
\* below numBlocks, an erased page and a staging page lie in their regions, and the page
\* cache holds no page or one of the staging area (write_block of ghostfat.c).
THEOREM TypeCorrect == Spec => []TypeOK
<1>1. Init => Shape
  BY ShapeInit
<1>2. Shape /\ [Next]_vars => Shape'
  BY ShapeStep
<1>3. Shape => TypeOK
  BY ShapeIsType
<1> QED BY <1>1, <1>2, <1>3, PTL DEF Spec

-----------------------------------------------------------------------------
(* The session and flash.  An application block that is committed is in flash, in a page  *)
(* that this session has erased; what else such a page holds is blank.  The record marks  *)
(* no application from the first erasure to the completion, and the completion needs all  *)
(* blocks; so what it marks is whole.                                                     *)

Counted(w) ==
    /\ w.numBlocks = 0 <=> w.kind = "none"
    /\ w.appSize # 0 => w.kind = "app" /\ Full(w)
    /\ w.kind = "app" /\ Full(w) /\ ~w.aborted => w.appSize # 0

Received(x) == x \notin {"old", "blank", "mixed"}

Placed(w, a) ==
    /\ \A i \in App : <<"app", i>> \in w.targets => PageOf(i) \in w.erased /\ Received(a[i])
    /\ \A i \in App : PageOf(i) \in w.erased /\ <<"app", i>> \notin w.targets => a[i] = "blank"
    /\ w.erased # {} => w.invalidated
    /\ w.maxEnd <= AppPages * PageBlocks /\ w.appSize <= AppPages * PageBlocks
    /\ \A i \in 0 .. (w.appSize - 1) : <<"app", i>> \in w.targets

Whole(a, r) ==
    \/ \A i \in App : a[i] = "old"
    \/ /\ r.img # NoImage
       /\ \A i \in DOMAIN r.img : a[i] = r.img[i] /\ Received(a[i])

Marks(w, a, r) ==
    /\ w.invalidated /\ w.appSize = 0 => r.bank = "zero"
    /\ r.bank # "zero" => Whole(a, r)

Staged(w, s) == w.kind = "boot" /\ Full(w) /\ ~w.aborted => PolicyAccepts(s)

TransferInv(w, a, r, s) == Counted(w) /\ Placed(w, a) /\ Marks(w, a, r) /\ Staged(w, s)

CommandInv ==
    /\ pending /\ cmd # "none" => active
    /\ pending /\ ~ws.aborted => ws.appSize # 0
    /\ run = "app" => rec.bank # "zero"

FlashInv == TransferInv(ws, app, rec, stage) /\ BootloaderIsWhole /\ CommandInv

LEMMA FreshTransfer ==
    ASSUME NEW a, NEW r, NEW s, r.bank # "zero" => Whole(a, r)
    PROVE  TransferInv(NoTransfer, a, r, s)
  BY Sizes DEF TransferInv, Counted, Placed, Marks, Staged, NoTransfer

LEMMA AbortKeeps ==
    ASSUME NEW w \in WsType, NEW a, NEW r, NEW s, TransferInv(w, a, r, s)
    PROVE  TransferInv(AbortedTransfer(w), a, r, s)
<1> DEFINE v == AbortedTransfer(w)
<1>1. v.aborted = TRUE /\ SameButAborted(v, w)
  BY AbortedFields
<1> HIDE DEF v
<1>2. Counted(v)
  BY <1>1 DEF TransferInv, Counted, SameButAborted, Full
<1>3. Placed(v, a)
  BY <1>1 DEF TransferInv, Placed, SameButAborted
<1>4. Marks(v, a, r) /\ Staged(v, s)
  BY <1>1 DEF TransferInv, Marks, Staged, SameButAborted
<1> QED BY <1>2, <1>3, <1>4 DEF TransferInv, v

\* A block that is stored finds the transfer without a size, and does not complete it by
\* its geometry.
LEMMA StoringOpen ==
    ASSUME Shape, Counted(ws), NEW kind, NEW area, Storing(kind, area)
    PROVE  ws.appSize = 0 /\ ~Full(Latched(sector)) /\ sector.num # 0
<1>1. /\ ws.numBlocks = 0 \/ ~Full(ws)
      /\ sector.num \in 1 .. MAX_BLOCKS /\ sector.no \in 0 .. (sector.num - 1)
      /\ sector.no \notin ws.written
  BY StoringFacts
<1>2. /\ Latched(sector) \in WsType /\ Latched(sector).written = ws.written
      /\ Latched(sector).numBlocks = sector.num
      /\ Latched(sector).written \subseteq 0 .. (Latched(sector).numBlocks - 1)
  BY LatchedShape DEF SameButGeometry
<1>3. ~Full(Latched(sector))
  BY <1>1, <1>2, FullMeansAll
<1>4. sector.num # 0
  BY <1>1
<1> QED BY <1>1, <1>3, <1>4 DEF Counted

\* A step that latches the geometry and stores no block.
LEMMA LatchKeeps ==
    ASSUME Shape, TransferInv(ws, app, rec, stage), NEW kind, NEW area, Storing(kind, area),
           NEW v, v.numBlocks = sector.num, v.kind = sector.kind, v.written = ws.written,
           v.appSize = ws.appSize
    PROVE  Counted(v) /\ (\A s : Staged(v, s))
<1>1. ws.appSize = 0 /\ ~Full(Latched(sector)) /\ sector.num # 0
  BY StoringOpen DEF TransferInv
<1>2. Latched(sector).written = ws.written /\ Latched(sector).numBlocks = sector.num
  BY LatchedShape DEF SameButGeometry
<1>3. ~Full(v)
  BY <1>1, <1>2 DEF Full
<1>4. sector.kind \in {"app", "boot"}
  BY StoringFacts, BlockFacts DEF Shape
<1> QED BY <1>1, <1>3, <1>4 DEF Counted, Staged

\* The end of a block of an application.
LEMMA FinalizeKeeps ==
    ASSUME NEW v \in WsType, v.written \subseteq 0 .. (v.numBlocks - 1), v.appSize = 0,
           v.kind = "app", v.numBlocks # 0, NEW a, Placed(v, a), NEW r, Marks(v, a, r), NEW s
    PROVE  TransferInv(AppFinalized(v, a), a, r, s)
<1>1. CASE ~Full(v)
  BY <1>1 DEF AppFinalized, TransferInv, Counted, Staged
<1>2. CASE Full(v) /\ v.invalidated /\ uf2_application_finalize(v, a)
  <2> DEFINE w == [v EXCEPT !.appSize = v.maxEnd]
  <2>1. AppFinalized(v, a) = w
    BY <1>2 DEF AppFinalized
  <2>2. /\ w.appSize = v.maxEnd /\ w.kind = v.kind /\ w.numBlocks = v.numBlocks
        /\ w.written = v.written /\ w.targets = v.targets /\ w.invalidated = v.invalidated
        /\ w.erased = v.erased /\ w.maxEnd = v.maxEnd /\ w.aborted = v.aborted
    BY DEF WsType
  <2> HIDE DEF w
  <2>3. v.maxEnd > 0 /\ v.maxEnd \in Nat /\ \A i \in 0 .. (v.maxEnd - 1) : <<"app", i>> \in v.targets
    BY <1>2 DEF uf2_application_finalize, WsType
  <2>4. Counted(w)
    BY <1>2, <2>2, <2>3 DEF Counted, Full
  <2>5. Placed(w, a)
    BY <2>2, <2>3 DEF Placed
  <2>6. Marks(w, a, r)
    BY <2>2, <2>3 DEF Marks
  <2> QED BY <2>1, <2>2, <2>4, <2>5, <2>6 DEF TransferInv, Staged
<1>3. CASE Full(v) /\ ~(v.invalidated /\ uf2_application_finalize(v, a))
  <2> DEFINE w == AbortedTransfer(v)
  <2>1. AppFinalized(v, a) = w
    BY <1>3 DEF AppFinalized
  <2>2. w.aborted = TRUE /\ SameButAborted(w, v)
    BY AbortedFields
  <2> HIDE DEF w
  <2>3. Counted(w) /\ Staged(w, s)
    BY <1>3, <2>2 DEF Counted, Full, SameButAborted, Staged
  <2>4. Placed(w, a) /\ Marks(w, a, r)
    BY <2>2 DEF Placed, Marks, SameButAborted
  <2> QED BY <2>1, <2>3, <2>4 DEF TransferInv
<1> QED BY <1>1, <1>2, <1>3

\* A block below the application is committed without a change of flash.
LEMMA CheckedKeeps ==
    ASSUME NEW w, NEW v, NEW b, NEW a, NEW r, WithBlock(v, w, b), b.area # "app", Placed(w, a), Marks(w, a, r)
    PROVE  Placed(v, a) /\ Marks(v, a, r)
<1>1. \A i : <<"app", i>> \in v.targets <=> <<"app", i>> \in w.targets
  BY DEF WithBlock, Target
<1>2. v.erased = w.erased /\ v.invalidated = w.invalidated /\ v.maxEnd = w.maxEnd /\ v.appSize = w.appSize
  BY DEF WithBlock
<1> QED BY <1>1, <1>2 DEF Placed, Marks

\* A block of the application is programmed into an erased page, where it finds nothing.
LEMMA ProgramKeeps ==
    ASSUME NEW w \in WsType, NEW v, NEW b, NEW a \in [App -> Content], NEW r, WithBlock(v, w, b),
           b.area = "app", b.kind = "app", b.at \in App, Received(b.data),
           PageOf(b.at) \in w.erased, Target(b) \notin w.targets,
           Placed(w, a), w.appSize = 0, r.bank = "zero",
           NEW p, p[b.at] = Programmed(a[b.at], b.data), \A i \in App : i # b.at => p[i] = a[i]
    PROVE  /\ Placed(v, p) /\ Marks(v, p, r)
           /\ p[b.at] = b.data /\ \A i \in App : i # b.at => p[i] = a[i]
<1>1. a[b.at] = "blank"
  BY DEF Placed, Target
<1>2. p[b.at] = b.data /\ \A i \in App : i # b.at => p[i] = a[i]
  BY <1>1 DEF Programmed, Received
<1>3. \A i : <<"app", i>> \in v.targets <=> (<<"app", i>> \in w.targets \/ i = b.at)
  BY DEF WithBlock, Target
<1>4. v.erased = w.erased /\ v.invalidated = w.invalidated /\ v.appSize = 0
  BY DEF WithBlock
<1>5. v.maxEnd <= AppPages * PageBlocks
  BY Sizes DEF WithBlock, Placed, App, WsType
<1>6. Placed(v, p)
  BY <1>2, <1>3, <1>4, <1>5, Sizes DEF Placed
<1>7. Marks(v, p, r)
  BY DEF Marks
<1> QED BY <1>2, <1>6, <1>7

\* A page that holds none of the committed blocks is erased.
LEMMA EraseKeeps ==
    ASSUME NEW w, NEW v, NEW a \in [App -> Content], NEW b, NEW q \in Nat, q \notin w.erased, w.invalidated,
           b = [i \in App |-> IF i \in InPage(q) THEN "blank" ELSE a[i]],
           v.erased = w.erased \cup {q}, v.targets = w.targets, v.invalidated = w.invalidated,
           v.maxEnd = w.maxEnd, v.appSize = w.appSize, Placed(w, a)
    PROVE  Placed(v, b) /\ \A i \in App : PageOf(i) # q => b[i] = a[i]
<1>1. ASSUME NEW i \in App PROVE b[i] = IF PageOf(i) = q THEN "blank" ELSE a[i]
  <2>1. i \in Nat
    BY Sizes DEF App
  <2>2. i \in InPage(q) <=> PageOf(i) = q
    BY <2>1, Place
  <2> QED BY <2>2
<1>2. ASSUME NEW i \in App, <<"app", i>> \in v.targets PROVE PageOf(i) \in v.erased /\ Received(b[i])
  BY <1>1, <1>2 DEF Placed
<1>3. ASSUME NEW i \in App, PageOf(i) \in v.erased, <<"app", i>> \notin v.targets PROVE b[i] = "blank"
  BY <1>1, <1>3 DEF Placed
<1> QED BY <1>1, <1>2, <1>3 DEF Placed

LEMMA WriteKeepsTransfer ==
    ASSUME Shape, write_block, UNCHANGED device, TransferInv(ws, app, rec, stage)
    PROVE  TransferInv(ws, app, rec, stage)'
<1>0. /\ device \in DOMAIN Devices /\ ws \in WsType /\ app \in [App -> Content]
      /\ ws.written \subseteq 0 .. (ws.numBlocks - 1)
      /\ Counted(ws) /\ Placed(ws, app) /\ Marks(ws, app, rec) /\ Staged(ws, stage)
  BY DEF Shape, TransferInv
<1>1. CASE WriteRefused \/ WriteDuplicate
  BY <1>1 DEF WriteRefused, WriteDuplicate, NotFlash, flashVars
<1>2. CASE WriteAborts
  <2>1. UNCHANGED <<app, stage, rec, cache>>
    BY <1>2 DEF WriteAborts, NotFlash, flashVars
  <2>2. CASE ws' = AbortedTransfer(ws)
    <3>1. TransferInv(AbortedTransfer(ws), app, rec, stage)
      BY <1>0, AbortKeeps
    <3> QED BY <2>1, <2>2, <3>1
  <2>3. CASE Calling /\ uf2_transfer_prepare(sector) = "accept" /\ ws' = AbortedTransfer(Latched(sector))
    <3>1. sector \in Devices[device].offered
      BY <2>3 DEF Calling, Shape
    <3>2. sector.num \in Nat /\ sector.no \in Nat /\ sector.kind \in {"app", "boot"}
      BY <3>1, <1>0, BlockFacts
    <3>3. /\ sector.num \in 1 .. MAX_BLOCKS /\ ws.numBlocks \in {0, sector.num} /\ sector.no < sector.num
          /\ sector.no \notin ws.written /\ ws.kind \in {"none", sector.kind}
      BY <2>3, <3>2, Prepared
    <3> DEFINE L == Latched(sector)
               v == AbortedTransfer(L)
    <3>4. L \in WsType /\ SameButGeometry(L, ws) /\ L.numBlocks = sector.num /\ L.kind = sector.kind
      BY <1>0, <3>2, <3>3, Sizes, LatchedFields
    <3>5. v.aborted = TRUE /\ SameButAborted(v, L)
      BY <3>4, AbortedFields
    <3> HIDE DEF L, v
    <3>6. ws.appSize = 0
      <4> SUFFICES ASSUME ws.appSize # 0 PROVE FALSE
        OBVIOUS
      <4>1. ws.kind = "app" /\ Full(ws) /\ ws.numBlocks # 0
        BY <1>0 DEF Counted
      <4>2. ws.written = 0 .. (ws.numBlocks - 1)
        BY <4>1, <1>0, FullMeansAll
      <4> QED BY <4>1, <4>2, <3>2, <3>3
    <3>7. Counted(v) /\ Staged(v, stage)
      BY <3>2, <3>3, <3>4, <3>5, <3>6 DEF Counted, Staged, SameButAborted, SameButGeometry
    <3>8. Placed(v, app) /\ Marks(v, app, rec)
      BY <1>0, <3>4, <3>5 DEF Placed, Marks, SameButAborted, SameButGeometry
    <3>9. ws' = v
      BY <2>3 DEF v, L
    <3> QED BY <2>1, <3>7, <3>8, <3>9 DEF TransferInv
  <2> QED BY <1>2, <2>2, <2>3 DEF WriteAborts
<1>4. CASE WriteChecked
  <2>1. /\ Storing("app", {"mbr", "sd"}) /\ UNCHANGED <<app, stage, rec>>
        /\ ws' = AppFinalized(Committed(sector), app)
    BY <1>4 DEF WriteChecked, flashVars, CommitApp
  <2> DEFINE v == Committed(sector)
  <2>2. v \in WsType /\ WithBlock(v, ws, sector) /\ v.written \subseteq 0 .. (v.numBlocks - 1)
    BY <2>1, CommittedShape
  <2>3. ws.appSize = 0 /\ sector.num # 0 /\ sector.kind = "app" /\ sector.area # "app"
    BY <2>1, <1>0, StoringOpen, StoringFacts
  <2> HIDE DEF v
  <2>4. v.appSize = 0 /\ v.kind = "app" /\ v.numBlocks # 0
    BY <2>2, <2>3 DEF WithBlock
  <2>5. Placed(v, app) /\ Marks(v, app, rec)
    BY <2>2, <2>3, <1>0, CheckedKeeps
  <2>6. TransferInv(AppFinalized(v, app), app, rec, stage)
    BY <2>2, <2>4, <2>5, FinalizeKeeps
  <2> QED BY <2>1, <2>6 DEF v
<1>5. CASE WriteInvalidates
  <2>1. /\ Storing("app", {"app"}) /\ ws' = [Latched(sector) EXCEPT !.invalidated = TRUE]
        /\ rec'.bank = "zero" /\ UNCHANGED <<app, stage>>
    BY <1>5 DEF WriteInvalidates, Record
  <2>2. /\ Latched(sector) \in WsType /\ SameButGeometry(Latched(sector), ws)
        /\ Latched(sector).numBlocks = sector.num /\ Latched(sector).kind = sector.kind
    BY <2>1, LatchedShape
  <2>3. /\ ws'.numBlocks = sector.num /\ ws'.kind = sector.kind /\ ws'.written = ws.written
        /\ ws'.appSize = ws.appSize /\ ws'.invalidated = TRUE /\ ws'.erased = ws.erased
        /\ ws'.targets = ws.targets /\ ws'.maxEnd = ws.maxEnd
    BY <2>1, <2>2 DEF WsType, SameButGeometry
  <2>4. Counted(ws') /\ Staged(ws', stage)
    BY <2>1, <2>3, LatchKeeps
  <2>5. Placed(ws', app) /\ Marks(ws', app, rec')
    BY <2>1, <2>3, <1>0 DEF Placed, Marks
  <2> QED BY <2>1, <2>4, <2>5 DEF TransferInv
<1>6. CASE WriteErases
  <2>1. /\ Storing("app", {"app"}) /\ ws' = [Latched(sector) EXCEPT !.erased = @ \cup {PageOf(sector.at)}]
        /\ app' = [i \in App |-> IF i \in InPage(PageOf(sector.at)) THEN "blank" ELSE app[i]]
        /\ ws.invalidated /\ PageOf(sector.at) \notin ws.erased /\ UNCHANGED <<stage, rec>>
    BY <1>6 DEF WriteErases, Invalidates, ErasesPage
  <2>2. /\ Latched(sector) \in WsType /\ SameButGeometry(Latched(sector), ws)
        /\ Latched(sector).numBlocks = sector.num /\ Latched(sector).kind = sector.kind
    BY <2>1, LatchedShape
  <2>3. /\ ws'.numBlocks = sector.num /\ ws'.kind = sector.kind /\ ws'.written = ws.written
        /\ ws'.appSize = ws.appSize /\ ws'.invalidated = ws.invalidated
        /\ ws'.erased = ws.erased \cup {PageOf(sector.at)}
        /\ ws'.targets = ws.targets /\ ws'.maxEnd = ws.maxEnd
    BY <2>1, <2>2 DEF WsType, SameButGeometry
  <2>4. Counted(ws') /\ Staged(ws', stage)
    BY <2>1, <2>3, LatchKeeps
  <2>5. PageOf(sector.at) \in Nat
    BY <2>1, <1>0, StoringFacts, BlockFacts, Place
  <2>6. Placed(ws', app')
    <3> DEFINE q == PageOf(sector.at)
    <3>1. /\ q \in Nat /\ q \notin ws.erased /\ ws.invalidated
          /\ app' = [i \in App |-> IF i \in InPage(q) THEN "blank" ELSE app[i]]
          /\ ws'.erased = ws.erased \cup {q}
      BY <2>1, <2>3, <2>5
    <3> HIDE DEF q
    <3>2. ws'.targets = ws.targets /\ ws'.invalidated = ws.invalidated /\ ws'.maxEnd = ws.maxEnd
          /\ ws'.appSize = ws.appSize
      BY <2>3
    <3> QED BY <3>1, <3>2, <1>0, EraseKeeps
  <2>7. rec.bank = "zero"
    BY <2>1, <1>0, StoringOpen DEF Marks
  <2>8. Marks(ws', app', rec)
    BY <2>7 DEF Marks
  <2> QED BY <2>1, <2>4, <2>6, <2>8 DEF TransferInv
<1>7. CASE WritePrograms
  <2> DEFINE v == Committed(sector)
  <2>1. /\ Storing("app", {"app"}) /\ UNCHANGED <<stage, rec>>
        /\ app' = [app EXCEPT ![sector.at] = Programmed(@, sector.data)]
        /\ ws' = AppFinalized(v, app')
        /\ ws.invalidated /\ PageOf(sector.at) \in ws.erased
    BY <1>7 DEF WritePrograms, CommitApp, Invalidates, ErasesPage
  <2>2. v \in WsType /\ WithBlock(v, ws, sector) /\ v.written \subseteq 0 .. (v.numBlocks - 1)
    BY <2>1, CommittedShape
  <2>3. /\ ws.appSize = 0 /\ sector.num # 0 /\ sector.kind = "app" /\ sector.area = "app"
        /\ sector.at \in App /\ Received(sector.data) /\ ~Unacceptable(sector)
    BY <2>1, <1>0, StoringOpen, StoringFacts, BlockFacts DEF Received
  <2>4. Target(sector) \notin ws.targets
    BY <2>3 DEF Unacceptable
  <2>5. rec.bank = "zero"
    BY <2>1, <2>3, <1>0 DEF Marks
  <2> HIDE DEF v
  <2>6. Placed(v, app') /\ Marks(v, app', rec)
    <3>1. /\ WithBlock(v, ws, sector) /\ sector.area = "app" /\ sector.kind = "app" /\ sector.at \in App
          /\ Received(sector.data) /\ PageOf(sector.at) \in ws.erased /\ Target(sector) \notin ws.targets
          /\ Placed(ws, app) /\ ws.appSize = 0 /\ rec.bank = "zero"
          /\ ws \in WsType /\ app \in [App -> Content]
      BY <2>1, <2>2, <2>3, <2>4, <2>5, <1>0
    <3>2. /\ app'[sector.at] = Programmed(app[sector.at], sector.data)
          /\ \A i \in App : i # sector.at => app'[i] = app[i]
      BY <2>1, <3>1
    <3> QED BY <3>1, <3>2, ProgramKeeps
  <2>7. v.appSize = 0 /\ v.kind = "app" /\ v.numBlocks # 0
    BY <2>2, <2>3 DEF WithBlock
  <2>8. TransferInv(AppFinalized(v, app'), app', rec, stage)
    BY <2>2, <2>6, <2>7, FinalizeKeeps
  <2> QED BY <2>1, <2>8
<1>8. CASE WriteErasesStaging
  <2>1. /\ Storing("boot", {"boot"}) /\ ws' = [Latched(sector) EXCEPT !.stagingErased = @ + 1]
        /\ UNCHANGED <<app, rec>>
    BY <1>8 DEF WriteErasesStaging
  <2>2. /\ Latched(sector) \in WsType /\ SameButGeometry(Latched(sector), ws)
        /\ Latched(sector).numBlocks = sector.num /\ Latched(sector).kind = sector.kind
    BY <2>1, LatchedShape
  <2>3. /\ ws'.numBlocks = sector.num /\ ws'.kind = sector.kind /\ ws'.written = ws.written
        /\ ws'.appSize = ws.appSize /\ ws'.invalidated = ws.invalidated /\ ws'.erased = ws.erased
        /\ ws'.targets = ws.targets /\ ws'.maxEnd = ws.maxEnd
    BY <2>1, <2>2 DEF WsType, SameButGeometry
  <2>4. Counted(ws') /\ Staged(ws', stage')
    BY <2>1, <2>3, LatchKeeps
  <2>5. Placed(ws', app) /\ Marks(ws', app, rec)
    BY <2>3, <1>0 DEF Placed, Marks
  <2> QED BY <2>1, <2>4, <2>5 DEF TransferInv
<1>9. CASE WriteStages \/ WriteSkips
  <2>1. PICK area, c, s :
           /\ area \in {{"boot"}, {"mbr", "uicr"}}
           /\ Storing("boot", area) /\ CommitBoot(c, s) /\ UNCHANGED <<app, rec>>
    BY <1>9 DEF WriteStages, WriteSkips
  <2> DEFINE v == Committed(sector)
  <2>2. v \in WsType /\ WithBlock(v, ws, sector)
    BY <2>1, CommittedShape
  <2>3. ws.appSize = 0 /\ sector.num # 0 /\ sector.kind = "boot" /\ sector.area # "app"
    BY <2>1, <1>0, StoringOpen, StoringFacts
  <2>4. /\ ws' = IF Full(v) /\ ~(v.hasUicr /\ v.stagingErased = BootPages /\ PolicyAccepts(stage'))
                 THEN AbortedTransfer(v) ELSE v
    BY <2>1 DEF CommitBoot
  <2> HIDE DEF v
  <2>5. Placed(v, app) /\ Marks(v, app, rec)
    BY <2>2, <2>3, <1>0, CheckedKeeps
  <2>6. v.appSize = 0 /\ v.kind = "boot" /\ v.numBlocks # 0
    BY <2>2, <2>3 DEF WithBlock
  <2>7. Counted(v)
    BY <2>6 DEF Counted
  <2>8. CASE ws' = AbortedTransfer(v)
    <3>1. ws'.aborted = TRUE /\ SameButAborted(ws', v)
      BY <2>2, <2>8, AbortedFields
    <3>2. Counted(ws') /\ Staged(ws', stage')
      BY <2>6, <3>1 DEF Counted, Staged, SameButAborted
    <3>3. Placed(ws', app) /\ Marks(ws', app, rec)
      BY <2>5, <3>1 DEF Placed, Marks, SameButAborted
    <3> QED BY <2>1, <3>2, <3>3 DEF TransferInv
  <2>9. CASE ws' = v /\ (Full(v) => PolicyAccepts(stage'))
    <3>1. Staged(ws', stage')
      BY <2>9 DEF Staged
    <3> QED BY <2>1, <2>5, <2>7, <2>9, <3>1 DEF TransferInv
  <2> QED BY <2>4, <2>8, <2>9
<1> QED BY <1>1, <1>2, <1>4, <1>5, <1>6, <1>7, <1>8, <1>9 DEF write_block

\* What a completion marks is whole.
LEMMA ImageWhole ==
    ASSUME NEW w \in WsType, NEW a, Placed(w, a), w.appSize # 0, NEW bank
    PROVE  Whole(a, Record(bank, Image(a, w.appSize)))
<1>1. w.appSize \in Nat /\ w.appSize <= AppPages * PageBlocks
  BY DEF WsType, Placed
<1> DEFINE n == w.appSize
           r == Record(bank, Image(a, n))
<1>2. r.img = [i \in 0 .. (n - 1) |-> a[i]]
  BY DEF Record, Image
<1>3. DOMAIN r.img = 0 .. (n - 1) /\ 0 \in DOMAIN r.img
  BY <1>1, <1>2
<1>4. 0 \notin DOMAIN NoImage
  BY DEF NoImage, Image
<1>5. r.img # NoImage
  BY <1>3, <1>4, Zenon
<1>6. ASSUME NEW i \in 0 .. (n - 1) PROVE a[i] = r.img[i] /\ Received(a[i])
  <2>1. i \in App
    BY <1>1, Sizes DEF App
  <2>2. <<"app", i>> \in w.targets
    BY DEF Placed
  <2> QED BY <2>1, <2>2, <1>2 DEF Placed
<1> QED BY <1>3, <1>5, <1>6 DEF Whole

LEMMA CutKeepsWhole ==
    ASSUME Shape, TransferInv(ws, app, rec, stage), CommandInv, CutFlash, rec'.bank # "zero"
    PROVE  Whole(app', rec')
<1>0. ws \in WsType /\ Counted(ws) /\ Placed(ws, app) /\ Marks(ws, app, rec)
  BY DEF Shape, TransferInv
<1>1. CASE UNCHANGED <<app, rec>>
  BY <1>0, <1>1 DEF Marks
<1>2. CASE Storing("app", {"app"}) /\ ~Invalidates /\ rec' = rec
  BY <1>0, <1>2, StoringOpen DEF Marks, Invalidates
<1>3. CASE /\ pending /\ ~ws.aborted /\ app' = app
           /\ rec' \in {Record("none", Image(app, ws.appSize)), Record("zero", NoImage)}
  <2>1. rec' = Record("none", Image(app, ws.appSize))
    BY <1>3 DEF Record
  <2>2. ws.appSize # 0
    BY <1>3 DEF CommandInv
  <2> QED BY <1>0, <1>3, <2>1, <2>2, ImageWhole
<1> QED BY <1>1, <1>2, <1>3 DEF CutFlash, flashVars

LEMMA HostKeepsTransfer ==
    ASSUME Shape, HostStep, TransferInv(ws, app, rec, stage), CommandInv
    PROVE  TransferInv(ws, app, rec, stage)'
<1>0. /\ ws \in WsType /\ Counted(ws) /\ Placed(ws, app) /\ Marks(ws, app, rec)
      /\ rec.bank # "zero" => Whole(app, rec)
  BY DEF Shape, TransferInv, Marks
<1>1. CASE UNCHANGED flashVars
  <2>1. UNCHANGED <<app, rec, stage>>
    BY <1>1 DEF flashVars
  <2>2. CASE ws' = NoTransfer
    <3>1. TransferInv(NoTransfer, app, rec, stage)
      BY <1>0, FreshTransfer
    <3> QED BY <2>1, <2>2, <3>1
  <2>3. CASE ws' = ws
    BY <2>1, <2>3
  <2>4. CASE ws' = AbortedTransfer(ws)
    <3>1. TransferInv(AbortedTransfer(ws), app, rec, stage)
      BY <1>0, AbortKeeps
    <3> QED BY <2>1, <2>4, <3>1
  <2> QED BY <2>2, <2>3, <2>4 DEF HostStep, SessionStep, Fresh
<1>2. CASE /\ ~ws.aborted /\ ws.appSize # 0 /\ rec' = Record("valid", Image(app, ws.appSize))
           /\ UNCHANGED <<app, stage, boot>> /\ (ws' = NoTransfer \/ ws' = ws)
  <2>1. Whole(app, rec')
    BY <1>0, <1>2, ImageWhole
  <2>2. CASE ws' = NoTransfer
    <3>1. TransferInv(NoTransfer, app, rec', stage)
      BY <2>1, FreshTransfer
    <3> QED BY <1>2, <2>2, <3>1
  <2>3. CASE ws' = ws
    <3>1. Marks(ws, app, rec')
      BY <1>2, <2>1 DEF Marks
    <3> QED BY <1>2, <2>3, <3>1 DEF TransferInv
  <2> QED BY <1>2, <2>2, <2>3
<1>3. CASE CopyBootloader
  <2>1. ws' = NoTransfer /\ UNCHANGED <<app, rec>>
    BY <1>3 DEF CopyBootloader, ResetRam
  <2>2. TransferInv(NoTransfer, app, rec, stage')
    BY <1>0, FreshTransfer
  <2> QED BY <2>1, <2>2
<1>4. CASE Reset
  <2>1. ws' = NoTransfer /\ CutFlash
    BY <1>4 DEF Reset, ResetRam
  <2>2. rec'.bank # "zero" => Whole(app', rec')
    BY <2>1, CutKeepsWhole
  <2>3. TransferInv(NoTransfer, app', rec', stage')
    BY <2>2, FreshTransfer
  <2> QED BY <2>1, <2>3
<1> QED BY <1>1, <1>2, <1>3, <1>4 DEF HostStep, FlashStep, Fresh

\* A completion that is pending stays possible: no block is stored any more.
LEMMA WriteKeepsSize ==
    ASSUME Shape, write_block, UNCHANGED device, Counted(ws), ~ws.aborted, ws.appSize # 0
    PROVE  ws'.appSize # 0
<1>0. ws \in WsType
  BY DEF Shape
<1>1. \A kind, area : ~Storing(kind, area)
  BY StoringOpen
<1>2. CASE WriteRefused \/ WriteDuplicate
  BY <1>2 DEF WriteRefused, WriteDuplicate
<1>3. CASE WriteAborts
  <2>1. CASE ws' = AbortedTransfer(ws)
    BY <2>1, <1>0, AbortedFields DEF SameButAborted
  <2>2. CASE uf2_transfer_prepare(sector) = "accept" /\ ws' = AbortedTransfer(Latched(sector))
    <3>1. [Latched(sector) EXCEPT !.aborted = TRUE].appSize = ws.appSize
      BY <1>0 DEF Latched, WsType
    <3> QED BY <2>2, <3>1 DEF AbortedTransfer
  <2> QED BY <1>3, <2>1, <2>2 DEF WriteAborts
<1> QED BY <1>1, <1>2, <1>3 DEF write_block, WriteChecked, WriteInvalidates, WriteErases,
           WritePrograms, WriteErasesStaging, WriteStages, WriteSkips

\* A refused sector, and one that is stored or repeated, leaves an aborted transfer so.
LEMMA AbortedStays ==
    ASSUME write_block, ws.aborted PROVE ws' = ws /\ WriteRefused
  BY DEF write_block, WriteRefused, WriteAborts, WriteDuplicate, WriteChecked, WriteInvalidates, WriteErases,
         WritePrograms, WriteErasesStaging, WriteStages, WriteSkips, Storing, Calling

\* The record is touched by write_block only to invalidate it.
LEMMA WriteRecord ==
    ASSUME write_block PROVE rec' = rec \/ rec' = Record("zero", NoImage)
  BY DEF write_block, WriteRefused, WriteAborts, WriteDuplicate, WriteChecked, WriteInvalidates, WriteErases,
         WritePrograms, WriteErasesStaging, WriteStages, WriteSkips, NotFlash, flashVars

LEMMA CommandStepKeeps ==
    ASSUME Shape, [Next]_vars, TransferInv(ws, app, rec, stage), CommandInv
    PROVE  CommandInv'
<1>0. /\ (write_block \/ HostStep) /\ device' = device /\ ws \in WsType /\ Counted(ws)
      /\ rec.bank \in {"valid", "zero", "none"}
  BY StepCases DEF Shape, TransferInv
<1>1. CASE write_block
  <2>1. UNCHANGED <<run, cmd, active, pending>> /\ run = "dfu"
    BY <1>0, <1>1, WriteFrame DEF completionVars
  <2>2. ASSUME pending, ~ws'.aborted PROVE ws'.appSize # 0
    <3>1. ~ws.aborted
      BY <1>1, <2>2, AbortedStays
    <3> QED BY <1>0, <1>1, <2>2, <3>1, WriteKeepsSize DEF CommandInv
  <2> QED BY <2>1, <2>2 DEF CommandInv
<1>2. CASE HostStep
  <2>1. SessionStep /\ FlashStep /\ CommandStep
    BY <1>2 DEF HostStep
  <2>2. ASSUME pending', cmd' # "none" PROVE active'
    BY <2>1, <2>2 DEF CommandStep, CommandInv
  <2>3. ASSUME pending', ~ws'.aborted PROVE ws'.appSize # 0
    <3>1. CASE Fresh
      BY <2>3, <3>1 DEF Fresh
    <3>2. CASE ws' = ws /\ pending
      BY <2>3, <3>2 DEF CommandInv
    <3>3. CASE ws' = ws /\ ws.kind = "app" /\ Full(ws) /\ ~ws.aborted
      BY <1>0, <3>3 DEF Counted
    <3>4. CASE ws' = AbortedTransfer(ws)
      BY <1>0, <2>3, <3>4, AbortedFields
    <3> QED BY <2>1, <2>3, <3>1, <3>2, <3>3, <3>4 DEF SessionStep, CommandStep
  <2>4. ASSUME run' = "app" PROVE rec'.bank # "zero"
    <3>1. rec.bank # "zero"
      BY <2>1, <2>4 DEF CommandStep, CommandInv, AppValid
    <3>2. CASE UNCHANGED flashVars
      BY <3>1, <3>2 DEF flashVars
    <3>3. CASE rec' = Record("valid", Image(app, ws.appSize))
      BY <3>3 DEF Record
    <3>4. CASE CopyBootloader \/ Reset
      BY <2>4, <3>4 DEF CopyBootloader, Reset
    <3> QED BY <2>1, <3>2, <3>3, <3>4 DEF FlashStep
  <2> QED BY <2>2, <2>3, <2>4 DEF CommandInv
<1> QED BY <1>0, <1>1, <1>2

LEMMA BootStep ==
    ASSUME [Next]_vars, Staged(ws, stage), BootloaderIsWhole
    PROVE  BootloaderIsWhole'
<1>0. (write_block \/ HostStep) /\ device' = device
  BY StepCases
<1>1. CASE boot' = boot
  BY <1>1 DEF BootloaderIsWhole
<1>2. CASE CopyBootloader
  <2>1. boot' = stage /\ PolicyAccepts(stage)
    BY <1>2 DEF CopyBootloader, Staged
  <2> QED BY <2>1 DEF PolicyAccepts, BootloaderIsWhole
<1>3. write_block => boot' = boot
  BY <1>0, WriteFrame
<1>4. Reset => boot' = boot
  BY DEF Reset, CutFlash, flashVars
<1> QED BY <1>0, <1>1, <1>2, <1>3, <1>4 DEF HostStep, FlashStep, flashVars

LEMMA FlashInit == Init => FlashInv
<1> SUFFICES ASSUME Init PROVE FlashInv
  OBVIOUS
<1>1. rec.bank # "zero" => Whole(app, rec)
  BY DEF Init, Whole, Record
<1>2. TransferInv(NoTransfer, app, rec, stage)
  BY <1>1, FreshTransfer
<1>3. TransferInv(ws, app, rec, stage)
  BY <1>2 DEF Init
<1>4. BootloaderIsWhole
  BY DEF Init, BootloaderIsWhole
<1>5. CommandInv
  BY DEF Init, CommandInv
<1> QED BY <1>3, <1>4, <1>5 DEF FlashInv

LEMMA FlashInvStep ==
    ASSUME Shape, FlashInv, [Next]_vars PROVE FlashInv'
<1>0. (write_block \/ HostStep) /\ device' = device
  BY StepCases
<1>1. TransferInv(ws, app, rec, stage) /\ BootloaderIsWhole /\ CommandInv /\ Staged(ws, stage)
  BY DEF FlashInv, TransferInv
<1>2. TransferInv(ws, app, rec, stage)'
  BY <1>0, <1>1, WriteKeepsTransfer, HostKeepsTransfer
<1>3. BootloaderIsWhole'
  BY <1>1, BootStep
<1>4. CommandInv'
  BY <1>1, CommandStepKeeps
<1> QED BY <1>2, <1>3, <1>4 DEF FlashInv

-----------------------------------------------------------------------------
(* What follows. *)

SInv == Shape /\ FlashInv

LEMMA SInvHolds == Spec => []SInv
<1>1. Init => SInv
  BY ShapeInit, FlashInit DEF SInv
<1>2. SInv /\ [Next]_vars => SInv'
  BY ShapeStep, FlashInvStep DEF SInv
<1> QED BY <1>1, <1>2, PTL DEF Spec

\* Wherever a copy to the UF2 volume is interrupted, the bootloader starts the application
\* that was there before or one whose blocks were all received (write_block,
\* uf2_application_finalize, complete_app_update).
THEOREM AlwaysStartsOldOrNew == Spec => []StartsOldOrNew
<1>1. SInv => StartsOldOrNew
  BY DEF SInv, FlashInv, TransferInv, Marks, Whole, Received, CommandInv, StartsOldOrNew
<1> QED BY <1>1, SInvHolds, PTL

\* The bootloader that runs is always one image, that of the build or one that
\* dfu_image_policy_validate has accepted in the staging area (tud_msc_write10_complete_cb).
THEOREM BootloaderAlwaysWhole == Spec => []BootloaderIsWhole
<1>1. SInv => BootloaderIsWhole
  BY DEF SInv, FlashInv
<1> QED BY <1>1, SInvHolds, PTL

LEMMA AppChange ==
    ASSUME SInv, [Next]_vars, app' # app PROVE ~Marked
<1>0. (write_block \/ HostStep) /\ device' = device /\ Shape /\ Counted(ws) /\ Marks(ws, app, rec)
  BY StepCases DEF SInv, FlashInv, TransferInv
<1>1. CASE Storing("app", {"app"}) /\ ~Invalidates
  BY <1>0, <1>1, StoringOpen DEF Marks, Invalidates, Marked
<1>2. CASE write_block
  BY <1>1, <1>2 DEF write_block, WriteRefused, WriteAborts, WriteDuplicate, WriteChecked, WriteInvalidates,
        WriteErases, WritePrograms, WriteErasesStaging, WriteStages, WriteSkips, NotFlash, flashVars
<1>3. CASE HostStep
  <2>1. Reset
    BY <1>3 DEF HostStep, FlashStep, flashVars, CopyBootloader
  <2>2. CutFlash
    BY <2>1 DEF Reset
  <2> QED BY <1>1, <2>2 DEF CutFlash, flashVars
<1> QED BY <1>0, <1>2, <1>3

\* No step, not even a loss of power in the middle of an erasure, changes the application
\* region while the record lets a reset start what is in it (prepare_app_block).
THEOREM ChangesOnlyUnmarked == Spec => FlashChangesOnlyUnmarked
<1>1. SInv /\ [Next]_vars => [app' # app => ~Marked]_vars
  BY AppChange
<1> QED BY <1>1, SInvHolds, PTL DEF Spec, FlashChangesOnlyUnmarked

\* The completion of an application never resets the device in the middle of a command
\* (app_completion_timer_handler, tud_msc_scsi_complete_cb, tud_umount_cb).
THEOREM CompletesOnlyBetweenCommands == Spec => CompletesBetweenCommands
<1>1. SInv /\ [Next]_vars => [status # "complete" /\ status' = "complete" => cmd' = "none"]_vars
  <2> SUFFICES ASSUME SInv, [Next]_vars, status # "complete", status' = "complete" PROVE cmd' = "none"
    OBVIOUS
  <2>1. (write_block \/ HostStep) /\ device' = device
    BY StepCases
  <2>2. ~write_block
    BY <2>1, WriteFrame
  <2>3. CommandStep
    BY <2>1, <2>2 DEF HostStep
  <2> QED BY <2>3 DEF CommandStep, SInv, FlashInv, CommandInv
<1> QED BY <1>1, SInvHolds, PTL DEF Spec, CompletesBetweenCommands

-----------------------------------------------------------------------------
(* Acknowledged blocks.  Every number that is written stands for a block that was          *)
(* committed at an address of its own.  An acknowledged block whose number has one address *)
(* was committed there, or matched what had been; nothing changes flash there again.       *)

Addressed(O, b, A) ==
    /\ \A c \in A : c.no = b.no => c.at = b.at
    /\ \A c \in O : c.num = b.num /\ c.kind = b.kind /\ c.no = b.no => c.area = b.area

AckedBlocks(w, A) ==
    \A b \in A : /\ b.no \in w.written /\ b.num = w.numBlocks /\ b.kind = "app"
                 /\ b.area = "app" /\ b.at \in App

WrittenBlocks(O, w, A) ==
    \A n \in w.written : \E c \in O :
        /\ c.no = n /\ c.num = w.numBlocks /\ c.kind = "app"
        /\ Target(c) \in w.targets
        /\ c.area = "app" => c \in A

AckedInFlash(O, A, a) == \A b \in A : Addressed(O, b, A) => a[b.at] = b.data

AckInv(O, w, A, a) ==
    /\ w.kind = "none" => A = {}
    /\ ~w.aborted /\ w.kind = "app" =>
          AckedBlocks(w, A) /\ WrittenBlocks(O, w, A) /\ AckedInFlash(O, A, a)

\* An acknowledged block whose number has one address is committed at that address.
LEMMA AckedIsTarget ==
    ASSUME NEW O, NEW w, NEW A, AckedBlocks(w, A), WrittenBlocks(O, w, A), NEW b \in A, Addressed(O, b, A)
    PROVE  <<"app", b.at>> \in w.targets
<1>1. b.no \in w.written /\ b.num = w.numBlocks /\ b.kind = "app" /\ b.area = "app"
  BY DEF AckedBlocks
<1>2. PICK c \in O : /\ c.no = b.no /\ c.num = w.numBlocks /\ c.kind = "app"
                     /\ Target(c) \in w.targets /\ (c.area = "app" => c \in A)
  BY <1>1 DEF WrittenBlocks
<1>3. c.area = "app" /\ c \in A
  BY <1>1, <1>2 DEF Addressed
<1>4. c.at = b.at
  BY <1>2, <1>3 DEF Addressed
<1> QED BY <1>2, <1>3, <1>4 DEF Target

\* Flash changes away from what is committed.
LEMMA AckedSurvives ==
    ASSUME NEW O, NEW w, NEW A, NEW a, NEW a2, AckedBlocks(w, A), WrittenBlocks(O, w, A), AckedInFlash(O, A, a),
           \A i \in App : <<"app", i>> \in w.targets => a2[i] = a[i]
    PROVE  AckedInFlash(O, A, a2)
<1> SUFFICES ASSUME NEW b \in A, Addressed(O, b, A) PROVE a2[b.at] = b.data
  BY DEF AckedInFlash
<1>1. <<"app", b.at>> \in w.targets
  BY AckedIsTarget
<1>2. b.at \in App
  BY DEF AckedBlocks
<1> QED BY <1>1, <1>2 DEF AckedInFlash

\* A block is acknowledged that is in flash.
LEMMA AckedMore ==
    ASSUME NEW O, NEW A, NEW a, AckedInFlash(O, A, a), NEW s, a[s.at] = s.data
    PROVE  AckedInFlash(O, A \cup {s}, a)
<1> SUFFICES ASSUME NEW b \in A \cup {s}, Addressed(O, b, A \cup {s}) PROVE a[b.at] = b.data
  BY DEF AckedInFlash
<1>1. CASE b = s
  BY <1>1
<1>2. CASE b \in A
  <2>1. Addressed(O, b, A)
    BY DEF Addressed
  <2> QED BY <1>2, <2>1 DEF AckedInFlash
<1> QED BY <1>1, <1>2

\* A block is committed.
LEMMA CommitAcked ==
    ASSUME NEW O, NEW w, NEW v, NEW A, NEW A2, NEW s \in O, s.kind = "app", s.area = "app" => s.at \in App,
           v.written = w.written \cup {s.no}, v.targets = w.targets \cup {Target(s)},
           v.numBlocks = s.num, w.written = {} \/ w.numBlocks = s.num,
           AckedBlocks(w, A), WrittenBlocks(O, w, A),
           A2 = IF s.area = "app" THEN A \cup {s} ELSE A
    PROVE  AckedBlocks(v, A2) /\ WrittenBlocks(O, v, A2)
<1>1. AckedBlocks(v, A2)
  BY DEF AckedBlocks
<1>2. ASSUME NEW n \in v.written
      PROVE  \E c \in O : /\ c.no = n /\ c.num = v.numBlocks /\ c.kind = "app"
                          /\ Target(c) \in v.targets /\ (c.area = "app" => c \in A2)
  <2>1. CASE n = s.no
    BY <2>1
  <2>2. CASE n \in w.written
    <3>1. PICK c \in O : /\ c.no = n /\ c.num = w.numBlocks /\ c.kind = "app"
                         /\ Target(c) \in w.targets /\ (c.area = "app" => c \in A)
      BY <2>2 DEF WrittenBlocks
    <3> QED BY <2>2, <3>1
  <2> QED BY <2>1, <2>2
<1> QED BY <1>1, <1>2 DEF WrittenBlocks

LEMMA FinalizedFields ==
    ASSUME NEW v \in WsType, NEW a
    PROVE  LET w == AppFinalized(v, a) IN
           /\ w.numBlocks = v.numBlocks /\ w.kind = v.kind /\ w.written = v.written /\ w.targets = v.targets
           /\ w.erased = v.erased /\ w.maxEnd = v.maxEnd /\ w.invalidated = v.invalidated
           /\ w.hasUicr = v.hasUicr /\ w.stagingErased = v.stagingErased
  BY AbortedFields DEF AppFinalized, WsType, SameButAborted

\* Before the first block of an application nothing is acknowledged.
LEMMA AckOpen ==
    ASSUME NEW O, NEW w \in WsType, NEW A, NEW a, w.written \subseteq 0 .. (w.numBlocks - 1), Counted(w),
           AckInv(O, w, A, a), ~w.aborted, w.kind \in {"none", "app"}
    PROVE  /\ AckedBlocks(w, A) /\ WrittenBlocks(O, w, A) /\ AckedInFlash(O, A, a)
           /\ w.kind = "none" => w.written = {}
<1>1. w.kind = "none" => w.written = {}
  BY DEF Counted
<1> QED BY <1>1 DEF AckInv, AckedBlocks, WrittenBlocks, AckedInFlash

LEMMA CommitAppAcked ==
    ASSUME Shape, TransferInv(ws, app, rec, stage), NEW area, Storing("app", area),
           NEW O, O = Devices[device].offered, AckInv(O, ws, acked, app), CommitApp(app'),
           AckedInFlash(O, acked, app'), sector.area = "app" => app'[sector.at] = sector.data
    PROVE  AckInv(O, ws', acked', app')
<1> DEFINE v == Committed(sector)
<1>0. /\ ws \in WsType /\ ws.written \subseteq 0 .. (ws.numBlocks - 1) /\ Counted(ws)
      /\ device \in DOMAIN Devices
  BY DEF Shape, TransferInv
<1>1. /\ sector \in O /\ sector.kind = "app" /\ ~ws.aborted /\ ws.kind \in {"none", "app"}
      /\ ws.numBlocks \in {0, sector.num} /\ (sector.area = "app" => sector.at \in App)
  BY <1>0, StoringFacts, BlockFacts
<1>2. /\ AckedBlocks(ws, acked) /\ WrittenBlocks(O, ws, acked)
      /\ ws.kind = "none" => ws.written = {}
  BY <1>0, <1>1, AckOpen
<1>3. ws.written = {} \/ ws.numBlocks = sector.num
  BY <1>0, <1>1, <1>2 DEF Counted
<1>4. v \in WsType /\ WithBlock(v, ws, sector)
  BY CommittedShape
<1>5. ws' = AppFinalized(v, app')
  BY DEF CommitApp
<1> HIDE DEF v
<1>6. /\ ws'.kind = "app" /\ ws'.written = ws.written \cup {sector.no}
      /\ ws'.targets = ws.targets \cup {Target(sector)} /\ ws'.numBlocks = sector.num
  BY <1>1, <1>4, <1>5, FinalizedFields DEF WithBlock
<1>7. CASE ws'.aborted
  BY <1>6, <1>7 DEF AckInv
<1>8. CASE ~ws'.aborted
  <2>1. acked' = IF sector.area = "app" THEN acked \cup {sector} ELSE acked
    BY <1>8 DEF CommitApp, Accepted
  <2>2. AckedBlocks(ws', acked') /\ WrittenBlocks(O, ws', acked')
    BY <1>1, <1>2, <1>3, <1>6, <2>1, CommitAcked
  <2>3. AckedInFlash(O, acked', app')
    <3>1. CASE sector.area = "app"
      BY <2>1, <3>1, AckedMore
    <3>2. CASE sector.area # "app"
      BY <2>1, <3>2
    <3> QED BY <3>1, <3>2
  <2> QED BY <1>6, <2>2, <2>3 DEF AckInv
<1> QED BY <1>7, <1>8

\* A step that stores no block and leaves what is committed in flash.
LEMMA LatchAcked ==
    ASSUME Shape, TransferInv(ws, app, rec, stage), NEW area, Storing("app", area),
           NEW O, AckInv(O, ws, acked, app), NEW v, NEW a,
           v.written = ws.written, v.targets = ws.targets, v.numBlocks = sector.num, v.kind = "app",
           AckedInFlash(O, acked, a)
    PROVE  AckInv(O, v, acked, a)
<1>0. /\ ws \in WsType /\ ws.written \subseteq 0 .. (ws.numBlocks - 1) /\ Counted(ws)
  BY DEF Shape, TransferInv
<1>1. ~ws.aborted /\ ws.kind \in {"none", "app"} /\ ws.numBlocks \in {0, sector.num}
  BY StoringFacts
<1>2. /\ AckedBlocks(ws, acked) /\ WrittenBlocks(O, ws, acked)
      /\ ws.kind = "none" => ws.written = {}
  BY <1>0, <1>1, AckOpen
<1>3. ws.written = {} \/ ws.numBlocks = v.numBlocks
  BY <1>0, <1>1, <1>2 DEF Counted
<1>4. AckedBlocks(v, acked)
  BY <1>2, <1>3 DEF AckedBlocks
<1>5. WrittenBlocks(O, v, acked)
  BY <1>2, <1>3 DEF WrittenBlocks
<1> QED BY <1>4, <1>5 DEF AckInv

LEMMA WriteKeepsAcked ==
    ASSUME Shape, TransferInv(ws, app, rec, stage), write_block, UNCHANGED device,
           NEW O, O = Devices[device].offered, AckInv(O, ws, acked, app)
    PROVE  AckInv(O, ws', acked', app')
<1>0. /\ ws \in WsType /\ ws.written \subseteq 0 .. (ws.numBlocks - 1) /\ Counted(ws) /\ Placed(ws, app)
      /\ Marks(ws, app, rec) /\ device \in DOMAIN Devices /\ app \in [App -> Content]
  BY DEF Shape, TransferInv
<1>a. ASSUME NEW area, Storing("app", area)
      PROVE  /\ AckedBlocks(ws, acked) /\ WrittenBlocks(O, ws, acked) /\ AckedInFlash(O, acked, app)
             /\ sector \in O /\ sector.kind = "app" /\ sector.area \in area
             /\ (sector.area = "app" => sector.at \in App /\ Received(sector.data))
             /\ ~Unacceptable(sector)
  <2>1. /\ ~ws.aborted /\ ws.kind \in {"none", "app"} /\ sector \in O /\ sector.kind = "app"
        /\ sector.area \in area /\ ~Unacceptable(sector)
    BY <1>a, StoringFacts
  <2>2. AckedBlocks(ws, acked) /\ WrittenBlocks(O, ws, acked) /\ AckedInFlash(O, acked, app)
    BY <1>0, <2>1, AckOpen
  <2>3. sector.area = "app" => sector.at \in App /\ Received(sector.data)
    BY <1>0, <2>1, BlockFacts DEF Received
  <2> QED BY <2>1, <2>2, <2>3
<1>1. CASE WriteRefused
  BY <1>1 DEF WriteRefused, Failed, NotFlash, flashVars
<1>2. CASE WriteAborts
  <2>1. UNCHANGED <<acked, app>>
    BY <1>2 DEF WriteAborts, NotFlash, flashVars, Failed
  <2>2. CASE ws' = AbortedTransfer(ws)
    <3>1. ws'.aborted = TRUE /\ ws'.kind = ws.kind
      BY <1>0, <2>2, AbortedFields DEF SameButAborted
    <3> QED BY <2>1, <3>1 DEF AckInv
  <2>3. CASE Calling /\ ws' = AbortedTransfer(Latched(sector))
    <3>1. ws' = [Latched(sector) EXCEPT !.aborted = TRUE]
      BY <2>3 DEF AbortedTransfer
    <3>2. ws'.aborted = TRUE /\ ws'.kind = sector.kind
      BY <3>1, <1>0 DEF Latched, WsType
    <3>3. sector.kind # "none"
      BY <1>0, <2>3, BlockFacts DEF Calling, Shape
    <3> QED BY <3>2, <3>3 DEF AckInv
  <2> QED BY <1>2, <2>2, <2>3 DEF WriteAborts
<1>3. CASE WriteDuplicate
  <2>1. /\ uf2_transfer_prepare(sector) = "duplicate" /\ DuplicateAccepted(sector)
        /\ acked' = IF sector.area = "app" THEN acked \cup {sector} ELSE acked
        /\ UNCHANGED <<app, ws>> /\ sector \in O
    BY <1>3 DEF WriteDuplicate, Calling, Accepted, NotFlash, flashVars, Shape
  <2>2. sector.num \in Nat /\ sector.no \in Nat /\ (sector.area = "app" => sector.at \in App)
    BY <1>0, <2>1, BlockFacts
  <2>3. /\ ws.numBlocks \in {0, sector.num} /\ ws.kind \in {"none", sector.kind} /\ sector.no \in ws.written
    BY <2>1, <2>2, Prepared
  <2>4. ws.numBlocks = sector.num /\ ws.kind = sector.kind
    BY <1>0, <2>3 DEF Counted, WsType
  <2>5. CASE sector.area # "app" \/ ws.kind # "app" \/ ws.aborted
    <3>1. ws.kind # "none"
      BY <1>0, <2>2, <2>3 DEF Counted
    <3> QED BY <2>1, <2>5, <3>1 DEF AckInv
  <2>6. CASE sector.area = "app" /\ ws.kind = "app" /\ ~ws.aborted
    <3>1. app[sector.at] = sector.data
      BY <2>1, <2>4, <2>6 DEF DuplicateAccepted, Matches
    <3>2. AckedBlocks(ws, acked) /\ WrittenBlocks(O, ws, acked) /\ AckedInFlash(O, acked, app)
      BY <2>6 DEF AckInv
    <3>3. AckedBlocks(ws, acked')
      BY <2>1, <2>2, <2>3, <2>4, <2>6, <3>2 DEF AckedBlocks
    <3>4. WrittenBlocks(O, ws, acked')
      BY <2>1, <3>2 DEF WrittenBlocks
    <3>5. AckedInFlash(O, acked', app)
      BY <2>1, <2>6, <3>1, <3>2, AckedMore
    <3> QED BY <2>1, <2>6, <3>3, <3>4, <3>5 DEF AckInv
  <2> QED BY <2>5, <2>6
<1>4. CASE WriteChecked
  <2>1. Storing("app", {"mbr", "sd"}) /\ CommitApp(app) /\ app' = app
    BY <1>4 DEF WriteChecked, flashVars
  <2>2. AckedInFlash(O, acked, app) /\ sector.area # "app"
    BY <1>a, <2>1
  <2> QED BY <2>1, <2>2, CommitAppAcked
<1>5. CASE WriteInvalidates
  <2>1. /\ Storing("app", {"app"}) /\ ws' = [Latched(sector) EXCEPT !.invalidated = TRUE]
        /\ UNCHANGED <<app, acked>>
    BY <1>5 DEF WriteInvalidates, Busy
  <2>2. /\ ws'.written = ws.written /\ ws'.targets = ws.targets /\ ws'.numBlocks = sector.num
        /\ ws'.kind = sector.kind
    BY <2>1, <1>0 DEF Latched, WsType
  <2>3. AckedInFlash(O, acked, app) /\ sector.kind = "app"
    BY <1>a, <2>1
  <2> QED BY <2>1, <2>2, <2>3, LatchAcked
<1>6. CASE WriteErases
  <2>1. /\ Storing("app", {"app"}) /\ ws' = [Latched(sector) EXCEPT !.erased = @ \cup {PageOf(sector.at)}]
        /\ app' = [i \in App |-> IF i \in InPage(PageOf(sector.at)) THEN "blank" ELSE app[i]]
        /\ PageOf(sector.at) \notin ws.erased /\ acked' = acked
    BY <1>6 DEF WriteErases, Busy, ErasesPage
  <2>2. /\ ws'.written = ws.written /\ ws'.targets = ws.targets /\ ws'.numBlocks = sector.num
        /\ ws'.kind = sector.kind
    BY <2>1, <1>0 DEF Latched, WsType
  <2>3. /\ AckedBlocks(ws, acked) /\ WrittenBlocks(O, ws, acked) /\ AckedInFlash(O, acked, app)
        /\ sector.kind = "app" /\ sector.at \in App
    BY <1>a, <2>1
  <2>4. ASSUME NEW i \in App, <<"app", i>> \in ws.targets PROVE app'[i] = app[i]
    <3>1. PageOf(i) # PageOf(sector.at)
      BY <1>0, <2>1, <2>4 DEF Placed
    <3>2. i \in Nat /\ sector.at \in Nat
      BY <2>3, Sizes DEF App
    <3>3. i \notin InPage(PageOf(sector.at))
      BY <3>1, <3>2, Place
    <3> QED BY <2>1, <3>3
  <2>5. AckedInFlash(O, acked, app')
    BY <2>3, <2>4, AckedSurvives
  <2> QED BY <2>1, <2>2, <2>3, <2>5, LatchAcked
<1>7. CASE WritePrograms
  <2>1. /\ Storing("app", {"app"}) /\ CommitApp(app')
        /\ app' = [app EXCEPT ![sector.at] = Programmed(@, sector.data)]
        /\ PageOf(sector.at) \in ws.erased
    BY <1>7 DEF WritePrograms, ErasesPage
  <2>2. /\ AckedBlocks(ws, acked) /\ WrittenBlocks(O, ws, acked) /\ AckedInFlash(O, acked, app)
        /\ sector.kind = "app" /\ sector.area = "app" /\ sector.at \in App /\ Received(sector.data)
        /\ ~Unacceptable(sector)
    BY <1>a, <2>1
  <2>3. <<"app", sector.at>> \notin ws.targets
    BY <2>2 DEF Unacceptable, Target
  <2>4. app[sector.at] = "blank"
    BY <1>0, <2>1, <2>2, <2>3 DEF Placed
  <2>5. app'[sector.at] = sector.data
    BY <1>0, <2>1, <2>2, <2>4 DEF Programmed, Received
  <2>6. \A i \in App : <<"app", i>> \in ws.targets => app'[i] = app[i]
    BY <1>0, <2>1, <2>2, <2>3
  <2>7. AckedInFlash(O, acked, app')
    BY <2>2, <2>6, AckedSurvives
  <2> QED BY <2>1, <2>5, <2>7, CommitAppAcked
<1>8. CASE WriteErasesStaging
  <2>1. Storing("boot", {"boot"}) /\ ws' = [Latched(sector) EXCEPT !.stagingErased = @ + 1]
    BY <1>8 DEF WriteErasesStaging
  <2>2. ws'.kind = sector.kind /\ sector.kind = "boot"
    BY <2>1, <1>0, StoringFacts DEF Latched, WsType
  <2> QED BY <2>2 DEF AckInv
<1>9. CASE WriteStages \/ WriteSkips
  <2>1. PICK area, c, s : Storing("boot", area) /\ CommitBoot(c, s)
    BY <1>9 DEF WriteStages, WriteSkips
  <2>2. Committed(sector) \in WsType /\ Committed(sector).kind = "boot"
    BY <2>1, CommittedShape, StoringFacts DEF WithBlock
  <2>3. ws'.kind = "boot"
    BY <2>1, <2>2, AbortedFields DEF CommitBoot, SameButAborted
  <2> QED BY <2>3 DEF AckInv
<1> QED BY <1>1, <1>2, <1>3, <1>4, <1>5, <1>6, <1>7, <1>8, <1>9 DEF write_block

AckedInv == AckInv(Devices[device].offered, ws, acked, app)

LEMMA AckedStep ==
    ASSUME SInv, AckedInv, [Next]_vars PROVE AckedInv'
<1>0. /\ (write_block \/ HostStep) /\ device' = device /\ Shape /\ TransferInv(ws, app, rec, stage)
      /\ ws \in WsType
  BY StepCases DEF SInv, FlashInv, Shape
<1>1. CASE write_block
  <2>1. AckInv(Devices[device].offered, ws', acked', app')
    BY <1>0, <1>1, WriteKeepsAcked DEF AckedInv
  <2> QED BY <1>0, <2>1 DEF AckedInv
<1>2. CASE HostStep
  <2>1. CASE ws' = NoTransfer /\ acked' = {}
    BY <2>1 DEF AckedInv, AckInv, NoTransfer
  <2>2. CASE ws' = AbortedTransfer(ws) /\ acked' = acked
    <3>1. ws'.aborted = TRUE /\ ws'.kind = ws.kind
      BY <1>0, <2>2, AbortedFields DEF SameButAborted
    <3> QED BY <2>2, <3>1 DEF AckedInv, AckInv
  <2>3. CASE UNCHANGED <<ws, acked, app>>
    BY <1>0, <2>3 DEF AckedInv
  <2>4. CASE CopyBootloader \/ Reset
    BY <2>1, <2>4 DEF CopyBootloader, Reset, ResetRam
  <2> QED BY <1>2, <2>1, <2>2, <2>3, <2>4 DEF HostStep, SessionStep, FlashStep, flashVars, Fresh
<1> QED BY <1>0, <1>1, <1>2

\* When an application is marked valid, every application block that was acknowledged in
\* the session, and whose number has one address, is in flash as it was sent
\* (uf2_transfer_validate_duplicate, uf2_transfer_target_prepare).
THEOREM AckedAlwaysInstalled == Spec => AckedIsInstalled
<1> DEFINE P == rec.bank # "valid" /\ rec'.bank = "valid" =>
                   \A b \in acked : OneAddress(b, acked) => app[b.at] = b.data
<1>1. Init => AckedInv
  BY DEF Init, AckedInv, AckInv, NoTransfer
<1>2. SInv /\ AckedInv /\ [Next]_vars => AckedInv'
  BY AckedStep
<1>3. SInv /\ AckedInv /\ [Next]_vars => [P]_vars
  <2> SUFFICES ASSUME SInv, AckedInv, [Next]_vars, rec.bank # "valid", rec'.bank = "valid",
                      NEW b \in acked, OneAddress(b, acked)
               PROVE  app[b.at] = b.data
    OBVIOUS
  <2>0. (write_block \/ HostStep) /\ device' = device /\ Counted(ws)
    BY StepCases DEF SInv, FlashInv, TransferInv
  <2>1. ~write_block
    BY WriteRecord DEF Record
  <2>2. ~Reset
    BY DEF Reset, CutFlash, flashVars, Record
  <2>3. ~ws.aborted /\ ws.appSize # 0
    BY <2>0, <2>1, <2>2 DEF HostStep, FlashStep, CopyBootloader, flashVars
  <2>4. AckedInFlash(Devices[device].offered, acked, app)
    BY <2>0, <2>3 DEF Counted, AckedInv, AckInv
  <2> QED BY <2>4 DEF AckedInFlash, Addressed, OneAddress
<1> QED BY <1>1, <1>2, <1>3, SInvHolds, PTL DEF Spec, AckedIsInstalled

-----------------------------------------------------------------------------
(* Well-formed files.  As long as all sectors of the session are of file F, the transfer   *)
(* has F's geometry, its targets are those of the blocks of F that are written, and flash  *)
(* (for a bootloader, flash under the page cache) holds those blocks.  So no check fails.  *)

BootData(F, d) ==
    /\ \A b \in F : b.kind = "boot" /\ b.area \in {"mbr", "boot", "uicr"}
    /\ \A b \in F : b.area # "mbr" => b.data = d
    /\ \E b \in F : b.area = "uicr"
    /\ \A i \in Boot : \E b \in F : Target(b) = <<"boot", i>>

Fits(F, w) == \A b \in F : w.numBlocks = 0 \/ (w.numBlocks = b.num /\ w.kind = b.kind)

AppGood(F, w, a) ==
    /\ \A b \in F : b.no \in w.written =>
          Target(b) \in w.targets /\ (b.area = "app" => a[b.at] = b.data /\ b.at < w.maxEnd)
    /\ \A t \in w.targets : \E b \in F : b.no \in w.written /\ Target(b) = t
    /\ w.maxEnd > 0 => \E b \in F : b.area = "app" /\ b.at = w.maxEnd - 1

\* What a page that is flushed would leave in block i.
Logical(s, c, i) == IF PageOf(i) = c.page THEN c.buf[i % PageBlocks] ELSE s[i]

Partial(s, c, d) ==
    /\ \A i \in Boot : s[i] \in {"blank", d}
    /\ c.page # -1 => \A j \in 0 .. (PageBlocks - 1) : c.buf[j] \in {"blank", d}

BootGood(F, d, w, s, c) ==
    /\ \A i \in Boot : PageOf(i) < w.stagingErased => s[i] \in {"blank", d}
    /\ c.page # -1 => \A j \in 0 .. (PageBlocks - 1) : c.buf[j] \in {"blank", d}
    /\ \A b \in F : b.no \in w.written =>
          /\ b.area = "boot" => w.stagingErased = BootPages /\ Logical(s, c, b.at) = d
          /\ b.area = "uicr" => w.hasUicr

FileInv(F, w, a, s, c) ==
    /\ Fits(F, w)
    /\ GoodApp(F) => AppGood(F, w, a)
    /\ \A d \in BootImages : BootData(F, d) => BootGood(F, d, w, s, c)

\* The cache is used by a bootloader transfer only, once its staging area is erased.
CacheInv(w, c) ==
    /\ c.page # -1 => w.kind = "boot" /\ w.stagingErased = BootPages
    /\ w.kind # "boot" => w.stagingErased = 0

LEMMA GoodKind ==
    ASSUME NEW F \in GoodFiles, NEW b \in F
    PROVE  /\ Numbered(F)
           /\ b.kind = "app" => GoodApp(F) /\ \A d : ~BootData(F, d)
           /\ b.kind = "boot" => ~GoodApp(F) /\ \E d \in BootImages : BootData(F, d)
<1>1. Numbered(F) /\ (GoodApp(F) \/ GoodBoot(F))
  BY Uf2Constants
<1>2. GoodApp(F) => b.kind = "app"
  BY DEF GoodApp
<1>3. \A d : BootData(F, d) => b.kind = "boot"
  BY DEF BootData
<1>4. GoodBoot(F) => \E d \in BootImages : BootData(F, d)
  BY DEF GoodBoot, BootData
<1> QED BY <1>1, <1>2, <1>3, <1>4

\* A block of F is committed, and flash keeps what was committed before.
LEMMA AppCommits ==
    ASSUME NEW F, NEW w \in WsType, NEW v, NEW a, NEW a2, NEW s \in F, Numbered(F), s.kind = "app",
           \A b \in F : b.at \in Nat, WithBlock(v, w, s), AppGood(F, w, a),
           \A b \in F : b.area = "app" /\ Target(b) \in w.targets => a2[b.at] = a[b.at],
           s.area = "app" => a2[s.at] = s.data
    PROVE  AppGood(F, v, a2)
<1>1. /\ v.written = w.written \cup {s.no} /\ v.targets = w.targets \cup {Target(s)}
      /\ v.maxEnd = IF s.area = "app" /\ s.at >= w.maxEnd THEN s.at + 1 ELSE w.maxEnd
      /\ w.maxEnd \in Nat /\ s.at \in Nat
  BY DEF WithBlock, WsType
<1>2. v.maxEnd \in Nat /\ v.maxEnd >= w.maxEnd /\ (s.area = "app" => s.at < v.maxEnd)
  BY <1>1
<1>3. ASSUME NEW b \in F, b.no \in v.written
      PROVE  Target(b) \in v.targets /\ (b.area = "app" => a2[b.at] = b.data /\ b.at < v.maxEnd)
  <2>1. CASE b.no = s.no
    <3>1. b = s
      BY <2>1 DEF Numbered
    <3> QED BY <1>1, <1>2, <3>1
  <2>2. CASE b.no \in w.written
    <3>1. Target(b) \in w.targets /\ (b.area = "app" => a[b.at] = b.data /\ b.at < w.maxEnd)
      BY <2>2 DEF AppGood
    <3> QED BY <1>1, <1>2, <3>1
  <2> QED BY <1>1, <1>3, <2>1, <2>2
<1>4. ASSUME NEW t \in v.targets PROVE \E b \in F : b.no \in v.written /\ Target(b) = t
  BY <1>1 DEF AppGood
<1>5. ASSUME v.maxEnd > 0 PROVE \E b \in F : b.area = "app" /\ b.at = v.maxEnd - 1
  BY <1>1, <1>5 DEF AppGood
<1> QED BY <1>3, <1>4, <1>5 DEF AppGood

\* A complete application of a well-formed file passes uf2_application_finalize.
LEMMA AppFinalizes ==
    ASSUME NEW F, NEW v \in WsType, NEW a, Numbered(F), GoodApp(F), AppGood(F, v, a), Placed(v, a),
           v.written = 0 .. (v.numBlocks - 1), \A b \in F : b.num = v.numBlocks /\ b.no \in Nat /\ b.at \in Nat
    PROVE  v.invalidated /\ uf2_application_finalize(v, a)
<1>1. ASSUME NEW b \in F
      PROVE  Target(b) \in v.targets /\ (b.area = "app" => a[b.at] = b.data /\ b.at < v.maxEnd)
  <2>1. b.no \in v.written
    BY DEF Numbered, WsType
  <2> QED BY <2>1 DEF AppGood
<1>2. PICK z \in F : Target(z) = <<"app", 0>> /\ z.data \in Vectors
  BY DEF GoodApp
<1>3. z.area = "app" /\ z.at = 0
  BY <1>2 DEF Target
<1>4. v.maxEnd > 0 /\ a[0] \in Vectors /\ <<"app", 0>> \in v.targets
  BY <1>1, <1>2, <1>3
<1>5. 0 \in App
  BY Sizes DEF App
<1>6. v.invalidated
  BY <1>4, <1>5 DEF Placed
<1>7. ASSUME NEW i \in 0 .. (v.maxEnd - 1) PROVE <<"app", i>> \in v.targets
  <2>1. PICK b \in F : b.area = "app" /\ b.at = v.maxEnd - 1
    BY <1>4 DEF AppGood
  <2>2. i \in 0 .. b.at
    BY <2>1
  <2>3. PICK c \in F : Target(c) = <<"app", i>>
    BY <2>1, <2>2 DEF GoodApp
  <2> QED BY <1>1, <2>3
<1> QED BY <1>4, <1>6, <1>7 DEF uf2_application_finalize

LEMMA FlushedBlock ==
    ASSUME NEW c \in CacheType, NEW s \in [Boot -> Content], NEW d, Partial(s, c, d), NEW i \in Boot
    PROVE  /\ Flushed(c, s)[i] \in {"blank", d}
           /\ Logical(s, c, i) = d => Flushed(c, s)[i] = d
<1>0. i \in Nat
  BY Sizes DEF Boot
<1>1. i \in Nat /\ PageOf(i) \in Nat /\ i % PageBlocks \in 0 .. (PageBlocks - 1)
  BY <1>0, Place
<1>2. s[i] \in {"blank", d}
  BY DEF Partial
<1>3. CASE c.page = -1
  BY <1>1, <1>2, <1>3 DEF Flushed, Logical
<1>4. CASE c.page # -1
  <2>1. c.page \in Int
    BY DEF CacheType
  <2>2. i \in InPage(c.page) <=> c.page = PageOf(i)
    BY <1>1, <2>1, Place
  <2>3. c.buf[i % PageBlocks] \in {"blank", d}
    BY <1>1, <1>4 DEF Partial
  <2>4. Flushed(c, s)[i] = IF c.page = PageOf(i) THEN Programmed(s[i], c.buf[i % PageBlocks]) ELSE s[i]
    BY <1>4, <2>2 DEF Flushed
  <2>5. Programmed(s[i], c.buf[i % PageBlocks]) \in {"blank", d}
        /\ (c.buf[i % PageBlocks] = d => Programmed(s[i], c.buf[i % PageBlocks]) = d)
    BY <1>2, <2>3 DEF Programmed
  <2> QED BY <1>2, <2>4, <2>5 DEF Logical
<1> QED BY <1>3, <1>4

\* A block of a bootloader goes into the cache; another page that was there is flushed.
LEMMA StagedBlock ==
    ASSUME cache \in CacheType, NEW d, Partial(stage, cache, d), stage \in [Boot -> Content],
           NEW at \in Boot,
           NEW s, s = IF cache.page = PageOf(at) THEN stage ELSE Flushed(cache, stage),
           NEW c, c = [CacheOf(s, at) EXCEPT !.buf[at % PageBlocks] = d], d \in Content
    PROVE  /\ c \in CacheType /\ s \in [Boot -> Content] /\ Partial(s, c, d)
           /\ Logical(s, c, at) = d
           /\ \A i \in Boot : Logical(stage, cache, i) = d => Logical(s, c, i) = d
<1> DEFINE p == PageOf(at)
           o == CacheOf(s, at)
<1>1. s \in [Boot -> Content]
  BY FlushedType
<1>2. at \in Nat /\ p \in 0 .. (BootPages - 1) /\ at % PageBlocks \in 0 .. (PageBlocks - 1)
  BY Sizes, PageBelow, Place DEF Boot
<1>3. o \in CacheType /\ c \in CacheType
  BY <1>1, CacheOfType
<1>4. ASSUME NEW i \in Boot
      PROVE  s[i] \in {"blank", d} /\ (cache.page # p /\ Logical(stage, cache, i) = d => s[i] = d)
  <2>1. stage[i] \in {"blank", d}
    BY DEF Partial
  <2>2. Flushed(cache, stage)[i] \in {"blank", d} /\ (Logical(stage, cache, i) = d => Flushed(cache, stage)[i] = d)
    BY FlushedBlock
  <2> QED BY <2>1, <2>2
<1>5. o.page = p /\ \A j \in 0 .. (PageBlocks - 1) :
                       o.buf[j] = IF cache.page = p THEN cache.buf[j] ELSE s[p * PageBlocks + j]
  BY DEF CacheOf
<1>6. ASSUME NEW j \in 0 .. (PageBlocks - 1) PROVE o.buf[j] \in {"blank", d}
  <2>1. CASE cache.page = p
    <3>1. cache.page # -1
      BY <1>2, <2>1
    <3> QED BY <1>5, <2>1, <3>1 DEF Partial
  <2>2. CASE cache.page # p
    <3>1. p * PageBlocks + j \in Boot
      BY <1>2, Sizes, BlockOfPage DEF Boot
    <3> QED BY <1>4, <1>5, <2>2, <3>1
  <2> QED BY <2>1, <2>2
<1>7. c.page = p /\ \A j \in 0 .. (PageBlocks - 1) :
                       c.buf[j] = IF j = at % PageBlocks THEN d ELSE o.buf[j]
  BY <1>3, <1>5 DEF CacheType
<1> HIDE DEF o, p
<1>8. Partial(s, c, d)
  BY <1>4, <1>6, <1>7 DEF Partial
<1>9. Logical(s, c, at) = d
  BY <1>2, <1>7 DEF Logical, p
<1>10. ASSUME NEW i \in Boot, Logical(stage, cache, i) = d PROVE Logical(s, c, i) = d
  <2>0. i \in Nat
    BY Sizes DEF Boot
  <2>1. /\ i \in Nat /\ i % PageBlocks \in 0 .. (PageBlocks - 1)
        /\ i = PageOf(i) * PageBlocks + (i % PageBlocks)
    BY <2>0, Place
  <2>2. CASE PageOf(i) = p /\ cache.page = p
    BY <1>5, <1>7, <1>10, <2>1, <2>2 DEF Logical
  <2>3. CASE PageOf(i) = p /\ cache.page # p
    <3>1. s[i] = d
      BY <1>4, <1>10, <2>3
    <3>2. o.buf[i % PageBlocks] = s[i]
      BY <1>5, <2>1, <2>3
    <3> QED BY <1>7, <2>1, <2>3, <3>1, <3>2 DEF Logical
  <2>4. CASE PageOf(i) # p
    <3>1. s[i] = d
      <4>1. CASE cache.page = p
        BY <1>10, <2>4, <4>1 DEF Logical, p
      <4>2. CASE cache.page # p
        BY <1>4, <1>10, <4>2
      <4> QED BY <4>1, <4>2
    <3> QED BY <1>7, <2>4, <3>1 DEF Logical
  <2> QED BY <2>2, <2>3, <2>4
<1> QED BY <1>1, <1>3, <1>8, <1>9, <1>10

\* A bootloader block of F is committed.
LEMMA BootCommits ==
    ASSUME NEW F, NEW d, NEW w, NEW v, NEW s, NEW c, NEW s2, NEW c2, NEW b \in F, Numbered(F), b.kind = "boot",
           WithBlock(v, w, b), BootGood(F, d, w, s, c),
           \A i \in Boot : PageOf(i) < w.stagingErased => s2[i] \in {"blank", d},
           c2.page # -1 => \A j \in 0 .. (PageBlocks - 1) : c2.buf[j] \in {"blank", d},
           \A e \in F : e.area = "boot" /\ Logical(s, c, e.at) = d /\ w.stagingErased = BootPages
                           => Logical(s2, c2, e.at) = d,
           b.area = "boot" => w.stagingErased = BootPages /\ Logical(s2, c2, b.at) = d
    PROVE  BootGood(F, d, v, s2, c2)
<1>1. /\ v.written = w.written \cup {b.no} /\ v.stagingErased = w.stagingErased
      /\ w.hasUicr => v.hasUicr
      /\ b.area = "uicr" => v.hasUicr
  BY DEF WithBlock
<1>2. ASSUME NEW e \in F, e.no \in v.written
      PROVE  /\ e.area = "boot" => v.stagingErased = BootPages /\ Logical(s2, c2, e.at) = d
             /\ e.area = "uicr" => v.hasUicr
  <2>1. CASE e.no = b.no
    <3>1. e = b
      BY <2>1 DEF Numbered
    <3> QED BY <1>1, <3>1
  <2>2. CASE e.no \in w.written
    BY <1>1, <2>2 DEF BootGood
  <2> QED BY <1>1, <1>2, <2>1, <2>2
<1> QED BY <1>1, <1>2 DEF BootGood

\* A complete bootloader of a well-formed file passes the policy.
LEMMA BootPasses ==
    ASSUME NEW F, NEW d \in BootImages, NEW v \in WsType, NEW s \in [Boot -> Content], NEW c \in CacheType,
           Numbered(F), BootData(F, d), BootGood(F, d, v, s, c), v.written = 0 .. (v.numBlocks - 1),
           \A b \in F : b.num = v.numBlocks /\ b.no \in Nat
    PROVE  /\ v.hasUicr /\ v.stagingErased = BootPages
           /\ \A i \in Boot : Flushed(c, s)[i] = d
           /\ PolicyAccepts(Flushed(c, s))
<1>1. ASSUME NEW b \in F PROVE b.no \in v.written
  BY DEF Numbered, WsType
<1>2. v.hasUicr
  BY <1>1 DEF BootData, BootGood
<1>3. ASSUME NEW i \in Boot PROVE v.stagingErased = BootPages /\ Logical(s, c, i) = d
  <2>1. PICK b \in F : Target(b) = <<"boot", i>>
    BY DEF BootData
  <2>2. b.area = "boot" /\ b.at = i
    BY <2>1 DEF Target
  <2> QED BY <1>1, <2>2 DEF BootGood
<1>4. 0 \in Boot
  BY Sizes DEF Boot
<1>5. v.stagingErased = BootPages
  BY <1>3, <1>4
<1>6. Partial(s, c, d)
  <2>1. ASSUME NEW i \in Boot PROVE s[i] \in {"blank", d}
    <3>1. PageOf(i) < BootPages
      BY Sizes, PageBelow DEF Boot
    <3> QED BY <1>5, <3>1 DEF BootGood
  <2> QED BY <2>1 DEF Partial, BootGood
<1>7. \A i \in Boot : Flushed(c, s)[i] = d
  BY <1>3, <1>6, FlushedBlock
<1> QED BY <1>2, <1>5, <1>7 DEF PolicyAccepts

\* What the transfer knows of a file that all sectors of the session are of.
GoodInv ==
    /\ could \subseteq GoodFiles /\ CacheInv(ws, cache)
    /\ ws.aborted => could = {}
    /\ \A F \in could : FileInv(F, ws, app, stage, cache)

\* A sector of a well-formed file passes every check that comes before flash is touched.
LEMMA GoodSectorPasses ==
    ASSUME Shape, TransferInv(ws, app, rec, stage), GoodInv, NEW F \in could, sector \in F,
           sector \in Devices[device].offered
    PROVE  /\ uf2_transfer_prepare(sector) \in {"accept", "duplicate"}
           /\ uf2_transfer_prepare(sector) = "duplicate" => DuplicateAccepted(sector)
           /\ uf2_transfer_prepare(sector) = "accept" => ~Unacceptable(sector)
<1>0. /\ device \in DOMAIN Devices /\ F \in GoodFiles /\ FileInv(F, ws, app, stage, cache) /\ Counted(ws)
  BY DEF Shape, GoodInv, TransferInv
<1>1. /\ sector.num \in Nat /\ sector.no \in Nat /\ sector.kind \in {"app", "boot"}
  BY <1>0, BlockFacts
<1>2. /\ Numbered(F) /\ sector.num <= MAX_BLOCKS /\ sector.no < sector.num
  BY <1>0, GoodKind DEF Numbered
<1>3. ws.numBlocks \in {0, sector.num} /\ ws.kind \in {"none", sector.kind}
  BY <1>0 DEF FileInv, Fits, Counted
<1>4. /\ uf2_transfer_prepare(sector) \in {"accept", "duplicate"}
      /\ uf2_transfer_prepare(sector) = "duplicate" => sector.no \in ws.written
      /\ uf2_transfer_prepare(sector) = "accept" => sector.no \notin ws.written
  BY <1>1, <1>2, <1>3, Sizes DEF uf2_transfer_prepare
<1>5. CASE sector.kind = "app"
  <2>1. GoodApp(F) /\ AppGood(F, ws, app)
    BY <1>0, <1>5, GoodKind DEF FileInv
  <2>2. sector.area \in {"mbr", "sd", "app"} /\ (sector.area = "sd" => sector.data = "sd")
    BY <2>1 DEF GoodApp
  <2>3. sector.no \in ws.written => Matches(sector)
    <3> SUFFICES ASSUME sector.no \in ws.written PROVE Matches(sector)
      OBVIOUS
    <3>1. sector.area = "app" => app[sector.at] = sector.data
      BY <2>1 DEF AppGood
    <3>2. CASE sector.area = "app"
      BY <3>1, <3>2 DEF Matches
    <3>3. CASE sector.area = "sd"
      BY <2>2, <3>3 DEF Matches
    <3>4. CASE sector.area = "mbr"
      BY <3>4 DEF Matches
    <3> QED BY <2>2, <3>2, <3>3, <3>4
  <2>4. ASSUME sector.no \notin ws.written PROVE ~Unacceptable(sector)
    <3>1. Target(sector) \notin ws.targets
      <4> SUFFICES ASSUME Target(sector) \in ws.targets PROVE FALSE
        OBVIOUS
      <4>1. PICK b \in F : b.no \in ws.written /\ Target(b) = Target(sector)
        BY <2>1 DEF AppGood
      <4>2. b = sector
        BY <2>1, <4>1 DEF GoodApp
      <4> QED BY <2>4, <4>1, <4>2
    <3>2. sector.area = "sd" => Matches(sector)
      BY <2>2 DEF Matches
    <3> QED BY <1>5, <2>2, <3>1, <3>2 DEF Unacceptable
  <2> QED BY <1>4, <2>3, <2>4 DEF DuplicateAccepted
<1>6. CASE sector.kind = "boot"
  <2>1. PICK d \in BootImages : BootData(F, d)
    BY <1>0, <1>6, GoodKind
  <2>2. sector.area \in {"mbr", "boot", "uicr"} /\ (sector.area = "uicr" => sector.data \in BootImages)
    BY <2>1 DEF BootData
  <2>3. Devices[device].liveAppFits
    BY <1>0, <1>6, Uf2Constants
  <2>4. ~Unacceptable(sector)
    BY <1>6, <2>2, <2>3 DEF Unacceptable
  <2> QED BY <1>4, <1>6, <2>4 DEF DuplicateAccepted
<1> QED BY <1>1, <1>5, <1>6

LEMMA CacheLatch ==
    ASSUME NEW w, NEW v, NEW c, NEW k \in {"app", "boot"}, CacheInv(w, c), v.kind = k, w.kind \in {"none", k},
           v.stagingErased = w.stagingErased
    PROVE  CacheInv(v, c)
  BY DEF CacheInv

LEMMA NoCacheInv ==
    ASSUME NEW w, w.kind # "boot" => w.stagingErased = 0
    PROVE  CacheInv(w, NoCache)
  BY DEF CacheInv, NoCache

\* What is common to the steps that store a block of F, or prepare to.
LEMMA StoringGood ==
    ASSUME Shape, TransferInv(ws, app, rec, stage), GoodInv, NEW F \in could, sector \in F,
           NEW kind, NEW area, Storing(kind, area)
    PROVE  /\ F \in GoodFiles /\ Numbered(F) /\ FileInv(F, ws, app, stage, cache)
           /\ \A b \in F : /\ b.num = sector.num /\ b.kind = kind
                           /\ b.no \in Nat /\ b.at \in Nat /\ (b.area = "boot" => b.at \in Boot)
           /\ \A w : w.numBlocks = sector.num /\ w.kind = sector.kind => Fits(F, w)
           /\ kind = "app" => /\ GoodApp(F) /\ AppGood(F, ws, app)
                              /\ \A w, a, s, c : Fits(F, w) /\ AppGood(F, w, a) => FileInv(F, w, a, s, c)
           /\ kind = "boot" => ~GoodApp(F)
<1>1. F \in GoodFiles /\ FileInv(F, ws, app, stage, cache) /\ device \in DOMAIN Devices
  BY DEF GoodInv, Shape
<1>2. sector \in Devices[device].offered /\ sector.kind = kind
  BY StoringFacts
<1>3. kind \in {"app", "boot"}
  BY <1>1, <1>2, BlockFacts
<1>4. Numbered(F) /\ \A b \in F : b.num = sector.num /\ b.kind = kind
  BY <1>1, <1>2, GoodKind DEF Numbered
<1>5. ASSUME NEW b \in F PROVE b.no \in Nat /\ b.at \in Nat /\ (b.area = "boot" => b.at \in Boot)
  <2>1. PICK e \in DOMAIN Devices : b \in Devices[e].offered
    BY <1>1, Uf2Constants DEF Offered
  <2> QED BY <2>1, BlockFacts
<1>6. ASSUME NEW w, w.numBlocks = sector.num, w.kind = sector.kind PROVE Fits(F, w)
  BY <1>2, <1>4, <1>6 DEF Fits
<1>7. kind = "app" => GoodApp(F) /\ \A d : ~BootData(F, d)
  BY <1>1, <1>2, GoodKind
<1>8. kind = "app" => AppGood(F, ws, app) /\ \A w, a, s, c : Fits(F, w) /\ AppGood(F, w, a) => FileInv(F, w, a, s, c)
  BY <1>1, <1>7 DEF FileInv
<1>9. kind = "boot" => ~GoodApp(F)
  BY <1>1, <1>2, GoodKind
<1> QED BY <1>1, <1>4, <1>5, <1>6, <1>7, <1>8, <1>9

\* A step that stores no application block.
LEMMA LatchGood ==
    ASSUME Shape, TransferInv(ws, app, rec, stage), GoodInv, NEW F \in could, sector \in F,
           NEW area, Storing("app", area), NEW v, NEW a, NEW s, NEW c,
           v.numBlocks = sector.num, v.kind = sector.kind, v.written = ws.written, v.targets = ws.targets,
           v.maxEnd = ws.maxEnd, \A i \in App : <<"app", i>> \in ws.targets => a[i] = app[i]
    PROVE  FileInv(F, v, a, s, c)
<1>1. /\ F \in GoodFiles /\ AppGood(F, ws, app) /\ Fits(F, v)
      /\ AppGood(F, v, a) => FileInv(F, v, a, s, c)
  BY StoringGood
<1>2. \A b \in F : b.area = "app" => b.at \in App
  <2> SUFFICES ASSUME NEW b \in F, b.area = "app" PROVE b.at \in App
    OBVIOUS
  <2>1. PICK e \in DOMAIN Devices : b \in Devices[e].offered
    BY <1>1, Uf2Constants DEF Offered
  <2> QED BY <2>1, BlockFacts
<1>3. ASSUME NEW b \in F, b.no \in v.written
      PROVE  Target(b) \in v.targets /\ (b.area = "app" => a[b.at] = b.data /\ b.at < v.maxEnd)
  <2>1. Target(b) \in ws.targets /\ (b.area = "app" => app[b.at] = b.data /\ b.at < ws.maxEnd)
    BY <1>1, <1>3 DEF AppGood
  <2> QED BY <1>2, <2>1 DEF Target
<1>4. AppGood(F, v, a)
  BY <1>1, <1>3 DEF AppGood
<1> QED BY <1>1, <1>4

\* The end of an application block of F.
LEMMA CommitAppGood ==
    ASSUME Shape, TransferInv(ws, app, rec, stage), GoodInv, NEW F \in could, sector \in F,
           NEW area, Storing("app", area), NEW a, NEW s, NEW c, Placed(Committed(sector), a),
           \A b \in F : b.area = "app" /\ Target(b) \in ws.targets => a[b.at] = app[b.at],
           sector.area = "app" => a[sector.at] = sector.data
    PROVE  ~AppFinalized(Committed(sector), a).aborted /\ FileInv(F, AppFinalized(Committed(sector), a), a, s, c)
<1> DEFINE v == Committed(sector)
<1>0. ws \in WsType /\ ~ws.aborted /\ sector.kind = "app"
  BY StoringFacts DEF Shape
<1>1. v \in WsType /\ WithBlock(v, ws, sector) /\ v.written \subseteq 0 .. (v.numBlocks - 1)
  BY CommittedShape
<1>2. /\ Numbered(F) /\ GoodApp(F) /\ AppGood(F, ws, app)
      /\ \A b \in F : b.num = sector.num /\ b.no \in Nat /\ b.at \in Nat
      /\ \A w : w.numBlocks = sector.num /\ w.kind = sector.kind => Fits(F, w)
      /\ \A w : Fits(F, w) /\ AppGood(F, w, a) => FileInv(F, w, a, s, c)
  BY StoringGood
<1> HIDE DEF v
<1>3. v.numBlocks = sector.num /\ v.kind = sector.kind /\ v.aborted = ws.aborted
  BY <1>1 DEF WithBlock
<1>4. AppGood(F, v, a)
  BY <1>0, <1>1, <1>2, AppCommits
<1>5. Placed(v, a)
  BY DEF v
<1>6. CASE ~Full(v)
  <2>1. AppFinalized(v, a) = v
    BY <1>6 DEF AppFinalized
  <2> QED BY <1>0, <1>2, <1>3, <1>4, <2>1 DEF v
<1>7. CASE Full(v)
  <2>1. v.written = 0 .. (v.numBlocks - 1)
    BY <1>1, <1>7, FullMeansAll
  <2>2. v.invalidated /\ uf2_application_finalize(v, a)
    BY <1>1, <1>2, <1>3, <1>4, <1>5, <2>1, AppFinalizes
  <2> DEFINE w == [v EXCEPT !.appSize = v.maxEnd]
  <2>3. AppFinalized(v, a) = w
    BY <1>7, <2>2 DEF AppFinalized
  <2>4. /\ w.numBlocks = v.numBlocks /\ w.kind = v.kind /\ w.aborted = v.aborted
        /\ w.written = v.written /\ w.targets = v.targets /\ w.maxEnd = v.maxEnd
    BY <1>1 DEF WsType
  <2> HIDE DEF w
  <2>5. AppGood(F, w, a)
    BY <1>4, <2>4 DEF AppGood
  <2> QED BY <1>0, <1>2, <1>3, <2>3, <2>4, <2>5 DEF v
<1> QED BY <1>6, <1>7

\* The end of a bootloader block of F.
LEMMA CommitBootGood ==
    ASSUME Shape, TransferInv(ws, app, rec, stage), GoodInv, NEW F \in could, sector \in F,
           NEW area, Storing("boot", area), NEW c \in CacheType, NEW s \in [Boot -> Content], CommitBoot(c, s),
           \A d \in BootImages : BootData(F, d) => BootGood(F, d, Committed(sector), s, c)
    PROVE  ~ws'.aborted /\ FileInv(F, ws', app', stage', cache')
<1> DEFINE v == Committed(sector)
<1>0. ws \in WsType /\ ~ws.aborted /\ sector.kind = "boot"
  BY StoringFacts DEF Shape
<1>1. v \in WsType /\ WithBlock(v, ws, sector) /\ v.written \subseteq 0 .. (v.numBlocks - 1)
  BY CommittedShape
<1>2. /\ F \in GoodFiles /\ Numbered(F) /\ ~GoodApp(F)
      /\ \A b \in F : b.num = sector.num /\ b.no \in Nat /\ b.at \in Nat /\ (b.area = "boot" => b.at \in Boot)
      /\ \A w : w.numBlocks = sector.num /\ w.kind = sector.kind => Fits(F, w)
  BY StoringGood
<1>3. v.numBlocks = sector.num /\ v.kind = sector.kind /\ v.aborted = ws.aborted
  BY <1>1 DEF WithBlock
<1>4. /\ stage' = IF Full(v) THEN Flushed(c, s) ELSE s
      /\ cache' = IF Full(v) THEN NoCache ELSE c
      /\ ws' = IF Full(v) /\ ~(v.hasUicr /\ v.stagingErased = BootPages /\ PolicyAccepts(stage'))
               THEN AbortedTransfer(v) ELSE v
  BY DEF CommitBoot
<1>5. \A d \in BootImages : BootData(F, d) => BootGood(F, d, v, s, c)
  OBVIOUS
<1> HIDE DEF v
<1>6. CASE ~Full(v)
  BY <1>0, <1>2, <1>3, <1>4, <1>5, <1>6 DEF FileInv
<1>7. CASE Full(v)
  <2>1. v.written = 0 .. (v.numBlocks - 1)
    BY <1>1, <1>7, FullMeansAll
  <2>2. ASSUME NEW d \in BootImages, BootData(F, d)
        PROVE  /\ v.hasUicr /\ v.stagingErased = BootPages
               /\ \A i \in Boot : stage'[i] = d
               /\ PolicyAccepts(stage')
    <3>1. stage' = Flushed(c, s)
      BY <1>4, <1>7
    <3> QED BY <1>1, <1>2, <1>3, <1>5, <2>1, <2>2, <3>1, BootPasses
  <2>3. PICK d \in BootImages : BootData(F, d)
    BY <1>0, <1>2, GoodKind
  <2>4. ws' = v /\ cache' = NoCache
    BY <1>4, <1>7, <2>2, <2>3
  <2>5. ASSUME NEW e \in BootImages, BootData(F, e) PROVE BootGood(F, e, v, stage', NoCache)
    <3>1. v.hasUicr /\ v.stagingErased = BootPages /\ \A i \in Boot : stage'[i] = e
      BY <2>2, <2>5
    <3>2. NoCache.page = -1
      BY DEF NoCache
    <3>3. ASSUME NEW b \in F, b.area = "boot" PROVE Logical(stage', NoCache, b.at) = e
      <4>1. b.at \in Boot
        BY <1>2, <3>3
      <4>2. PageOf(b.at) # -1
        BY <1>2, Place
      <4> QED BY <3>1, <3>2, <4>1, <4>2 DEF Logical
    <3> QED BY <3>1, <3>2, <3>3 DEF BootGood
  <2> QED BY <1>0, <1>2, <1>3, <2>4, <2>5 DEF FileInv
<1> QED BY <1>6, <1>7

LEMMA ErasedStaging ==
    ASSUME NEW F, NEW d, NEW w \in WsType, NEW v, NEW s \in [Boot -> Content], NEW c, NEW s2,
           BootGood(F, d, w, s, c), CacheInv(w, c), w.stagingErased < BootPages,
           s2 = [i \in Boot |-> IF i \in InPage(w.stagingErased) THEN "blank" ELSE s[i]],
           v.stagingErased = w.stagingErased + 1, v.written = w.written, v.hasUicr = w.hasUicr
    PROVE  BootGood(F, d, v, s2, c)
<1>0. w.stagingErased \in Nat /\ BootPages \in Nat
  BY Sizes DEF WsType
<1>1. c.page = -1
  BY <1>0 DEF CacheInv
<1>2. ASSUME NEW i \in Boot, PageOf(i) < v.stagingErased PROVE s2[i] \in {"blank", d}
  <2>1. i \in Nat
    BY Sizes DEF Boot
  <2>2. PageOf(i) \in Nat /\ (i \in InPage(w.stagingErased) <=> PageOf(i) = w.stagingErased)
    BY <1>0, <2>1, Place
  <2> QED BY <1>0, <1>2, <2>2 DEF BootGood
<1>3. ASSUME NEW b \in F, b.no \in v.written
      PROVE  /\ b.area = "boot" => v.stagingErased = BootPages /\ Logical(s2, c, b.at) = d
             /\ b.area = "uicr" => v.hasUicr
  BY <1>0, <1>3 DEF BootGood
<1> QED BY <1>1, <1>2, <1>3 DEF BootGood

LEMMA WriteStagesGood ==
    ASSUME Shape, TransferInv(ws, app, rec, stage), GoodInv, NEW F \in could, sector \in F, WriteStages
    PROVE  ~ws'.aborted /\ FileInv(F, ws', app', stage', cache')
<1> DEFINE s == IF cache.page = PageOf(sector.at) THEN stage ELSE Flushed(cache, stage)
           c == [CacheOf(s, sector.at) EXCEPT !.buf[sector.at % PageBlocks] = sector.data]
<1>1. Storing("boot", {"boot"}) /\ ws.stagingErased = BootPages /\ CommitBoot(c, s)
  BY DEF WriteStages
<1>2. /\ ws \in WsType /\ cache \in CacheType /\ stage \in [Boot -> Content] /\ device \in DOMAIN Devices
      /\ FileInv(F, ws, app, stage, cache)
  BY DEF Shape, GoodInv
<1>3. /\ sector \in Devices[device].offered /\ sector.kind = "boot" /\ sector.area = "boot"
      /\ sector.at \in Boot /\ sector.data \in Content
  BY <1>1, <1>2, StoringFacts, BlockFacts
<1>4. /\ Numbered(F) /\ \A b \in F : b.area = "boot" => b.at \in Boot
  BY <1>1, StoringGood
<1>5. s \in [Boot -> Content] /\ c \in CacheType
  <2>1. s \in [Boot -> Content]
    BY <1>2, FlushedType
  <2> HIDE DEF s
  <2> QED BY <1>2, <1>3, <2>1, CacheOfType
<1>6. WithBlock(Committed(sector), ws, sector)
  BY <1>1, CommittedShape
<1>7. ASSUME NEW d \in BootImages, BootData(F, d) PROVE BootGood(F, d, Committed(sector), s, c)
  <2>1. sector.data = d
    BY <1>3, <1>7 DEF BootData
  <2>2. BootGood(F, d, ws, stage, cache)
    BY <1>2, <1>7 DEF FileInv
  <2>3. ASSUME NEW i \in Boot PROVE PageOf(i) < BootPages
    <3>1. BootPages \in Nat /\ i \in 0 .. (BootPages * PageBlocks - 1)
      BY Sizes DEF Boot
    <3>2. PageOf(i) \in 0 .. (BootPages - 1)
      BY <3>1, PageBelow
    <3> QED BY <3>1, <3>2
  <2>4. Partial(stage, cache, d)
    BY <1>1, <2>2, <2>3 DEF BootGood, Partial
  <2>5. c = [CacheOf(s, sector.at) EXCEPT !.buf[sector.at % PageBlocks] = d] /\ d \in Content
    BY <1>3, <2>1
  <2>6. s = IF cache.page = PageOf(sector.at) THEN stage ELSE Flushed(cache, stage)
    OBVIOUS
  <2> HIDE DEF s, c
  <2>7. /\ Partial(s, c, d) /\ Logical(s, c, sector.at) = d
        /\ \A i \in Boot : Logical(stage, cache, i) = d => Logical(s, c, i) = d
    BY <1>2, <1>3, <2>4, <2>5, <2>6, StagedBlock
  <2>8. /\ \A i \in Boot : PageOf(i) < ws.stagingErased => s[i] \in {"blank", d}
        /\ c.page # -1 => \A j \in 0 .. (PageBlocks - 1) : c.buf[j] \in {"blank", d}
    BY <2>7 DEF Partial
  <2>9. \A e \in F : e.area = "boot" /\ Logical(stage, cache, e.at) = d => Logical(s, c, e.at) = d
    BY <1>4, <2>7
  <2> QED BY <1>1, <1>3, <1>4, <1>6, <2>2, <2>7, <2>8, <2>9, BootCommits
<1> HIDE DEF s, c
<1> QED BY <1>1, <1>5, <1>7, CommitBootGood

LEMMA WriteSkipsGood ==
    ASSUME Shape, TransferInv(ws, app, rec, stage), GoodInv, NEW F \in could, sector \in F, WriteSkips
    PROVE  ~ws'.aborted /\ FileInv(F, ws', app', stage', cache')
<1>1. Storing("boot", {"mbr", "uicr"}) /\ CommitBoot(cache, stage)
  BY DEF WriteSkips
<1>2. /\ ws \in WsType /\ cache \in CacheType /\ stage \in [Boot -> Content]
      /\ FileInv(F, ws, app, stage, cache)
  BY DEF Shape, GoodInv
<1>3. sector.kind = "boot" /\ sector.area # "boot"
  BY <1>1, StoringFacts
<1>4. Numbered(F)
  BY <1>1, StoringGood
<1>6. WithBlock(Committed(sector), ws, sector)
  BY <1>1, CommittedShape
<1>7. ASSUME NEW d \in BootImages, BootData(F, d) PROVE BootGood(F, d, Committed(sector), stage, cache)
  <2>1. BootGood(F, d, ws, stage, cache)
    BY <1>2, <1>7 DEF FileInv
  <2>2. /\ \A i \in Boot : PageOf(i) < ws.stagingErased => stage[i] \in {"blank", d}
        /\ cache.page # -1 => \A j \in 0 .. (PageBlocks - 1) : cache.buf[j] \in {"blank", d}
    BY <2>1 DEF BootGood
  <2> QED BY <1>3, <1>4, <1>6, <2>1, <2>2, BootCommits
<1> QED BY <1>1, <1>2, <1>7, CommitBootGood

\* A call with a sector of F, which all earlier sectors were of too.
LEMMA WriteFileGood ==
    ASSUME Shape, TransferInv(ws, app, rec, stage), GoodInv, write_block, UNCHANGED device, ~WriteRefused,
           NEW F \in could, sector \in F
    PROVE  ~ws'.aborted /\ FileInv(F, ws', app', stage', cache')
<1>0. /\ ws \in WsType /\ app \in [App -> Content] /\ stage \in [Boot -> Content] /\ cache \in CacheType
      /\ device \in DOMAIN Devices
      /\ FileInv(F, ws, app, stage, cache) /\ Placed(ws, app) /\ Marks(ws, app, rec) /\ CacheInv(ws, cache)
      /\ Counted(ws) /\ ~ws.aborted
  BY DEF Shape, GoodInv, TransferInv
<1>1. CASE WriteAborts
  <2>1. sector \in Devices[device].offered
    BY <1>1 DEF WriteAborts, Calling, Shape
  <2> QED BY <1>1, <2>1, GoodSectorPasses DEF WriteAborts
<1>2. CASE WriteDuplicate
  BY <1>0, <1>2 DEF WriteDuplicate, NotFlash, flashVars
<1>4. CASE WriteChecked
  <2>1. /\ Storing("app", {"mbr", "sd"}) /\ UNCHANGED app
        /\ ws' = AppFinalized(Committed(sector), app)
    BY <1>4 DEF WriteChecked, flashVars, CommitApp
  <2>2. sector.area # "app" /\ WithBlock(Committed(sector), ws, sector)
    BY <2>1, StoringFacts, CommittedShape
  <2>3. Placed(Committed(sector), app)
    BY <1>0, <2>2, CheckedKeeps
  <2> QED BY <2>1, <2>2, <2>3, CommitAppGood
<1>5. CASE WriteInvalidates
  <2>1. /\ Storing("app", {"app"}) /\ ws' = [Latched(sector) EXCEPT !.invalidated = TRUE] /\ app' = app
    BY <1>5 DEF WriteInvalidates
  <2>2. /\ ws'.numBlocks = sector.num /\ ws'.kind = sector.kind /\ ws'.written = ws.written
        /\ ws'.targets = ws.targets /\ ws'.maxEnd = ws.maxEnd /\ ws'.aborted = ws.aborted
    BY <1>0, <2>1 DEF Latched, WsType
  <2>3. FileInv(F, ws', app, stage', cache')
    BY <2>1, <2>2, LatchGood
  <2> QED BY <1>0, <2>1, <2>2, <2>3
<1>6. CASE WriteErases
  <2>1. /\ Storing("app", {"app"}) /\ ws' = [Latched(sector) EXCEPT !.erased = @ \cup {PageOf(sector.at)}]
        /\ app' = [i \in App |-> IF i \in InPage(PageOf(sector.at)) THEN "blank" ELSE app[i]]
        /\ PageOf(sector.at) \notin ws.erased
    BY <1>6 DEF WriteErases, ErasesPage
  <2>2. /\ ws'.numBlocks = sector.num /\ ws'.kind = sector.kind /\ ws'.written = ws.written
        /\ ws'.targets = ws.targets /\ ws'.maxEnd = ws.maxEnd /\ ws'.aborted = ws.aborted
    BY <1>0, <2>1 DEF Latched, WsType
  <2>3. sector.at \in Nat
    BY <1>0, <2>1, StoringFacts, BlockFacts
  <2>4. ASSUME NEW i \in App, <<"app", i>> \in ws.targets PROVE app'[i] = app[i]
    <3>1. PageOf(i) # PageOf(sector.at) /\ i \in Nat
      BY <1>0, <2>1, <2>4, Sizes DEF Placed, App
    <3>2. PageOf(sector.at) \in Int
      BY <2>3, Place
    <3>3. i \notin InPage(PageOf(sector.at))
      BY <3>1, <3>2, Place
    <3> QED BY <2>1, <3>3
  <2>5. FileInv(F, ws', app', stage', cache')
    BY <2>1, <2>2, <2>4, LatchGood
  <2> QED BY <1>0, <2>2, <2>5
<1>7. CASE WritePrograms
  <2>1. /\ Storing("app", {"app"}) /\ ws' = AppFinalized(Committed(sector), app')
        /\ app' = [app EXCEPT ![sector.at] = Programmed(@, sector.data)]
        /\ PageOf(sector.at) \in ws.erased /\ ws.invalidated
    BY <1>7 DEF WritePrograms, CommitApp, ErasesPage, Invalidates
  <2>2. /\ sector.kind = "app" /\ sector.area = "app" /\ sector.at \in App /\ Received(sector.data)
        /\ ~Unacceptable(sector) /\ ws.appSize = 0
    BY <1>0, <2>1, StoringFacts, BlockFacts, StoringOpen DEF Received
  <2>3. Target(sector) \notin ws.targets
    BY <2>2 DEF Unacceptable
  <2>4. /\ app'[sector.at] = Programmed(app[sector.at], sector.data)
        /\ \A i \in App : i # sector.at => app'[i] = app[i]
    BY <1>0, <2>1, <2>2
  <2>5. rec.bank = "zero" /\ WithBlock(Committed(sector), ws, sector)
    BY <1>0, <2>1, <2>2, CommittedShape DEF Marks
  <2>6. Placed(Committed(sector), app') /\ app'[sector.at] = sector.data
    <3> DEFINE v == Committed(sector)
    <3>1. /\ WithBlock(v, ws, sector) /\ sector.area = "app" /\ sector.kind = "app" /\ sector.at \in App
          /\ Received(sector.data) /\ PageOf(sector.at) \in ws.erased /\ Target(sector) \notin ws.targets
          /\ Placed(ws, app) /\ ws.appSize = 0 /\ rec.bank = "zero"
          /\ ws \in WsType /\ app \in [App -> Content]
      BY <1>0, <2>1, <2>2, <2>3, <2>5
    <3> HIDE DEF v
    <3>2. Placed(v, app') /\ app'[sector.at] = sector.data
      BY <2>4, <3>1, ProgramKeeps
    <3> QED BY <3>2 DEF v
  <2>7. ASSUME NEW b \in F, b.area = "app", Target(b) \in ws.targets PROVE app'[b.at] = app[b.at]
    <3>1. b.at # sector.at
      BY <2>2, <2>3, <2>7 DEF Target
    <3> QED BY <1>0, <2>1, <2>2, <3>1
  <2> QED BY <2>1, <2>6, <2>7, CommitAppGood
<1>8. CASE WriteErasesStaging
  <2>1. /\ Storing("boot", {"boot"}) /\ ws' = [Latched(sector) EXCEPT !.stagingErased = @ + 1]
        /\ stage' = [i \in Boot |-> IF i \in InPage(ws.stagingErased) THEN "blank" ELSE stage[i]]
        /\ ws.stagingErased < BootPages /\ cache' = cache
    BY <1>8 DEF WriteErasesStaging
  <2>2. /\ ws'.numBlocks = sector.num /\ ws'.kind = sector.kind /\ ws'.written = ws.written
        /\ ws'.hasUicr = ws.hasUicr /\ ws'.stagingErased = ws.stagingErased + 1 /\ ws'.aborted = ws.aborted
    BY <1>0, <2>1 DEF Latched, WsType
  <2>3. Fits(F, ws') /\ ~GoodApp(F)
    BY <2>1, <2>2, StoringGood
  <2>4. ASSUME NEW d \in BootImages, BootData(F, d) PROVE BootGood(F, d, ws', stage', cache)
    <3>1. BootGood(F, d, ws, stage, cache)
      BY <1>0, <2>4 DEF FileInv
    <3> QED BY <1>0, <2>1, <2>2, <3>1, ErasedStaging
  <2> QED BY <1>0, <2>1, <2>2, <2>3, <2>4 DEF FileInv
<1>9. CASE WriteStages
  BY <1>9, WriteStagesGood
<1>10. CASE WriteSkips
  BY <1>10, WriteSkipsGood
<1> QED BY <1>1, <1>2, <1>4, <1>5, <1>6, <1>7, <1>8, <1>9, <1>10 DEF write_block

LEMMA WriteKeepsCache ==
    ASSUME Shape, write_block, CacheInv(ws, cache), Counted(ws)
    PROVE  CacheInv(ws', cache')
<1>0. ws \in WsType /\ device \in DOMAIN Devices
  BY DEF Shape
<1>a. ASSUME NEW kind, NEW area, Storing(kind, area)
      PROVE  kind \in {"app", "boot"} /\ ws.kind \in {"none", kind} /\ sector.kind = kind
  BY <1>0, <1>a, StoringFacts, BlockFacts
<1>1. CASE WriteRefused \/ WriteDuplicate
  BY <1>1 DEF WriteRefused, WriteDuplicate, NotFlash
<1>2. CASE WriteAborts
  <2>1. cache' = cache
    BY <1>2 DEF WriteAborts, NotFlash
  <2>2. CASE ws' = AbortedTransfer(ws)
    <3>1. ws'.kind = ws.kind /\ ws'.stagingErased = ws.stagingErased
      BY <1>0, <2>2, AbortedFields DEF SameButAborted
    <3> QED BY <2>1, <3>1 DEF CacheInv
  <2>3. CASE Calling /\ uf2_transfer_prepare(sector) = "accept" /\ ws' = AbortedTransfer(Latched(sector))
    <3>1. ws' = [Latched(sector) EXCEPT !.aborted = TRUE]
      BY <2>3 DEF AbortedTransfer
    <3>2. ws'.kind = sector.kind /\ ws'.stagingErased = ws.stagingErased
      BY <3>1, <1>0 DEF Latched, WsType
    <3>3. sector.kind \in {"app", "boot"} /\ sector.num \in Nat /\ sector.no \in Nat
      BY <1>0, <2>3, BlockFacts DEF Calling, Shape
    <3>4. ws.kind \in {"none", sector.kind}
      BY <2>3, <3>3, Prepared
    <3> QED BY <2>1, <3>2, <3>3, <3>4, CacheLatch
  <2> QED BY <1>2, <2>2, <2>3 DEF WriteAborts
<1>4. CASE WriteChecked \/ WritePrograms
  <2>1. PICK area, a : Storing("app", area) /\ CommitApp(a)
    BY <1>4 DEF WriteChecked, WritePrograms
  <2>2. Committed(sector) \in WsType /\ WithBlock(Committed(sector), ws, sector)
    BY <2>1, CommittedShape
  <2>3. ws' = AppFinalized(Committed(sector), a) /\ cache' \in {cache, NoCache}
    BY <2>1 DEF CommitApp
  <2>4. ws'.kind = sector.kind /\ ws'.stagingErased = ws.stagingErased
    BY <2>2, <2>3, FinalizedFields DEF WithBlock
  <2>5. CacheInv(ws', cache)
    BY <1>a, <2>1, <2>4, CacheLatch
  <2> QED BY <2>3, <2>5 DEF CacheInv, NoCache
<1>5. CASE WriteInvalidates
  <2>1. /\ Storing("app", {"app"}) /\ ws' = [Latched(sector) EXCEPT !.invalidated = TRUE] /\ cache' = NoCache
    BY <1>5 DEF WriteInvalidates
  <2>2. ws'.kind = sector.kind /\ ws'.stagingErased = ws.stagingErased
    BY <1>0, <2>1 DEF Latched, WsType
  <2>3. CacheInv(ws', cache)
    BY <1>a, <2>1, <2>2, CacheLatch
  <2> QED BY <2>1, <2>3 DEF CacheInv, NoCache
<1>6. CASE WriteErases
  <2>1. /\ Storing("app", {"app"}) /\ ws' = [Latched(sector) EXCEPT !.erased = @ \cup {PageOf(sector.at)}]
        /\ cache' = cache
    BY <1>6 DEF WriteErases
  <2>2. ws'.kind = sector.kind /\ ws'.stagingErased = ws.stagingErased
    BY <1>0, <2>1 DEF Latched, WsType
  <2> QED BY <1>a, <2>1, <2>2, CacheLatch
<1>7. CASE WriteErasesStaging
  <2>1. /\ Storing("boot", {"boot"}) /\ ws' = [Latched(sector) EXCEPT !.stagingErased = @ + 1]
        /\ cache' = cache /\ ws.stagingErased < BootPages
    BY <1>7 DEF WriteErasesStaging
  <2>2. ws'.kind = sector.kind /\ sector.kind = "boot"
    BY <1>0, <1>a, <2>1 DEF Latched, WsType
  <2>3. cache.page = -1
    BY <1>0, <2>1, Sizes DEF CacheInv, WsType
  <2> QED BY <2>1, <2>2, <2>3 DEF CacheInv
<1>8. CASE WriteStages \/ WriteSkips
  <2>1. PICK area, c, s :
           /\ Storing("boot", area) /\ CommitBoot(c, s)
           /\ ws.stagingErased = BootPages \/ c = cache
    BY <1>8 DEF WriteStages, WriteSkips
  <2>2. Committed(sector) \in WsType /\ WithBlock(Committed(sector), ws, sector)
    BY <2>1, CommittedShape
  <2>3. ws' \in {Committed(sector), AbortedTransfer(Committed(sector))} /\ cache' \in {c, NoCache}
    BY <2>1 DEF CommitBoot
  <2>4. ws'.kind = sector.kind /\ ws'.stagingErased = ws.stagingErased
    BY <2>2, <2>3, AbortedFields DEF WithBlock, SameButAborted
  <2>5. sector.kind = "boot"
    BY <1>a, <2>1
  <2> QED BY <2>1, <2>3, <2>4, <2>5 DEF CacheInv, NoCache
<1> QED BY <1>1, <1>2, <1>4, <1>5, <1>6, <1>7, <1>8 DEF write_block

LEMMA FreshFile ==
    ASSUME NEW F, NEW a, NEW s, NEW c, c.page = -1
    PROVE  FileInv(F, NoTransfer, a, s, c)
<1>1. /\ NoTransfer.numBlocks = 0 /\ NoTransfer.written = {} /\ NoTransfer.targets = {}
      /\ NoTransfer.maxEnd = 0 /\ NoTransfer.stagingErased = 0
  BY DEF NoTransfer
<1>2. Fits(F, NoTransfer)
  BY <1>1 DEF Fits
<1>3. AppGood(F, NoTransfer, a)
  BY <1>1 DEF AppGood
<1>4. ASSUME NEW i \in Boot PROVE ~(PageOf(i) < 0)
  <2>1. i \in Nat
    BY Sizes DEF Boot
  <2>2. PageOf(i) \in Nat
    BY <2>1, Place
  <2> QED BY <2>2
<1>5. \A d : BootGood(F, d, NoTransfer, s, c)
  BY <1>1, <1>4 DEF BootGood
<1> QED BY <1>2, <1>3, <1>5 DEF FileInv

LEMMA GoodStep ==
    ASSUME SInv, GoodInv, [Next]_vars PROVE GoodInv'
<1>0. /\ (write_block \/ HostStep) /\ device' = device /\ Shape /\ TransferInv(ws, app, rec, stage)
      /\ CommandInv /\ Counted(ws) /\ could \subseteq GoodFiles /\ CacheInv(ws, cache)
  BY StepCases DEF SInv, FlashInv, GoodInv, TransferInv
<1>1. CASE WriteRefused
  BY <1>1 DEF WriteRefused, GoodInv, NotFlash, flashVars
<1>2. CASE write_block /\ ~WriteRefused
  <2>1. could' = {F \in could : sector \in F}
    BY <1>2 DEF write_block, WriteAborts, WriteDuplicate, WriteChecked, WriteInvalidates, WriteErases,
          WritePrograms, WriteErasesStaging, WriteStages, WriteSkips, Noted
  <2>2. ASSUME NEW F \in could' PROVE ~ws'.aborted /\ FileInv(F, ws', app', stage', cache')
    BY <1>0, <1>2, <2>1, WriteFileGood
  <2>3. CacheInv(ws', cache')
    BY <1>0, <1>2, WriteKeepsCache
  <2> QED BY <1>0, <2>1, <2>2, <2>3 DEF GoodInv
<1>3. CASE HostStep
  <2>1. CASE ws' = NoTransfer /\ could' = GoodFiles /\ cache' \in {NoCache, CacheAfterReset}
    <3>1. cache'.page = -1
      BY <1>0, <2>1 DEF CacheInv, CacheAfterReset, NoCache
    <3>2. CacheInv(ws', cache') /\ ~ws'.aborted
      BY <2>1, <3>1 DEF CacheInv, NoTransfer
    <3>3. \A F : FileInv(F, NoTransfer, app', stage', cache')
      BY <3>1, FreshFile
    <3> QED BY <2>1, <3>2, <3>3 DEF GoodInv
  <2>2. CASE UNCHANGED <<ws, could, cache, app, stage>>
    BY <2>2 DEF GoodInv
  <2>3. CASE CopyBootloader \/ Reset
    BY <2>1, <2>3 DEF CopyBootloader, Reset, ResetRam
  <2>4. ~(pending /\ ~ws.aborted /\ ws.appSize = 0)
    BY <1>0 DEF CommandInv
  <2> QED BY <1>3, <2>1, <2>2, <2>3, <2>4 DEF HostStep, SessionStep, FlashStep, flashVars, Fresh
<1> QED BY <1>0, <1>1, <1>2, <1>3

\* A well-formed file is never refused, in whatever order and however often its sectors
\* arrive, wherever the host breaks off, resets or starts again in between, and whatever
\* was in flash before (write_block).
THEOREM GoodFileAlwaysAccepted == Spec => []GoodFileAccepted
<1>1. Init => GoodInv
  <2> SUFFICES ASSUME Init PROVE GoodInv
    OBVIOUS
  <2>1. ws = NoTransfer /\ could = GoodFiles /\ cache = NoCache /\ cache.page = -1
    BY DEF Init, NoCache
  <2>2. CacheInv(ws, cache) /\ ~ws.aborted
    BY <2>1 DEF CacheInv, NoTransfer
  <2> QED BY <2>1, <2>2, FreshFile DEF GoodInv
<1>2. SInv /\ GoodInv /\ [Next]_vars => GoodInv'
  BY GoodStep
<1>3. GoodInv => GoodFileAccepted
  BY DEF GoodInv, GoodFileAccepted
<1> QED BY <1>1, <1>2, <1>3, SInvHolds, PTL DEF Spec
=============================================================================
