----------------------------- MODULE OtaProofs ------------------------------
(***************************************************************************)
(* Proofs about the OTA applier: first that every attempt is safe, then that *)
(* a verified package which nothing disturbs installs its image: the decoder, *)
(* through its cache and over the image it reads, and the copy, over the    *)
(* package it reads, compute what was signed.                               *)
(***************************************************************************)
EXTENDS OtaApply, TLAPS

-----------------------------------------------------------------------------
(* The inductive invariant. *)

Whole(f) == \E i \in DOMAIN ImageSize : Intact(i, f)

\* A whole image that ends below page q.
WholeBelow(f, q) == \E i \in DOMAIN ImageSize : Intact(i, f) /\ ImageSize[i] <= q

Gate == {"gate", "blgate"}
Choice == {"reject", "clear", "commit", "decode", "copy", "check", "mark",
           "blclear", "blcopy", "blcheck"}
Lost == {"decode", "copy", "check", "mark"}
BlUpdate == {"blclear", "blcopy", "blcheck"}
Before == Gate \cup {"none", "reject", "clear", "commit", "blclear"}

Shape ==
    /\ DOMAIN flash = Cells /\ DOMAIN boot = 0 .. (BootPages * PageCells - 1)
    /\ run \in {"boot", "ota", "dfu", "app"}
    /\ pc \in Gate \cup Choice \cup {"none"}
    /\ run = "ota" <=> pc # "none"
    /\ trigger \in {"none", "app", "boot"}
    /\ auth \in DOMAIN Packages \cup {"none"} /\ pkg \in DOMAIN Packages \cup {"none"}
    /\ step \in Nat
    /\ pc \in Before => step = 0

\* A record covers whole pages, with pieces of an image and padding.
Described(r) ==
    /\ r.bank \in {"valid", "invalid", "none"}
    /\ \E k \in 0 .. Pages :
          /\ DOMAIN r.img = 0 .. (k * PageCells - 1)
          /\ \A a \in DOMAIN r.img : r.img[a] = Blank \/ \E n \in DOMAIN ImageSize : r.img[a] = Img(n, a)

\* One attempt for one request.
AttemptInv ==
    /\ trigger # "none" => armed
    /\ run = "ota" => trigger = "none"

\* There is no image only while the record says so.
ImageInv ==
    /\ pc \notin Lost => Whole(flash) \/ rec.bank = "invalid"
    /\ pc \in Lost => rec.bank = "invalid"
    /\ run = "app" \/ trigger # "none" \/ pc \in Gate \cup (Choice \ Lost) \cup {"mark"} => Whole(flash)

ChoiceInv ==
    /\ pc \in Choice => pkg \in DOMAIN Packages
    /\ pc \in BlUpdate => Packages[pkg].kind = "boot"
    /\ pc \in {"clear", "commit", "check", "mark"} => Packages[pkg].kind # "boot"
    /\ pc = "decode" => Packages[pkg].kind = "delta" /\ step <= Ops(pkg)
    /\ pc = "copy" => Packages[pkg].kind = "full"

\* Where the approval is about to be cleared the header is, and a bootloader is copied
\* above all that the application needs.
RoomInv ==
    /\ pc \in {"reject", "clear", "blclear"} /\ ~External => flash[HybridBase(pkg)] \in HeaderOf(pkg)
    /\ pc \in {"clear", "blclear"} /\ source = "qspi" => 0 \in DOMAIN ext
    /\ pc \in BlUpdate =>
          /\ WholeBelow(flash, Packages[pkg].at)
          /\ rec.bank = "valid" => DOMAIN rec.img \subseteq 0 .. (Packages[pkg].at * PageCells - 1)

\* What was verified before the point of no return.
VerifiedInv ==
    /\ pc \in {"clear", "commit"} =>
          /\ Packages[pkg].kind = "delta" => Intact(Packages[pkg].base, flash) /\ GeometryOk(pkg)
          /\ Packages[pkg].kind = "full" => External /\ (source = "sd" \/ PayloadGood(pkg))
          /\ source = "hybrid" => \A k \in DOMAIN ram : ram[k] = Content(pkg, k)
    /\ pc = "commit" => source = "sd" \/ Staged(pkg, 0) = Header(pkg, FALSE)
    /\ pc = "mark" => FlashHashValid(0, pkg)

\* The part of a hybrid package that its application put in RAM.
RamCells(p) == PrefixCells(p) .. (Packages[p].cells - 1)
HybridInv ==
    source = "hybrid" =>
        /\ trigger # "none" /\ auth # "none" => DOMAIN ram = RamCells(auth)
        /\ pc # "none" /\ pkg # "none" => DOMAIN ram = RamCells(pkg)

\* What is read from flash f through the cache c.
Read(f, c, a) == IF c.dirty /\ PageOf(a) = c.page THEN c.buf[a % PageCells] ELSE f[a]
Coherent(f, c, m) == \A a \in DOMAIN m : Read(f, c, a) = m[a]

\* The cache and flash together are what the decoder wrote.
CacheInv ==
    /\ cache.page \in -1 .. (Pages - 1) /\ cache.dirty \in BOOLEAN
    /\ pc = "decode" =>
          /\ cache = [page |-> cache.page, dirty |-> cache.dirty, buf |-> cache.buf]
          /\ cache.dirty <=> cache.page # -1
          /\ cache.page < Workspace(pkg)
          /\ DOMAIN cache.buf = 0 .. (PageCells - 1)
          /\ DOMAIN mem = 0 .. (Workspace(pkg) * PageCells - 1)
          /\ Coherent(flash, cache, mem)

IInv ==
    /\ Shape /\ Described(rec) /\ AttemptInv /\ ImageInv /\ ChoiceInv /\ RoomInv /\ VerifiedInv
    /\ HybridInv /\ CacheInv

-----------------------------------------------------------------------------
(* Facts about the operators. *)

\* What the constants are, for one package.
LEMMA PackageFacts ==
    ASSUME NEW p \in DOMAIN Packages
    PROVE  /\ Packages[p].kind \in Kinds /\ Packages[p].src \in Sources
           /\ Packages[p].cells \in Nat \ {0} /\ Packages[p].at \in 0 .. (Pages - 1)
           /\ Packages[p].size \in Nat \ {0} /\ Packages[p].memory \in Nat
           /\ Packages[p].shift \in Nat
           /\ Packages[p].cells = Packages[p].size * PageCells + 1
           /\ Packages[p].kind = "delta" => Packages[p].base \in DOMAIN ImageSize
           /\ Packages[p].kind # "boot" =>
                 Packages[p].image \in DOMAIN ImageSize /\ Packages[p].size = ImageSize[Packages[p].image]
           /\ Packages[p].kind = "boot" => Packages[p].size = BootPages
BY OtaConstants

\* The sizes.
LEMMA SizeFacts ==
    /\ PageCells \in Nat \ {0} /\ Pages \in Nat \ {0} /\ BootPages \in Nat \ {0}
    /\ \A i \in DOMAIN ImageSize : ImageSize[i] \in 1 .. Pages
BY OtaConstants

\* Multiplication by the size of a page keeps the order.
LEMMA Times ==
    ASSUME NEW x \in Int, NEW y \in Int
    PROVE  /\ x * PageCells \in Int
           /\ x <= y => x * PageCells <= y * PageCells
           /\ x * PageCells < y * PageCells => x < y
           /\ (x + 1) * PageCells = x * PageCells + PageCells
<1>1. PageCells \in Nat /\ PageCells > 0
  BY SizeFacts
<1>2. ASSUME NEW d \in Nat PROVE d * PageCells \in Nat
  BY <1>1
<1>3. x <= y => x * PageCells <= y * PageCells
  <2> SUFFICES ASSUME x <= y PROVE x * PageCells <= y * PageCells
    OBVIOUS
  <2>1. (y - x) * PageCells \in Nat
    BY <1>2
  <2>2. (y - x) * PageCells = y * PageCells - x * PageCells
    BY <1>1
  <2> QED BY <1>1, <2>1, <2>2
<1>4. y <= x => y * PageCells <= x * PageCells
  <2> SUFFICES ASSUME y <= x PROVE y * PageCells <= x * PageCells
    OBVIOUS
  <2>1. (x - y) * PageCells \in Nat
    BY <1>2
  <2>2. (x - y) * PageCells = x * PageCells - y * PageCells
    BY <1>1
  <2> QED BY <1>1, <2>1, <2>2
<1>5. x * PageCells \in Int /\ y * PageCells \in Int
  BY <1>1
<1>6. (x + 1) * PageCells = x * PageCells + PageCells
  BY <1>1
<1> QED BY <1>3, <1>4, <1>5, <1>6

\* A cell is in the page it belongs to, at its offset, and in no other.
LEMMA Place ==
    ASSUME NEW a \in Nat
    PROVE  /\ PageOf(a) \in Nat /\ a % PageCells \in 0 .. (PageCells - 1)
           /\ a = PageOf(a) * PageCells + (a % PageCells)
           /\ \A p \in Int : a \in InPage(p) <=> p = PageOf(a)
<1>1. PageCells \in Nat /\ PageCells > 0
  BY SizeFacts
<1>2. PageOf(a) \in Nat /\ a % PageCells \in 0 .. (PageCells - 1)
  BY <1>1 DEF PageOf
<1>3. a = PageOf(a) * PageCells + (a % PageCells)
  BY <1>1 DEF PageOf
<1>4. ASSUME NEW p \in Int PROVE a \in InPage(p) <=> p = PageOf(a)
  <2>1. p * PageCells \in Int /\ PageOf(a) * PageCells \in Int
    BY <1>2, Times
  <2>2. CASE p = PageOf(a)
    BY <2>2, <1>1, <1>2, <1>3, <2>1 DEF InPage
  <2>3. CASE p < PageOf(a)
    <3>1. (p + 1) * PageCells <= PageOf(a) * PageCells
      BY <2>3, <1>2, Times
    <3>2. (p + 1) * PageCells = p * PageCells + PageCells
      BY Times
    <3> QED BY <2>3, <3>1, <3>2, <1>1, <1>2, <1>3, <2>1 DEF InPage
  <2>4. CASE p > PageOf(a)
    <3>1. (PageOf(a) + 1) * PageCells <= p * PageCells
      BY <2>4, <1>2, Times
    <3>2. (PageOf(a) + 1) * PageCells = PageOf(a) * PageCells + PageCells
      BY <1>2, Times
    <3> QED BY <2>4, <3>1, <3>2, <1>1, <1>2, <1>3, <2>1 DEF InPage
  <2> QED BY <2>2, <2>3, <2>4, <1>2
<1> QED BY <1>2, <1>3, <1>4

\* A cell of a page has that page and that offset.
LEMMA CellOfPage ==
    ASSUME NEW p \in Nat, NEW c \in 0 .. (PageCells - 1)
    PROVE  /\ p * PageCells + c \in Nat
           /\ PageOf(p * PageCells + c) = p
           /\ (p * PageCells + c) % PageCells = c
<1>1. PageCells \in Nat /\ PageCells > 0 /\ p * PageCells \in Nat
  BY SizeFacts
<1> DEFINE a == p * PageCells + c
<1>2. a \in Nat
  BY <1>1
<1>3. a \in InPage(p)
  BY <1>1 DEF InPage
<1>4. PageOf(a) = p
  BY <1>2, <1>3, Place
<1>5. a = p * PageCells + (a % PageCells) /\ a % PageCells \in 0 .. (PageCells - 1)
  BY <1>2, <1>4, Place
<1>6. a % PageCells = c
  BY <1>1, <1>5
<1> QED BY <1>2, <1>4, <1>6

\* Two contents of flash that agree below page q.
Agree(f, g, q) == \A a \in 0 .. (q * PageCells - 1) : g[a] = f[a]

\* What is done to page p leaves the pages below it alone.
LEMMA PageOpsAgree ==
    ASSUME NEW f, DOMAIN f = Cells, NEW p \in Nat, NEW q \in Nat, q <= p, q <= Pages, NEW buf
    PROVE  /\ Agree(f, Erased(f, p), q)
           /\ Agree(f, Tear(f, p), q)
           /\ Agree(f, WithPage(f, p, buf), q)
<1>1. PageCells \in Nat /\ Pages \in Nat /\ p * PageCells \in Int /\ q * PageCells \in Int
      /\ Pages * PageCells \in Int
  BY SizeFacts, Times
<1>2. q * PageCells <= p * PageCells /\ q * PageCells <= Pages * PageCells
  BY SizeFacts, Times
<1>3. ASSUME NEW a \in 0 .. (q * PageCells - 1)
      PROVE  a \in DOMAIN f /\ a \notin InPage(p)
  BY <1>1, <1>2, <1>3 DEF Cells, InPage
<1>4. Agree(f, Erased(f, p), q)
  BY <1>3 DEF Agree, Erased
<1>5. Agree(f, Tear(f, p), q)
  BY <1>3 DEF Agree, Tear
<1>6. Agree(f, WithPage(f, p, buf), q)
  BY <1>3 DEF Agree, WithPage
<1> QED BY <1>4, <1>5, <1>6

\* So does a write of the first cell of page p.
LEMMA HeaderAgree ==
    ASSUME NEW f, NEW g, NEW p \in Nat, NEW q \in Nat, q <= p, q <= Pages,
           \A a \in Cells : a # p * PageCells => g[a] = f[a]
    PROVE  Agree(f, g, q)
<1>1. PageCells \in Nat /\ Pages \in Nat /\ p * PageCells \in Int /\ q * PageCells \in Int
      /\ Pages * PageCells \in Int
  BY SizeFacts, Times
<1>2. q * PageCells <= p * PageCells /\ q * PageCells <= Pages * PageCells
  BY SizeFacts, Times
<1>3. ASSUME NEW a \in 0 .. (q * PageCells - 1) PROVE a \in Cells /\ a # p * PageCells
  BY <1>1, <1>2 DEF Cells
<1> QED BY <1>3 DEF Agree

\* An image that ends below page q is in both.
LEMMA IntactAgree ==
    ASSUME NEW f, NEW g, NEW q \in Nat, Agree(f, g, q),
           NEW i \in DOMAIN ImageSize, ImageSize[i] <= q, Intact(i, f)
    PROVE  Intact(i, g)
<1>1. ImageSize[i] * PageCells <= q * PageCells /\ ImageSize[i] * PageCells \in Int
      /\ q * PageCells \in Int
  BY SizeFacts, Times
<1> QED BY <1>1 DEF Intact, ImageCells, Agree

LEMMA WholeAgree ==
    ASSUME NEW f, NEW g, NEW q \in Nat, Agree(f, g, q), WholeBelow(f, q)
    PROVE  WholeBelow(g, q) /\ Whole(g)
BY IntactAgree DEF WholeBelow, Whole

\* A header is no piece of an image and no padding.
LEMMA HeaderDiffers ==
    ASSUME NEW p, NEW h \in HeaderOf(p)
    PROVE  /\ \A i : \A c \in Nat : h # Img(i, c)
           /\ h # Blank /\ h # Torn
BY DEF HeaderOf, Header, Img, Blank, Torn

\* A whole image ends below a page that begins with a header.
LEMMA ImageBelowHeader ==
    ASSUME NEW f, NEW q \in Nat, NEW p, f[q * PageCells] \in HeaderOf(p),
           NEW i \in DOMAIN ImageSize, Intact(i, f)
    PROVE  ImageSize[i] <= q
<1> SUFFICES ASSUME q < ImageSize[i] PROVE FALSE
  BY SizeFacts
<1>1. (q + 1) * PageCells <= ImageSize[i] * PageCells /\ (q + 1) * PageCells = q * PageCells + PageCells
      /\ q * PageCells \in Nat /\ ImageSize[i] * PageCells \in Int
  BY SizeFacts, Times
<1>2. q * PageCells \in ImageCells(i)
  BY <1>1, SizeFacts DEF ImageCells
<1>3. f[q * PageCells] = Img(i, q * PageCells)
  BY <1>2 DEF Intact
<1> QED BY <1>1, <1>3, HeaderDiffers

\* So does all that a record describes that flash still matches.
LEMMA RecordBelowHeader ==
    ASSUME NEW f, NEW q \in Nat, NEW p, f[q * PageCells] \in HeaderOf(p),
           NEW r, Described(r), \A a \in DOMAIN r.img : f[a] = r.img[a]
    PROVE  DOMAIN r.img \subseteq 0 .. (q * PageCells - 1)
<1>1. PICK k \in 0 .. Pages :
          /\ DOMAIN r.img = 0 .. (k * PageCells - 1)
          /\ \A a \in DOMAIN r.img : r.img[a] = Blank \/ \E n \in DOMAIN ImageSize : r.img[a] = Img(n, a)
  BY DEF Described
<1>2. k * PageCells \in Int /\ q * PageCells \in Nat
  BY SizeFacts, Times
<1>3. q * PageCells \notin DOMAIN r.img
  BY <1>1, <1>2, HeaderDiffers
<1> QED BY <1>1, <1>2, <1>3

\* An application that is valid stays valid when the pages above it change.
LEMMA ValidAgree ==
    ASSUME NEW f, NEW g, NEW q \in Nat \ {0}, Agree(f, g, q), NEW r,
           r.bank = "valid" => DOMAIN r.img \subseteq 0 .. (q * PageCells - 1), AppValid(f, r)
    PROVE  AppValid(g, r)
<1>1. 0 \in 0 .. (q * PageCells - 1)
  <2>1. 1 * PageCells <= q * PageCells /\ q * PageCells \in Int
    BY SizeFacts, Times
  <2> QED BY <2>1, SizeFacts
<1>2. g[0] = f[0]
  BY <1>1 DEF Agree
<1> QED BY <1>2 DEF AppValid, Agree

-----------------------------------------------------------------------------
(* The initial states, and what a step keeps. *)

LEMMA NoImageFacts == DOMAIN NoImage = 0 .. (0 * PageCells - 1)
BY DEF NoImage, FirstCells

\* A record without an image.
LEMMA EmptyDescribed ==
    ASSUME NEW b \in {"valid", "invalid", "none"} PROVE Described(Record(b, NoImage))
<1>1. DOMAIN NoImage = {} /\ 0 * PageCells - 1 = -1
  BY NoImageFacts, SizeFacts
<1>2. DOMAIN NoImage = 0 .. (0 * PageCells - 1) /\ 0 \in 0 .. Pages
  BY NoImageFacts, SizeFacts
<1> QED BY <1>1, <1>2 DEF Described, Record

\* A record of the pages of an image, and of padding behind it.
LEMMA FirstDescribed ==
    ASSUME NEW f, NEW n \in 0 .. Pages, NEW b \in {"valid", "invalid", "none"},
           \A a \in 0 .. (n * PageCells - 1) :
              f[a] = Blank \/ \E i \in DOMAIN ImageSize : f[a] = Img(i, a)
    PROVE  Described(Record(b, FirstCells(f, n)))
<1>1. DOMAIN FirstCells(f, n) = 0 .. (n * PageCells - 1)
  BY DEF FirstCells
<1>2. \A a \in DOMAIN FirstCells(f, n) : FirstCells(f, n)[a] = f[a]
  BY DEF FirstCells
<1> QED BY <1>1, <1>2 DEF Described, Record

LEMMA InitInv == Init => IInv
<1> SUFFICES ASSUME Init PROVE IInv
  OBVIOUS
<1>1. PICK i \in DOMAIN ImageSize :
          /\ flash = [c \in Cells |-> IF c \in ImageCells(i) THEN Img(i, c) ELSE Blank]
          /\ \/ rec = Record("none", NoImage)
             \/ \E n \in {ImageSize[i], ImageSize[i] + 1} \cap (1 .. Pages) :
                   rec = Record("valid", FirstCells(flash, n))
  BY DEF Init
<1>2. ImageCells(i) \subseteq Cells
  <2>1. ImageSize[i] * PageCells <= Pages * PageCells /\ ImageSize[i] * PageCells \in Int
        /\ Pages * PageCells \in Int
    BY SizeFacts, Times
  <2> QED BY <2>1 DEF ImageCells, Cells
<1>3. Intact(i, flash)
  BY <1>1, <1>2 DEF Intact
<1>4. Whole(flash)
  BY <1>3 DEF Whole
<1>5. Described(rec)
  <2>1. CASE rec = Record("none", NoImage)
    BY <2>1, EmptyDescribed
  <2>2. ASSUME NEW n \in 1 .. Pages, rec = Record("valid", FirstCells(flash, n)) PROVE Described(rec)
    <3>1. n * PageCells <= Pages * PageCells /\ n * PageCells \in Int /\ Pages * PageCells \in Int
      BY SizeFacts, Times
    <3>2. \A a \in 0 .. (n * PageCells - 1) :
              flash[a] = Blank \/ \E j \in DOMAIN ImageSize : flash[a] = Img(j, a)
      BY <1>1, <3>1 DEF Cells
    <3>3. n \in 0 .. Pages
      BY SizeFacts
    <3> QED BY <2>2, <3>2, <3>3, FirstDescribed
  <2> QED BY <1>1, <2>1, <2>2
<1>6. DOMAIN flash = Cells
  BY <1>1
<1>7. Shape
  BY <1>6 DEF Init, Shape, Ready, Gate, Choice, Before
<1>8. AttemptInv /\ ImageInv
  BY <1>4 DEF Init, AttemptInv, ImageInv, Gate, Choice, Lost
<1>9. ChoiceInv /\ RoomInv /\ VerifiedInv /\ HybridInv
  BY DEF Init, ChoiceInv, RoomInv, VerifiedInv, HybridInv, Choice, BlUpdate
<1>10. CacheInv
  BY SizeFacts DEF Init, Ready, CacheInv, NoCache
<1> QED BY <1>5, <1>7, <1>8, <1>9, <1>10 DEF IInv

\* What is left to show of a step after which the applier does not run.
LEMMA IdleInv ==
    ASSUME run' \in {"boot", "dfu", "app"}, pc' = "none", pkg' \in DOMAIN Packages \cup {"none"},
           auth' \in DOMAIN Packages \cup {"none"}, trigger' \in {"none", "app", "boot"}, step' = 0,
           DOMAIN flash' = Cells, DOMAIN boot' = 0 .. (BootPages * PageCells - 1),
           Described(rec'), AttemptInv',
           Whole(flash') \/ rec'.bank = "invalid",
           run' = "app" \/ trigger' # "none" => Whole(flash'),
           source' = "hybrid" /\ trigger' # "none" /\ auth' # "none" => DOMAIN ram' = RamCells(auth'),
           cache'.page \in -1 .. (Pages - 1), cache'.dirty \in BOOLEAN
    PROVE  IInv'
<1>1. Shape'
  BY DEF Shape, Before
<1>2. ImageInv'
  BY DEF ImageInv, Lost, Gate, Choice
<1>3. ChoiceInv' /\ RoomInv' /\ VerifiedInv'
  BY DEF ChoiceInv, RoomInv, VerifiedInv, Choice, BlUpdate
<1>4. HybridInv'
  BY DEF HybridInv
<1>5. CacheInv'
  BY DEF CacheInv
<1> QED BY <1>1, <1>2, <1>3, <1>4, <1>5 DEF IInv

LEMMA NoCacheFacts ==
    /\ NoCache.page = -1 /\ NoCache.dirty = FALSE /\ NoCache.page \in -1 .. (Pages - 1)
    /\ DOMAIN NoCache.buf = 0 .. (PageCells - 1)
BY SizeFacts DEF NoCache

\* The end of an attempt: whatever is in flash, there is an image or a record that says
\* there is none.
LEMMA FinishInv ==
    ASSUME IInv, pc # "none", NEW code \in {"failed", "applied"}, FinishApply(code),
           trigger' = trigger, auth' = auth, armed' = armed,
           DOMAIN flash' = Cells, DOMAIN boot' = 0 .. (BootPages * PageCells - 1),
           Described(rec'), Whole(flash') \/ rec'.bank = "invalid"
    PROVE  IInv'
<1>1. trigger = "none" /\ auth \in DOMAIN Packages \cup {"none"}
  BY DEF IInv, Shape, AttemptInv
<1>2. run' = "boot" /\ pc' = "none" /\ source' = code /\ pkg' = "none" /\ step' = 0 /\ cache' = NoCache
  BY DEF FinishApply, Forgotten
<1>3. AttemptInv'
  BY <1>1, <1>2 DEF AttemptInv
<1>4. source' # "hybrid"
  BY <1>2
<1> QED BY <1>1, <1>2, <1>3, <1>4, NoCacheFacts, IdleInv

-----------------------------------------------------------------------------
(* The application, DFU and resets. *)

\* Staging writes above the image that runs.
LEMMA StagedFlash ==
    ASSUME IInv, NEW p \in DOMAIN Packages, AppStages(p)
    PROVE  DOMAIN flash' = Cells /\ Whole(flash')
<1> DEFINE m == Packages[p]
           inFlash == m.src \in {"internal", "hybrid"}
           token == m.src = "sd" /\ m.kind = "boot"
           base == m.at * PageCells
           prefix == IF m.src = "hybrid" THEN PrefixCells(p) ELSE m.cells
<1>1. run = "app" /\ DOMAIN flash = Cells /\ Whole(flash)
  BY DEF AppStages, IInv, Shape, ImageInv
<1>2. m.at \in Nat /\ m.at <= Pages /\ base \in Nat /\ PageCells \in Nat /\ Pages \in Nat
      /\ Pages * PageCells \in Int /\ base <= Pages * PageCells
  BY PackageFacts, SizeFacts, Times
<1>3. CASE inFlash
  <2>1. flash' = [a \in Cells |-> IF a < base THEN flash[a]
                                  ELSE IF a - base < prefix THEN Content(p, a - base) ELSE Blank]
    BY <1>3, Zenon DEF AppStages
  <2>2. WholeBelow(flash, m.at)
    BY <1>3 DEF AppStages, WholeBelow
  <2>3. Agree(flash, flash', m.at)
    BY <2>1, <1>2 DEF Agree, Cells
  <2> QED BY <2>1, <2>2, <2>3, <1>2, WholeAgree
<1>4. CASE ~inFlash /\ token
  <2>1. flash' = [Erased(flash, m.at) EXCEPT ![base] = Token(p)]
    BY <1>4, Zenon DEF AppStages
  <2>2. WholeBelow(flash, m.at)
    BY <1>4 DEF AppStages, WholeBelow
  <2>3. DOMAIN Erased(flash, m.at) = Cells
    BY <1>1 DEF Erased
  <2>4. Agree(flash, Erased(flash, m.at), m.at)
    BY <1>1, <1>2, PageOpsAgree
  <2>5. Agree(flash, flash', m.at)
    <3>1. ASSUME NEW a \in 0 .. (base - 1) PROVE a \in Cells /\ a # base
      BY <1>2 DEF Cells
    <3> HIDE DEF base, m
    <3>2. ASSUME NEW a \in 0 .. (base - 1) PROVE flash'[a] = Erased(flash, m.at)[a]
      BY <2>1, <2>3, <3>1
    <3> QED BY <2>4, <3>2 DEF Agree, base
  <2> QED BY <2>1, <2>2, <2>3, <2>5, <1>2, WholeAgree
<1>5. CASE ~inFlash /\ ~token
  <2>1. flash' = flash
    BY <1>5, Zenon DEF AppStages
  <2> QED BY <2>1, <1>1
<1> QED BY <1>3, <1>4, <1>5

LEMMA AppStagesInv ==
    ASSUME IInv, NEW p \in DOMAIN Packages, AppStages(p) PROVE IInv'
<1>1. DOMAIN flash' = Cells /\ Whole(flash')
  BY StagedFlash
<1>2. run = "app" /\ run' = "boot" /\ pc' = pc /\ pkg' = pkg /\ step' = step /\ cache' = cache
      /\ boot' = boot /\ rec' = rec /\ armed' = TRUE /\ source' = Packages[p].src
      /\ trigger' \in {"app", "boot"}
      /\ auth' = IF Packages[p].src \in {"hybrid", "sd"} THEN p ELSE auth
  BY DEF AppStages, applier
<1>3. pc = "none" /\ pkg \in DOMAIN Packages \cup {"none"} /\ auth' \in DOMAIN Packages \cup {"none"}
      /\ step = 0 /\ DOMAIN boot = 0 .. (BootPages * PageCells - 1) /\ Described(rec)
      /\ cache.page \in -1 .. (Pages - 1) /\ cache.dirty \in BOOLEAN
  BY <1>2 DEF IInv, Shape, CacheInv, Before
<1>4. AttemptInv'
  BY <1>2 DEF AttemptInv
<1>5. source' = "hybrid" => DOMAIN ram' = RamCells(auth')
  <2> SUFFICES ASSUME source' = "hybrid" PROVE DOMAIN ram' = RamCells(auth')
    OBVIOUS
  <2>1. Packages[p].src = "hybrid" /\ auth' = p
    BY <1>2
  <2>2. ram' = [k \in PrefixCells(p) .. (Packages[p].cells - 1) |-> Content(p, k)]
    BY <2>1 DEF AppStages
  <2> QED BY <2>1, <2>2 DEF RamCells
<1> QED BY <1>1, <1>2, <1>3, <1>4, <1>5, IdleInv

LEMMA BootAppInv ==
    ASSUME IInv, BootApp PROVE IInv'
<1>1. run = "boot" /\ trigger = "none" /\ run' = "app" /\ UNCHANGED <<flashVars, pc, trigger, source, auth, applier, armed>>
      /\ AppValid(flash, rec)
  BY DEF BootApp
<1>2. pc = "none" /\ pkg \in DOMAIN Packages \cup {"none"} /\ auth \in DOMAIN Packages \cup {"none"}
      /\ step = 0 /\ DOMAIN boot = 0 .. (BootPages * PageCells - 1) /\ Described(rec)
      /\ cache.page \in -1 .. (Pages - 1) /\ cache.dirty \in BOOLEAN /\ DOMAIN flash = Cells
  BY <1>1 DEF IInv, Shape, CacheInv, Before
<1>3. Whole(flash)
  BY <1>1, <1>2 DEF IInv, ImageInv, Lost, AppValid
<1>4. AttemptInv'
  BY <1>1 DEF AttemptInv
<1>5. flash' = flash /\ boot' = boot /\ rec' = rec /\ pkg' = pkg /\ step' = step /\ cache' = cache
      /\ auth' = auth /\ trigger' = trigger /\ pc' = pc
  BY <1>1 DEF flashVars, applier
<1> QED BY <1>1, <1>2, <1>3, <1>4, <1>5, IdleInv

LEMMA BootDfuInv ==
    ASSUME IInv, BootDfu PROVE IInv'
<1>1. run = "boot" /\ run' = "dfu" /\ trigger' \in {trigger, "none"}
      /\ flash' = flash /\ boot' = boot /\ rec' = rec /\ ram' = ram /\ pkg' = pkg /\ step' = step /\ cache' = cache
      /\ auth' = auth /\ pc' = pc /\ source' = source /\ armed' = armed
  BY DEF BootDfu, flashVars, applier
<1>2. pc = "none" /\ pkg \in DOMAIN Packages \cup {"none"} /\ auth \in DOMAIN Packages \cup {"none"}
      /\ step = 0 /\ DOMAIN boot = 0 .. (BootPages * PageCells - 1) /\ Described(rec)
      /\ cache.page \in -1 .. (Pages - 1) /\ cache.dirty \in BOOLEAN /\ DOMAIN flash = Cells
      /\ trigger \in {"none", "app", "boot"}
  BY <1>1 DEF IInv, Shape, CacheInv, Before
<1>3. Whole(flash) \/ rec.bank = "invalid"
  BY <1>2 DEF IInv, ImageInv, Lost
<1>4. trigger # "none" => Whole(flash)
  BY DEF IInv, ImageInv
<1>5. AttemptInv'
  BY <1>1 DEF AttemptInv, IInv
<1>6. source = "hybrid" /\ trigger # "none" /\ auth # "none" => DOMAIN ram = RamCells(auth)
  BY DEF IInv, HybridInv
<1>7. source' = "hybrid" /\ trigger' # "none" /\ auth' # "none" => DOMAIN ram' = RamCells(auth')
  BY <1>1, <1>6
<1>8. trigger' \in {"none", "app", "boot"} /\ (trigger' # "none" => Whole(flash'))
  BY <1>1, <1>2, <1>4
<1> QED BY <1>1, <1>2, <1>3, <1>5, <1>7, <1>8, IdleInv

\* A whole image written over flash.
LEMMA Installed ==
    ASSUME NEW f, NEW g, NEW i \in DOMAIN ImageSize,
           g = [c \in Cells |-> IF c \in ImageCells(i) THEN Img(i, c) ELSE f[c]]
    PROVE  /\ DOMAIN g = Cells /\ Whole(g)
           /\ Described(Record("valid", FirstCells(g, ImageSize[i])))
<1>1. ImageCells(i) \subseteq Cells
  <2>1. ImageSize[i] * PageCells <= Pages * PageCells /\ ImageSize[i] * PageCells \in Int
        /\ Pages * PageCells \in Int
    BY SizeFacts, Times
  <2> QED BY <2>1 DEF ImageCells, Cells
<1>2. \A c \in ImageCells(i) : g[c] = Img(i, c)
  BY <1>1
<1>3. Whole(g)
  BY <1>2 DEF Whole, Intact
<1>4. ImageSize[i] \in 0 .. Pages
  BY SizeFacts
<1>5. Described(Record("valid", FirstCells(g, ImageSize[i])))
  BY <1>2, <1>4, FirstDescribed DEF ImageCells
<1> QED BY <1>3, <1>5

LEMMA LeaveDfuInv ==
    ASSUME IInv, LeaveDfu PROVE IInv'
<1>1. run = "dfu" /\ run' = "boot" /\ trigger' = trigger
      /\ boot' = boot /\ ram' = ram /\ pkg' = pkg /\ step' = step /\ cache' = cache
      /\ auth' = auth /\ pc' = pc /\ source' = source /\ armed' = armed
  BY DEF LeaveDfu, applier
<1>2. pc = "none" /\ pkg \in DOMAIN Packages \cup {"none"} /\ auth \in DOMAIN Packages \cup {"none"}
      /\ step = 0 /\ DOMAIN boot = 0 .. (BootPages * PageCells - 1) /\ Described(rec)
      /\ cache.page \in -1 .. (Pages - 1) /\ cache.dirty \in BOOLEAN /\ DOMAIN flash = Cells
      /\ trigger \in {"none", "app", "boot"}
  BY <1>1 DEF IInv, Shape, CacheInv, Before
<1>3. Whole(flash) \/ rec.bank = "invalid"
  BY <1>2 DEF IInv, ImageInv, Lost
<1>4. trigger # "none" => Whole(flash)
  BY DEF IInv, ImageInv
<1>5. AttemptInv'
  BY <1>1 DEF AttemptInv, IInv
<1>6. source' = "hybrid" /\ trigger' # "none" /\ auth' # "none" => DOMAIN ram' = RamCells(auth')
  BY <1>1 DEF IInv, HybridInv
<1>7. /\ DOMAIN flash' = Cells /\ Described(rec') /\ (Whole(flash') \/ rec'.bank = "invalid")
      /\ trigger' # "none" => Whole(flash')
  <2>1. CASE UNCHANGED <<flash, rec>>
    BY <2>1, <1>1, <1>2, <1>3, <1>4
  <2>2. ASSUME NEW i \in DOMAIN ImageSize,
               flash' = [c \in Cells |-> IF c \in ImageCells(i) THEN Img(i, c) ELSE flash[c]],
               rec' = Record("valid", FirstCells(flash', ImageSize[i]))
        PROVE  DOMAIN flash' = Cells /\ Described(rec') /\ Whole(flash')
    BY <2>2, Installed
  <2> QED BY <2>1, <2>2 DEF LeaveDfu
<1> QED BY <1>1, <1>2, <1>5, <1>6, <1>7, IdleInv

\* Only a container on a card changes.
LEMMA CardChangesInv ==
    ASSUME IInv, CardChanges PROVE IInv'
<1>1. source = "sd" /\ source' = source /\ flash' = flash /\ ram' = ram /\ boot' = boot /\ rec' = rec
      /\ run' = run /\ pc' = pc /\ trigger' = trigger /\ auth' = auth /\ pkg' = pkg /\ step' = step
      /\ cache' = cache /\ mem' = mem /\ armed' = armed
  BY DEF CardChanges, retained, applier
<1>2. Shape' /\ Described(rec') /\ AttemptInv' /\ ImageInv' /\ ChoiceInv'
  BY <1>1 DEF IInv, Shape, AttemptInv, ImageInv, ChoiceInv
<1>3. External /\ External' /\ Workspace(pkg)' = Workspace(pkg)
  BY <1>1 DEF External, Workspace
<1>4. RoomInv'
  BY <1>1, <1>3 DEF IInv, RoomInv
<1>5. VerifiedInv'
  BY <1>1, <1>3 DEF IInv, VerifiedInv, GeometryOk, FlashHashValid
<1>6. HybridInv'
  BY <1>1 DEF HybridInv
<1>7. CacheInv'
  BY <1>1, <1>3 DEF IInv, CacheInv
<1> QED BY <1>2, <1>4, <1>5, <1>6, <1>7 DEF IInv

-----------------------------------------------------------------------------
(* The gate. *)

\* What a read of the package returns.
LEMMA StagedAt ==
    ASSUME NEW p, NEW k
    PROVE  /\ External => Staged(p, k) = IF k \in DOMAIN ext THEN ext[k] ELSE Torn
           /\ source = "hybrid" =>
                 Staged(p, k) = IF k < PrefixCells(p) THEN flash[HybridBase(p) + k]
                                ELSE IF k \in DOMAIN ram THEN ram[k] ELSE Torn
           /\ ~External /\ source # "hybrid" => Staged(p, k) = flash[HybridBase(p) + k]
<1>1. External => Staged(p, k) = IF k \in DOMAIN ext THEN ext[k] ELSE Torn
  BY Zenon DEF Staged, External
<1>2. source = "hybrid" =>
                 Staged(p, k) = IF k < PrefixCells(p) THEN flash[HybridBase(p) + k]
                                ELSE IF k \in DOMAIN ram THEN ram[k] ELSE Torn
  <2> SUFFICES ASSUME source = "hybrid"
               PROVE  Staged(p, k) = IF k < PrefixCells(p) THEN flash[HybridBase(p) + k]
                                ELSE IF k \in DOMAIN ram THEN ram[k] ELSE Torn
    OBVIOUS
  <2>1. source \notin {"qspi", "sd"}
    OBVIOUS
  <2> QED BY <2>1, Zenon DEF Staged
<1>3. ~External /\ source # "hybrid" => Staged(p, k) = flash[HybridBase(p) + k]
  BY Zenon DEF Staged, External
<1> QED BY <1>1, <1>2, <1>3

\* The part of a container in flash holds at least its header.
LEMMA PrefixFacts ==
    ASSUME NEW p \in DOMAIN Packages
    PROVE  /\ PrefixCells(p) \in Nat /\ PrefixCells(p) >= PageCells /\ PrefixCells(p) >= 1
           /\ HybridBase(p) \in Nat /\ HybridBase(p) \in Cells /\ HybridBase(p) = Packages[p].at * PageCells
           /\ HybridBase(p) + 0 = HybridBase(p)
           /\ HybridBase(p) + PrefixCells(p) = Pages * PageCells
<1>1. Packages[p].at \in Nat /\ Pages \in Nat /\ PageCells \in Nat /\ PageCells > 0 /\ Packages[p].at <= Pages - 1
  BY PackageFacts, SizeFacts
<1>2. 1 <= Pages - Packages[p].at /\ (Pages - Packages[p].at) \in Int
  BY <1>1
<1>3. 1 * PageCells <= (Pages - Packages[p].at) * PageCells
  BY <1>2, Times
<1>4. (Pages - Packages[p].at) * PageCells = Pages * PageCells - Packages[p].at * PageCells
      /\ Packages[p].at * PageCells \in Nat /\ Pages * PageCells \in Nat
  BY <1>1
<1>5. PrefixCells(p) = Pages * PageCells - Packages[p].at * PageCells /\ PrefixCells(p) >= PageCells
  BY <1>1, <1>3, <1>4 DEF PrefixCells
<1> QED BY <1>1, <1>4, <1>5 DEF HybridBase, Cells

\* The header of a container in flash.
LEMMA HeaderInFlash ==
    ASSUME NEW p \in DOMAIN Packages, ~External
    PROVE  Staged(p, 0) = flash[HybridBase(p)]
BY StagedAt, PrefixFacts

LEMMA OtaBeginInv ==
    ASSUME IInv, OtaBegin PROVE IInv'
<1>1. run = "boot" /\ trigger # "none" /\ run' = "ota" /\ pc' \in Gate /\ trigger' = "none" /\ armed' = FALSE
      /\ flash' = flash /\ ram' = ram /\ boot' = boot /\ rec' = rec /\ source' = source
      /\ step' = step /\ cache' = cache
  BY DEF OtaBegin, flashVars, Gate, TriggerConsumed
<1>2. \/ source \in {"hybrid", "sd"} /\ pkg' = auth /\ auth' = "none"
      \/ source \notin {"hybrid", "sd"} /\ UNCHANGED <<pkg, auth>>
  BY DEF OtaBegin
<1>3. Shape'
  BY <1>1, <1>2 DEF IInv, Shape, Gate, Before
<1>4. AttemptInv' /\ Described(rec')
  BY <1>1 DEF AttemptInv, IInv
<1>5. ImageInv'
  BY <1>1 DEF IInv, ImageInv, Gate, Choice, Lost
<1>6. ChoiceInv' /\ RoomInv' /\ VerifiedInv'
  BY <1>1 DEF ChoiceInv, RoomInv, VerifiedInv, Choice, BlUpdate, Gate
<1>7. HybridInv'
  BY <1>1, <1>2 DEF IInv, HybridInv
<1>8. CacheInv'
  BY <1>1 DEF IInv, CacheInv, Gate
<1> QED BY <1>3, <1>4, <1>5, <1>6, <1>7, <1>8 DEF IInv

\* A gate that chooses package p and goes on to state q.
Chooses(p, q) ==
    /\ pc \in Gate /\ pc' = q /\ pkg' = p
    /\ p \in Scanned /\ Approved(p)
    /\ UNCHANGED <<flashVars, run, retained, step, cache, mem, armed>>

LEMMA ScannedFacts ==
    ASSUME NEW p \in Scanned
    PROVE  p \in DOMAIN Packages /\ (source = "hybrid" => p = pkg)
<1>1. p \in DOMAIN Packages /\ Found(p)
  BY DEF Scanned
<1>2. source = "hybrid" => p = pkg
  BY <1>1, Zenon DEF Found
<1> QED BY <1>1, <1>2

LEMMA ChoosesInv ==
    ASSUME IInv, NEW p, NEW q \in {"reject", "clear", "blclear"}, Chooses(p, q),
           q = "clear" => /\ Packages[p].kind # "boot"
                          /\ Packages[p].kind = "delta" => Intact(Packages[p].base, flash) /\ GeometryOk(p)
                          /\ Packages[p].kind = "full" => External /\ (source = "sd" \/ PayloadGood(p))
                          /\ source = "hybrid" => \A k \in DOMAIN ram : ram[k] = Content(p, k),
           q = "blclear" => /\ Packages[p].kind = "boot"
                            /\ WholeBelow(flash, Packages[p].at)
                            /\ rec.bank = "valid" =>
                                  DOMAIN rec.img \subseteq 0 .. (Packages[p].at * PageCells - 1)
    PROVE  IInv'
<1>1. pc \in Gate /\ pc' = q /\ pkg' = p /\ p \in Scanned /\ Staged(p, 0) = Header(p, TRUE)
      /\ flash' = flash /\ ext' = ext /\ ram' = ram /\ boot' = boot /\ rec' = rec /\ run' = run
      /\ trigger' = trigger /\ source' = source /\ auth' = auth /\ soft' = soft
      /\ step' = step /\ cache' = cache /\ mem' = mem /\ armed' = armed
  BY DEF Chooses, flashVars, retained, Approved
<1>2. p \in DOMAIN Packages /\ (source = "hybrid" => p = pkg)
  BY <1>1, ScannedFacts
<1>3. pc # "none" /\ run = "ota"
  BY <1>1 DEF IInv, Shape, Gate
<1>4. Shape'
  BY <1>1, <1>2, <1>3 DEF IInv, Shape, Choice, Before
<1>5. Described(rec') /\ AttemptInv'
  BY <1>1 DEF IInv, AttemptInv
<1>6. ImageInv'
  BY <1>1 DEF IInv, ImageInv, Gate, Choice, Lost
<1>7. ChoiceInv'
  BY <1>1, <1>2 DEF ChoiceInv, Choice, BlUpdate
<1>8. External' <=> External
  BY <1>1 DEF External
<1>9. RoomInv'
  <2>1. ~External => flash[HybridBase(p)] \in HeaderOf(p)
    BY <1>1, <1>2, HeaderInFlash DEF HeaderOf
  <2>2. source = "qspi" => 0 \in DOMAIN ext
    <3>1. Header(p, TRUE) # Torn
      BY DEF Header, Torn
    <3> QED BY <1>1, <3>1, StagedAt DEF External
  <2> QED BY <1>1, <1>8, <2>1, <2>2 DEF RoomInv, BlUpdate, HybridBase
<1>10. VerifiedInv'
  <2>1. GeometryOk(p) => GeometryOk(p)'
    BY <1>1, <1>8 DEF GeometryOk, Workspace
  <2>2. PayloadGood(p) => PayloadGood(p)'
    BY <1>1, Zenon DEF PayloadGood, Staged, PrefixCells, HybridBase
  <2> QED BY <1>1, <1>8, <2>1, <2>2 DEF VerifiedInv
<1>11. HybridInv'
  BY <1>1, <1>2, <1>3 DEF IInv, HybridInv, AttemptInv
<1>12. CacheInv'
  BY <1>1 DEF IInv, CacheInv
<1> QED BY <1>4, <1>5, <1>6, <1>7, <1>9, <1>10, <1>11, <1>12 DEF IInv

\* At the gate there is an image.
LEMMA GateFailsInv ==
    ASSUME IInv, GateFails \/ BlGateFails PROVE IInv'
<1>1. pc \in Gate /\ FinishApply("failed") /\ UNCHANGED <<flashVars, trigger, auth, soft, armed>>
  BY DEF GateFails, BlGateFails, Gate
<1>2. flash' = flash /\ boot' = boot /\ rec' = rec /\ trigger' = trigger /\ auth' = auth /\ armed' = armed
  BY <1>1 DEF flashVars
<1>3. Whole(flash) /\ DOMAIN flash = Cells /\ DOMAIN boot = 0 .. (BootPages * PageCells - 1) /\ Described(rec)
  BY <1>1 DEF IInv, ImageInv, Shape
<1>4. pc # "none"
  BY <1>1 DEF Gate
<1> QED BY <1>1, <1>2, <1>3, <1>4, FinishInv

LEMMA GateRejectsInv ==
    ASSUME IInv, GateRejects \/ BlGateRejects PROVE IInv'
<1>1. PICK p : Chooses(p, "reject")
  BY DEF GateRejects, BlGateRejects, Chooses, Gate, Candidate, BlCandidate
<1> QED BY <1>1, ChoosesInv

\* An authentic hybrid container is in RAM as it was signed.
LEMMA RamAuthentic ==
    ASSUME NEW p \in DOMAIN Packages, source = "hybrid", ContainerAuthentic(p), DOMAIN ram = RamCells(p),
           NEW k \in DOMAIN ram
    PROVE  ram[k] = Content(p, k)
<1>1. k \in Int /\ k >= PrefixCells(p) /\ k <= Packages[p].cells - 1 /\ PrefixCells(p) \in Nat /\ PrefixCells(p) >= 1
      /\ Packages[p].cells \in Nat
  BY PrefixFacts, PackageFacts DEF RamCells
<1>2. k \in 1 .. (Packages[p].cells - 1) /\ ~(k < PrefixCells(p))
  BY <1>1
<1>3. Staged(p, k) = Content(p, k)
  BY <1>2 DEF ContainerAuthentic
<1>4. Staged(p, k) = ram[k]
  BY <1>2, StagedAt
<1> QED BY <1>3, <1>4

LEMMA GatePassesInv ==
    ASSUME IInv, GatePasses PROVE IInv'
<1>1. PICK p \in Scanned : Candidate(p) /\ ~Rejected(p) /\ ~FullRefused(p) /\ pkg' = p
  BY DEF GatePasses
<1>2. Chooses(p, "clear")
  BY <1>1 DEF GatePasses, Chooses, Candidate, Gate
<1>3. p \in DOMAIN Packages /\ (source = "hybrid" => p = pkg)
  BY ScannedFacts
<1>4. Packages[p].kind # "boot" /\ Packages[p].kind \in Kinds
  BY <1>1, <1>3, PackageFacts DEF Rejected
<1>5. Packages[p].kind = "full" => External /\ (source = "sd" \/ PayloadGood(p))
  BY <1>1 DEF Rejected, FullRefused, FullExternal
<1>6. Packages[p].kind = "delta" => Intact(Packages[p].base, flash) /\ GeometryOk(p)
  BY <1>1 DEF Rejected, FullExternal, BaseMatches
<1>7. source = "hybrid" => \A k \in DOMAIN ram : ram[k] = Content(p, k)
  <2> SUFFICES ASSUME source = "hybrid" PROVE \A k \in DOMAIN ram : ram[k] = Content(p, k)
    OBVIOUS
  <2>1. ContainerAuthentic(pkg) /\ pkg # "none" /\ p = pkg
    BY <1>1, <1>3 DEF Candidate, Entered, HandoffOk
  <2>2. DOMAIN ram = RamCells(pkg)
    BY <2>1, <1>2 DEF IInv, HybridInv, Chooses, Gate
  <2> QED BY <1>3, <2>1, <2>2, RamAuthentic
<1> QED BY <1>2, <1>4, <1>5, <1>6, <1>7, ChoosesInv

LEMMA BlGatePassesInv ==
    ASSUME IInv, BlGatePasses PROVE IInv'
<1>1. PICK p \in Scanned : BlCandidate(p) /\ ~BlRejected(p) /\ pkg' = p
  BY DEF BlGatePasses
<1>2. Chooses(p, "blclear")
  BY <1>1 DEF BlGatePasses, Chooses, BlCandidate, Gate
<1>3. Packages[p].kind = "boot" /\ ota_delta_live_app_fits_below(Packages[p].at)
  BY <1>1 DEF BlRejected
<1>4. /\ WholeBelow(flash, Packages[p].at)
      /\ rec.bank = "valid" => DOMAIN rec.img \subseteq 0 .. (Packages[p].at * PageCells - 1)
  BY <1>3 DEF ota_delta_live_app_fits_below, WholeBelow
<1> QED BY <1>2, <1>3, <1>4, ChoosesInv

-----------------------------------------------------------------------------
(* The approval. *)

\* The approval is cleared, or the attempt to do so fails, above the image and all that
\* the record describes.
LEMMA ClearAgree ==
    ASSUME IInv, pc \in {"reject", "clear", "blclear"}, ClearApproval \/ ClearFails
    PROVE  /\ DOMAIN flash' = Cells
           /\ Agree(flash, flash', Packages[pkg].at)
           /\ External => flash' = flash
<1>1. pkg \in DOMAIN Packages /\ DOMAIN flash = Cells
  BY DEF IInv, ChoiceInv, Choice, Shape
<1>2. Packages[pkg].at \in Nat /\ Packages[pkg].at <= Pages
  BY <1>1, PackageFacts, SizeFacts
<1>6. External => flash' = flash
  BY DEF ClearApproval, ClearFails, External
<1>7. flash' = flash \/ flash' = [flash EXCEPT ![HybridBase(pkg)] = Header(pkg, FALSE)]
      \/ flash' = Tear(flash, Packages[pkg].at)
  BY DEF ClearApproval, ClearFails
<1>8. DOMAIN flash' = Cells /\ Agree(flash, flash', Packages[pkg].at)
  <2>1. CASE flash' = flash
    BY <1>1, <2>1 DEF Agree
  <2>2. CASE flash' = [flash EXCEPT ![HybridBase(pkg)] = Header(pkg, FALSE)]
    <3>1. DOMAIN flash' = Cells
      BY <1>1, <2>2
    <3>2. flash' = [flash EXCEPT ![Packages[pkg].at * PageCells] = Header(pkg, FALSE)]
      BY <2>2 DEF HybridBase
    <3>3. \A a \in Cells : a # Packages[pkg].at * PageCells => flash'[a] = flash[a]
      BY <1>1, <3>2
    <3>4. Agree(flash, flash', Packages[pkg].at)
      BY <1>2, <3>3, HeaderAgree
    <3> QED BY <3>1, <3>4
  <2>3. CASE flash' = Tear(flash, Packages[pkg].at)
    <3>1. DOMAIN flash' = Cells
      BY <1>1, <2>3 DEF Tear
    <3> QED BY <1>1, <1>2, <2>3, <3>1, PageOpsAgree
  <2> QED BY <1>7, <2>1, <2>2, <2>3
<1> QED BY <1>6, <1>8

\* So the image stays whole.
LEMMA ClearWhole ==
    ASSUME IInv, pc \in {"reject", "clear", "blclear"}, ClearApproval \/ ClearFails
    PROVE  Whole(flash') /\ (~External => WholeBelow(flash', Packages[pkg].at))
<1>1. pkg \in DOMAIN Packages /\ Whole(flash)
  BY DEF IInv, ChoiceInv, ImageInv, Choice, Lost
<1>2. Packages[pkg].at \in Nat
  BY <1>1, PackageFacts, SizeFacts
<1>3. CASE External
  BY <1>1, <1>3, ClearAgree
<1>4. CASE ~External
  <2>1. flash[Packages[pkg].at * PageCells] \in HeaderOf(pkg)
    BY <1>4 DEF IInv, RoomInv, HybridBase
  <2>2. PICK i \in DOMAIN ImageSize : Intact(i, flash)
    BY <1>1 DEF Whole
  <2>3. ImageSize[i] <= Packages[pkg].at
    BY <1>2, <2>1, <2>2, ImageBelowHeader
  <2>4. WholeBelow(flash, Packages[pkg].at)
    BY <2>2, <2>3 DEF WholeBelow
  <2> QED BY <1>2, <2>4, WholeAgree, ClearAgree
<1> QED BY <1>3, <1>4

LEMMA RejectInv ==
    ASSUME IInv, Reject PROVE IInv'
<1>1. pc = "reject" /\ (ClearApproval \/ ClearFails) /\ FinishApply("failed")
      /\ boot' = boot /\ rec' = rec /\ trigger' = trigger /\ auth' = auth /\ armed' = armed
  BY DEF Reject
<1>2. Whole(flash') /\ DOMAIN flash' = Cells
  BY <1>1, ClearAgree, ClearWhole
<1>3. DOMAIN boot = 0 .. (BootPages * PageCells - 1) /\ Described(rec)
  BY DEF IInv, Shape
<1> QED BY <1>1, <1>2, <1>3, FinishInv

\* The approval of a package that goes on is cleared, and the rest of it is as it was.
LEMMA ClearedStaged ==
    ASSUME IInv, pc \in {"clear", "blclear"}, ClearApproval, source' = source, pkg' = pkg, ram' = ram
    PROVE  /\ source = "sd" \/ Staged(pkg, 0)' = Header(pkg, FALSE)
           /\ source = "qspi" => \A k \in Nat \ {0} : Staged(pkg, k)' = Staged(pkg, k)
<1>1. pkg \in DOMAIN Packages /\ DOMAIN flash = Cells
  BY DEF IInv, ChoiceInv, Choice, Shape
<1>2. CASE source = "sd"
  BY <1>2
<1>3. CASE source = "qspi"
  <2>1. ext' = [ext EXCEPT ![0] = Header(pkg, FALSE)] /\ 0 \in DOMAIN ext
    BY <1>3 DEF ClearApproval, IInv, RoomInv, External
  <2>2. External /\ External'
    BY <1>3 DEF External
  <2>3. \A k : Staged(pkg, k) = IF k \in DOMAIN ext THEN ext[k] ELSE Torn
    BY <2>2, StagedAt
  <2>4. source' \in {"qspi", "sd"}
    BY <1>3
  <2>5. \A k : Staged(pkg, k)' = IF k \in DOMAIN ext' THEN ext'[k] ELSE Torn
    BY <2>4, Zenon DEF Staged
  <2> QED BY <1>3, <2>1, <2>3, <2>5
<1>4. CASE ~External
  <2>1. flash' = [flash EXCEPT ![HybridBase(pkg)] = Header(pkg, FALSE)]
    BY <1>4 DEF ClearApproval, External
  <2>2. flash'[HybridBase(pkg)] = Header(pkg, FALSE)
    BY <1>1, <2>1, PrefixFacts
  <2>3. 0 < PrefixCells(pkg) /\ HybridBase(pkg) + 0 = HybridBase(pkg)
    BY <1>1, PrefixFacts
  <2>4. source' \notin {"qspi", "sd"} /\ PrefixCells(pkg)' = PrefixCells(pkg) /\ HybridBase(pkg)' = HybridBase(pkg)
    BY <1>4 DEF External, PrefixCells, HybridBase
  <2>5. CASE source' = "hybrid"
    <3>1. Staged(pkg, 0)' = IF 0 < PrefixCells(pkg)' THEN flash'[HybridBase(pkg)' + 0]
                            ELSE IF 0 \in DOMAIN ram' THEN ram'[0] ELSE Torn
      BY <2>4, <2>5, Zenon DEF Staged
    <3>2. Staged(pkg, 0)' = flash'[HybridBase(pkg) + 0]
      BY <3>1, <2>3, <2>4
    <3> QED BY <3>2, <2>2, <2>3, <1>4 DEF External
  <2>6. CASE source' # "hybrid"
    <3>1. Staged(pkg, 0)' = flash'[HybridBase(pkg)' + 0]
      BY <2>4, <2>6, Zenon DEF Staged
    <3> QED BY <3>1, <2>2, <2>3, <2>4, <1>4 DEF External
  <2> QED BY <2>5, <2>6
<1> QED BY <1>2, <1>3, <1>4 DEF External

LEMMA ClearInv ==
    ASSUME IInv, Clear PROVE IInv'
<1>1. pc \in {"clear", "blclear"} /\ boot' = boot /\ rec' = rec /\ ram' = ram /\ trigger' = trigger
      /\ auth' = auth /\ soft' = soft /\ armed' = armed
  BY DEF Clear
<1>2. DOMAIN boot = 0 .. (BootPages * PageCells - 1) /\ Described(rec)
  BY DEF IInv, Shape
<1>3. CASE ClearFails /\ FinishApply("failed")
  <2>1. Whole(flash') /\ DOMAIN flash' = Cells
    BY <1>1, <1>3, ClearAgree, ClearWhole
  <2>2. pc # "none"
    BY <1>1
  <2> QED BY <1>1, <1>2, <1>3, <2>1, <2>2, FinishInv
<1>4. CASE ClearApproval /\ pc' = (IF pc = "clear" THEN "commit" ELSE "blcopy") /\ UNCHANGED <<run, source, applier>>
  <2>1. run' = run /\ source' = source /\ pkg' = pkg /\ step' = step /\ cache' = cache /\ mem' = mem
        /\ (pc = "clear" => pc' = "commit") /\ (pc = "blclear" => pc' = "blcopy")
        /\ (pc' = "commit" => pc = "clear")
    BY <1>1, <1>4 DEF applier
  <2>2. pkg \in DOMAIN Packages /\ run = "ota"
    BY <1>1 DEF IInv, ChoiceInv, Choice, Shape
  <2>3. Whole(flash') /\ DOMAIN flash' = Cells /\ Agree(flash, flash', Packages[pkg].at)
        /\ (External => flash' = flash)
    BY <1>1, <1>4, ClearAgree, ClearWhole
  <2>4. Packages[pkg].at \in Nat
    BY <2>2, PackageFacts, SizeFacts
  <2>5. External' <=> External
    BY <2>1 DEF External
  <2>6. Shape' /\ Described(rec') /\ AttemptInv'
    BY <1>1, <1>2, <2>1, <2>2, <2>3 DEF IInv, Shape, AttemptInv, Choice, Before
  <2>7. ImageInv'
    BY <1>1, <2>1, <2>3 DEF IInv, ImageInv, Lost
  <2>8. ChoiceInv'
    BY <1>1, <2>1 DEF IInv, ChoiceInv, Choice, BlUpdate
  <2>9. RoomInv'
    <3>1. pc = "blclear" => WholeBelow(flash, Packages[pkg].at)
      BY DEF IInv, RoomInv, BlUpdate
    <3>2. pc = "blclear" => WholeBelow(flash', Packages[pkg].at)
      BY <2>3, <2>4, <3>1, WholeAgree
    <3> QED BY <1>1, <2>1, <3>2 DEF IInv, RoomInv, BlUpdate
  <2>10. VerifiedInv'
    <3> SUFFICES ASSUME pc = "clear" PROVE VerifiedInv'
      BY <1>1, <2>1 DEF VerifiedInv
    <3>1. Packages[pkg].kind = "delta" => Intact(Packages[pkg].base, flash') /\ GeometryOk(pkg)'
      <4> SUFFICES ASSUME Packages[pkg].kind = "delta"
                   PROVE  Intact(Packages[pkg].base, flash') /\ GeometryOk(pkg)'
        OBVIOUS
      <4>1. Intact(Packages[pkg].base, flash) /\ GeometryOk(pkg)
        BY DEF IInv, VerifiedInv
      <4>2. GeometryOk(pkg)'
        BY <2>1, <2>5, <4>1 DEF GeometryOk, Workspace
      <4>3. CASE External
        BY <2>3, <4>1, <4>2, <4>3
      <4>4. CASE ~External
        <5>1. Packages[pkg].base \in DOMAIN ImageSize /\ ImageSize[Packages[pkg].base] \in Nat
              /\ Packages[pkg].memory \in Nat /\ Packages[pkg].shift \in Nat
          BY <2>2, PackageFacts, SizeFacts
        <5>2. ImageSize[Packages[pkg].base] <= Packages[pkg].at
          BY <2>4, <4>1, <4>4, <5>1 DEF GeometryOk, Workspace
        <5> QED BY <2>3, <2>4, <4>1, <4>2, <5>1, <5>2, IntactAgree
      <4> QED BY <4>3, <4>4
    <3>2. Packages[pkg].kind = "full" => External' /\ (source' = "sd" \/ PayloadGood(pkg)')
      <4> SUFFICES ASSUME Packages[pkg].kind = "full", source # "sd"
                   PROVE  External' /\ PayloadGood(pkg)'
        BY <2>1 DEF External
      <4>1. External /\ PayloadGood(pkg) /\ source = "qspi"
        BY DEF IInv, VerifiedInv, External
      <4>2. \A k \in Nat \ {0} : Staged(pkg, k)' = Staged(pkg, k)
        BY <1>1, <1>4, <2>1, <4>1, ClearedStaged
      <4>3. Packages[pkg].cells \in Nat
        BY <2>2, PackageFacts
      <4> QED BY <2>1, <2>5, <4>1, <4>2, <4>3 DEF PayloadGood
    <3>3. source' = "sd" \/ Staged(pkg, 0)' = Header(pkg, FALSE)
      BY <1>1, <1>4, <2>1, ClearedStaged
    <3>4. source = "hybrid" => \A k \in DOMAIN ram : ram[k] = Content(pkg, k)
      BY DEF IInv, VerifiedInv
    <3>5. pkg' = pkg /\ pc' = "commit" /\ source' = source /\ ram' = ram
      BY <1>1, <2>1
    <3> QED BY <3>1, <3>2, <3>3, <3>4, <3>5 DEF VerifiedInv
  <2>11. HybridInv'
    BY <1>1, <2>1, <2>2 DEF IInv, HybridInv, Shape
  <2>12. CacheInv'
    BY <1>1, <2>1 DEF IInv, CacheInv
  <2> QED BY <2>6, <2>7, <2>8, <2>9, <2>10, <2>11, <2>12 DEF IInv
<1> QED BY <1>3, <1>4 DEF Clear

-----------------------------------------------------------------------------
(* The decoder. *)

LEMMA WorkspaceFacts ==
    ASSUME NEW p \in DOMAIN Packages
    PROVE  Workspace(p) \in 0 .. Pages
BY PackageFacts, SizeFacts DEF Workspace

\* How many operations a patch has, and where each of them works.
LEMMA OpFacts ==
    ASSUME NEW p \in DOMAIN Packages, Packages[p].kind = "delta"
    PROVE  /\ Ops(p) \in Nat
           /\ \A k \in Nat : /\ Op(p, k).page \in Nat
                             /\ Op(p, k).cell \in -1 .. (PageCells - 1)
                             /\ Op(p, k).patch \in BOOLEAN
<1> DEFINE m == Packages[p]
           n == ImageSize[m.base]
<1>1. n \in Nat /\ m.size \in Nat /\ m.shift \in Nat /\ PageCells \in Nat /\ PageCells + 1 \in Nat \ {0}
  BY PackageFacts, SizeFacts
<1>2. Ops(p) \in Nat
  BY <1>1 DEF Ops
<1>3. ASSUME NEW k \in Nat
      PROVE  /\ Op(p, k).page \in Nat
             /\ Op(p, k).cell \in -1 .. (PageCells - 1)
             /\ Op(p, k).patch \in BOOLEAN
  <2> DEFINE seg == k \div (PageCells + 1)
             c == (k % (PageCells + 1)) - 1
  <2>1. seg \in Nat /\ k % (PageCells + 1) \in 0 .. PageCells
    BY <1>1
  <2>2. c \in -1 .. (PageCells - 1)
    BY <1>1, <2>1
  <2>3. CASE seg < n
    <3>1. Op(p, k) = [page |-> n - 1 - seg + m.shift, cell |-> c, from |-> (n - 1 - seg) * PageCells + c,
                      patch |-> FALSE]
      BY <2>3 DEF Op
    <3>2. n - 1 - seg + m.shift \in Nat
      BY <1>1, <2>1, <2>3
    <3> QED BY <2>2, <3>1, <3>2
  <2>4. CASE ~(seg < n)
    <3>1. Op(p, k) = [page |-> seg - n, cell |-> c, from |-> (seg - n + m.shift) * PageCells + c,
                      patch |-> TRUE]
      BY <2>4 DEF Op
    <3>2. seg - n \in Nat
      BY <1>1, <2>1, <2>4
    <3> QED BY <2>2, <3>1, <3>2
  <2> QED BY <2>3, <2>4
<1> QED BY <1>2, <1>3

LEMMA CommitInv ==
    ASSUME IInv, Commit PROVE IInv'
<1>1. pc = "commit" /\ rec' = Record("invalid", NoImage) /\ mem' = FirstCells(flash, Workspace(pkg)) /\ cache' = NoCache
      /\ pc' = (IF Packages[pkg].kind = "full" THEN "copy" ELSE "decode")
      /\ flash' = flash /\ ext' = ext /\ ram' = ram /\ boot' = boot /\ run' = run /\ trigger' = trigger
      /\ source' = source /\ auth' = auth /\ pkg' = pkg /\ step' = step /\ armed' = armed
  BY DEF Commit, retained
<1>2. pkg \in DOMAIN Packages /\ Packages[pkg].kind \in {"delta", "full"} /\ run = "ota" /\ step = 0
  <2>1. pkg \in DOMAIN Packages /\ Packages[pkg].kind # "boot" /\ run = "ota" /\ step = 0
    BY <1>1 DEF IInv, ChoiceInv, Choice, Shape, Before
  <2> QED BY <2>1, PackageFacts DEF Kinds
<1>3. Shape'
  BY <1>1, <1>2 DEF IInv, Shape, Choice, Before, Gate
<1>4. Described(rec') /\ AttemptInv'
  BY <1>1, EmptyDescribed DEF IInv, AttemptInv
<1>5. rec'.bank = "invalid"
  BY <1>1 DEF Record
<1>6. ImageInv'
  BY <1>1, <1>5 DEF IInv, ImageInv, Lost, Gate, Choice, AttemptInv, Shape
<1>7. ChoiceInv'
  BY <1>1, <1>2, OpFacts DEF ChoiceInv, Choice, BlUpdate, Ops
<1>8. RoomInv' /\ VerifiedInv'
  BY <1>1 DEF RoomInv, VerifiedInv, BlUpdate
<1>9. HybridInv'
  BY <1>1, <1>2 DEF IInv, HybridInv, Shape
<1>10. CacheInv'
  <2>1. Workspace(pkg)' = Workspace(pkg) /\ Workspace(pkg) \in 0 .. Pages
    BY <1>1, <1>2, WorkspaceFacts DEF Workspace, External
  <2>2. DOMAIN mem' = 0 .. (Workspace(pkg) * PageCells - 1) /\ \A a \in DOMAIN mem' : mem'[a] = flash[a]
    BY <1>1 DEF FirstCells
  <2>3. Coherent(flash', cache', mem')
    BY <1>1, <2>2, NoCacheFacts DEF Coherent, Read
  <2>4. (cache'.dirty <=> cache'.page # -1) /\ cache'.page < Workspace(pkg)
        /\ cache'.dirty \in BOOLEAN /\ cache'.page \in -1 .. (Pages - 1)
        /\ DOMAIN cache'.buf = 0 .. (PageCells - 1)
    <3>1. cache'.dirty = FALSE /\ cache'.page = -1
      BY <1>1, NoCacheFacts
    <3>2. cache'.page < Workspace(pkg) /\ cache'.page \in -1 .. (Pages - 1)
      BY <2>1, <3>1, SizeFacts
    <3>3. DOMAIN cache'.buf = 0 .. (PageCells - 1)
      BY <1>1, NoCacheFacts
    <3> QED BY <3>1, <3>2, <3>3
  <2>5. cache' = [page |-> cache'.page, dirty |-> cache'.dirty, buf |-> cache'.buf]
    BY <1>1 DEF NoCache
  <2> QED BY <1>1, <2>1, <2>2, <2>3, <2>4, <2>5 DEF CacheInv
<1> QED BY <1>3, <1>4, <1>6, <1>7, <1>8, <1>9, <1>10 DEF IInv

\* A cache whose page is pg, or none.
CacheShape(c) ==
    /\ c = [page |-> c.page, dirty |-> c.dirty, buf |-> c.buf]
    /\ c.page \in -1 .. (Pages - 1) /\ c.dirty \in BOOLEAN
    /\ c.dirty <=> c.page # -1
    /\ DOMAIN c.buf = 0 .. (PageCells - 1)

\* The page in the cache is erased there.
LEMMA CoherentErasedCache ==
    ASSUME NEW f, NEW c, NEW m, DOMAIN m \subseteq Nat, Coherent(f, c, m), CacheShape(c),
           NEW pg \in 0 .. (Pages - 1), c.page = pg,
           NEW d, d = [NoCache EXCEPT !.page = pg, !.dirty = TRUE]
    PROVE  Coherent(f, d, Erased(m, pg)) /\ CacheShape(d)
<1>0. DOMAIN NoCache.buf = 0 .. (PageCells - 1) /\ \A i \in 0 .. (PageCells - 1) : NoCache.buf[i] = Blank
  BY DEF NoCache
<1>1. d = [page |-> pg, dirty |-> TRUE, buf |-> NoCache.buf]
  BY DEF NoCache
<1>f. d.page = pg /\ d.dirty = TRUE /\ d.buf = NoCache.buf
  BY <1>1
<1>2. CacheShape(d)
  <2>1. pg # -1 /\ pg \in -1 .. (Pages - 1)
    BY SizeFacts
  <2>2. d = [page |-> d.page, dirty |-> d.dirty, buf |-> d.buf]
    BY <1>1, <1>f
  <2>3. DOMAIN d.buf = 0 .. (PageCells - 1)
    BY <1>0, <1>f
  <2> QED BY <1>f, <2>1, <2>2, <2>3 DEF CacheShape
<1>3. ASSUME NEW a \in DOMAIN m PROVE Read(f, d, a) = Erased(m, pg)[a]
  <2>1. a \in Nat /\ Read(f, c, a) = m[a] /\ pg \in Int
    BY SizeFacts DEF Coherent
  <2>2. a \in InPage(pg) <=> pg = PageOf(a)
    BY <2>1, Place
  <2>3. a % PageCells \in 0 .. (PageCells - 1)
    BY <2>1, Place
  <2>4. CASE PageOf(a) = pg
    <3>1. Read(f, d, a) = d.buf[a % PageCells]
      BY <1>f, <2>4 DEF Read
    <3> QED BY <1>0, <1>f, <2>2, <2>3, <2>4, <3>1 DEF Erased
  <2>5. CASE PageOf(a) # pg
    BY <1>f, <2>1, <2>2, <2>5 DEF Read, Erased
  <2> QED BY <2>4, <2>5
<1>4. DOMAIN Erased(m, pg) = DOMAIN m
  BY DEF Erased
<1> QED BY <1>2, <1>3, <1>4 DEF Coherent

\* Another page is erased in flash.
LEMMA CoherentErasedFlash ==
    ASSUME NEW f, NEW c, NEW m, DOMAIN m \subseteq Nat, DOMAIN m \subseteq DOMAIN f, Coherent(f, c, m),
           NEW pg \in Nat, c.page # pg
    PROVE  Coherent(Erased(f, pg), c, Erased(m, pg))
<1>1. ASSUME NEW a \in DOMAIN m PROVE Read(Erased(f, pg), c, a) = Erased(m, pg)[a]
  <2>1. a \in Nat /\ Read(f, c, a) = m[a] /\ pg \in Int /\ a \in DOMAIN f
    BY DEF Coherent
  <2>2. a \in InPage(pg) <=> pg = PageOf(a)
    BY <2>1, Place
  <2>3. CASE PageOf(a) = pg
    BY <2>1, <2>2, <2>3 DEF Read, Erased
  <2>4. CASE PageOf(a) # pg
    BY <2>1, <2>2, <2>4 DEF Read, Erased
  <2> QED BY <2>3, <2>4
<1>2. DOMAIN Erased(m, pg) = DOMAIN m
  BY DEF Erased
<1> QED BY <1>1, <1>2 DEF Coherent

\* After a flush, flash alone is what the decoder wrote.
LEMMA CoherentFlushed ==
    ASSUME NEW f, NEW c, NEW m, DOMAIN m \subseteq Nat, DOMAIN m \subseteq DOMAIN f, Coherent(f, c, m),
           CacheShape(c)
    PROVE  \A a \in DOMAIN m : (IF c.dirty THEN WithPage(f, c.page, c.buf) ELSE f)[a] = m[a]
<1> SUFFICES ASSUME NEW a \in DOMAIN m
             PROVE  (IF c.dirty THEN WithPage(f, c.page, c.buf) ELSE f)[a] = m[a]
  OBVIOUS
<1>1. a \in Nat /\ Read(f, c, a) = m[a] /\ a \in DOMAIN f /\ c.page \in Int
  BY SizeFacts DEF Coherent, CacheShape
<1>2. a \in InPage(c.page) <=> c.page = PageOf(a)
  BY <1>1, Place
<1>3. CASE c.dirty
  BY <1>1, <1>2, <1>3 DEF Read, WithPage
<1>4. CASE ~c.dirty
  BY <1>1, <1>4 DEF Read
<1> QED BY <1>3, <1>4

\* d is the cache with page pg of flash g, or of the cache c, in it, and v written to cell k.
Entry(c, g, pg, k, v, d) ==
    /\ d = [page |-> pg, dirty |-> TRUE, buf |-> d.buf]
    /\ DOMAIN d.buf = 0 .. (PageCells - 1)
    /\ \A i \in 0 .. (PageCells - 1) :
          d.buf[i] = IF i = k THEN v ELSE IF c.page = pg THEN c.buf[i] ELSE g[pg * PageCells + i]

\* n is m with v at cell b.
Wrote(m, n, b, v) == DOMAIN n = DOMAIN m /\ \A a \in DOMAIN m : n[a] = IF a = b THEN v ELSE m[a]

\* Flash before a page other than the cached one is used.
Evicted(f, c, pg) == IF c.page = pg THEN f ELSE IF c.dirty THEN WithPage(f, c.page, c.buf) ELSE f

LEMMA CacheEntry ==
    ASSUME NEW c, NEW d, NEW g, NEW pg, NEW k \in 0 .. (PageCells - 1), NEW v, CacheShape(c),
           d = [(IF c.page = pg THEN c
                 ELSE [page |-> pg, dirty |-> FALSE,
                       buf |-> [i \in 0 .. (PageCells - 1) |-> g[pg * PageCells + i]]])
                EXCEPT !.dirty = TRUE, !.buf[k] = v]
    PROVE  Entry(c, g, pg, k, v, d)
<1> DEFINE b == IF c.page = pg THEN c.buf ELSE [i \in 0 .. (PageCells - 1) |-> g[pg * PageCells + i]]
<1>1. d = [page |-> pg, dirty |-> TRUE, buf |-> [b EXCEPT ![k] = v]]
  <2>1. CASE c.page = pg
    <3>1. d = [c EXCEPT !.dirty = TRUE, !.buf[k] = v] /\ b = c.buf
      BY <2>1
    <3>2. c = [page |-> pg, dirty |-> c.dirty, buf |-> c.buf]
      BY <2>1 DEF CacheShape
    <3> QED BY <3>1, <3>2
  <2>2. CASE c.page # pg
    BY <2>2
  <2> QED BY <2>1, <2>2
<1>2. DOMAIN b = 0 .. (PageCells - 1)
  BY DEF CacheShape
<1>3. \A i \in 0 .. (PageCells - 1) : b[i] = IF c.page = pg THEN c.buf[i] ELSE g[pg * PageCells + i]
  OBVIOUS
<1> HIDE DEF b
<1>4. d.buf = [b EXCEPT ![k] = v]
  BY <1>1
<1>5. d = [page |-> pg, dirty |-> TRUE, buf |-> d.buf]
  BY <1>1, <1>4
<1>6. DOMAIN d.buf = 0 .. (PageCells - 1) /\ \A i \in 0 .. (PageCells - 1) : d.buf[i] = IF i = k THEN v ELSE b[i]
  BY <1>2, <1>4
<1> QED BY <1>3, <1>5, <1>6 DEF Entry

\* A page that is brought into the cache and one of its cells is written.
LEMMA CoherentWrite ==
    ASSUME NEW f, NEW g, NEW c, NEW d, NEW m, NEW n, NEW pg \in 0 .. (Pages - 1),
           NEW k \in 0 .. (PageCells - 1), NEW v,
           DOMAIN m \subseteq Nat, DOMAIN m \subseteq DOMAIN f, Coherent(f, c, m), CacheShape(c),
           g = Evicted(f, c, pg), Entry(c, g, pg, k, v, d), Wrote(m, n, pg * PageCells + k, v)
    PROVE  Coherent(g, d, n) /\ CacheShape(d) /\ d.page = pg
<1> USE DEF Evicted, Entry, Wrote
<1>3. pg \in Nat /\ pg # -1 /\ pg \in Int /\ pg \in -1 .. (Pages - 1)
  BY SizeFacts
<1>f. d.page = pg /\ d.dirty = TRUE
  OBVIOUS
<1>4. CacheShape(d)
  <2>1. d = [page |-> d.page, dirty |-> d.dirty, buf |-> d.buf]
    BY <1>f
  <2> QED BY <1>f, <1>3, <2>1 DEF CacheShape
<1>7. ASSUME NEW a \in DOMAIN m PROVE Read(g, d, a) = n[a]
  <2>1. a \in Nat /\ Read(f, c, a) = m[a] /\ a \in DOMAIN f /\ c.page \in Int
    BY SizeFacts DEF Coherent, CacheShape
  <2>2. a % PageCells \in 0 .. (PageCells - 1) /\ a = PageOf(a) * PageCells + (a % PageCells)
    BY <2>1, Place
  <2>3. CASE PageOf(a) = pg
    <3>1. Read(g, d, a) = d.buf[a % PageCells]
      BY <1>f, <2>3 DEF Read
    <3>2. a = pg * PageCells + (a % PageCells)
      BY <2>2, <2>3
    <3>3. CASE a % PageCells = k
      BY <2>2, <3>1, <3>2, <3>3
    <3>4. CASE a % PageCells # k
      <4>1. n[a] = m[a]
        <5>1. a # pg * PageCells + k
          BY <1>3, <2>2, <3>2, <3>4, CellOfPage
        <5> QED BY <5>1
      <4>2. d.buf[a % PageCells] = Read(f, c, a)
        <5>1. CASE c.page = pg
          <6>1. c.dirty
            BY <5>1, <1>3 DEF CacheShape
          <6> QED BY <5>1, <6>1, <2>2, <2>3, <3>4 DEF Read
        <5>2. CASE c.page # pg
          <6>1. d.buf[a % PageCells] = g[a]
            BY <2>2, <3>2, <3>4, <5>2
          <6>2. g[a] = f[a]
            <7>1. a \notin InPage(c.page)
              BY <2>1, <2>3, <5>2, Place
            <7> QED BY <2>1, <5>2, <7>1 DEF WithPage
          <6>3. Read(f, c, a) = f[a]
            BY <2>3, <5>2 DEF Read
          <6> QED BY <6>1, <6>2, <6>3
        <5> QED BY <5>1, <5>2
      <4> QED BY <2>1, <3>1, <3>4, <4>1, <4>2
    <3> QED BY <3>3, <3>4
  <2>4. CASE PageOf(a) # pg
    <3>1. Read(g, d, a) = g[a]
      BY <1>f, <2>4 DEF Read
    <3>2. n[a] = m[a]
      <4>1. a # pg * PageCells + k
        BY <1>3, <2>4, CellOfPage
      <4> QED BY <4>1
    <3>3. g[a] = Read(f, c, a)
      <4>1. CASE c.page = pg
        BY <4>1, <2>4 DEF Read
      <4>2. CASE c.page # pg
        <5>1. (IF c.dirty THEN WithPage(f, c.page, c.buf) ELSE f)[a] = m[a]
          BY CoherentFlushed
        <5> QED BY <4>2, <5>1, <2>1
      <4> QED BY <4>1, <4>2
    <3> QED BY <2>1, <3>1, <3>2, <3>3
  <2> QED BY <2>3, <2>4
<1> QED BY <1>4, <1>7, <1>f DEF Coherent

\* What a step of the decoder that goes on finds.
LEMMA DecodeFacts ==
    ASSUME IInv, pc = "decode"
    PROVE  /\ pkg \in DOMAIN Packages /\ Packages[pkg].kind = "delta" /\ run = "ota"
           /\ rec.bank = "invalid" /\ DOMAIN flash = Cells /\ step \in Nat /\ Ops(pkg) \in Nat
           /\ CacheShape(cache) /\ cache.page < Workspace(pkg) /\ Workspace(pkg) \in 0 .. Pages
           /\ DOMAIN mem = 0 .. (Workspace(pkg) * PageCells - 1) /\ Coherent(flash, cache, mem)
           /\ DOMAIN mem \subseteq Nat /\ DOMAIN mem \subseteq DOMAIN flash
           /\ Op(pkg, step).page \in Nat /\ Op(pkg, step).cell \in -1 .. (PageCells - 1)
<1>1. pkg \in DOMAIN Packages /\ Packages[pkg].kind = "delta" /\ run = "ota"
      /\ rec.bank = "invalid" /\ DOMAIN flash = Cells /\ step \in Nat
  BY DEF IInv, ChoiceInv, Choice, Shape, ImageInv, Lost
<1>2. CacheShape(cache) /\ cache.page < Workspace(pkg)
      /\ DOMAIN mem = 0 .. (Workspace(pkg) * PageCells - 1) /\ Coherent(flash, cache, mem)
  BY DEF IInv, CacheInv, CacheShape
<1>3. Workspace(pkg) \in 0 .. Pages
  BY <1>1, WorkspaceFacts
<1>4. Workspace(pkg) * PageCells <= Pages * PageCells /\ Workspace(pkg) * PageCells \in Int
      /\ Pages * PageCells \in Int
  BY <1>3, SizeFacts, Times
<1>5. DOMAIN mem \subseteq Nat /\ DOMAIN mem \subseteq DOMAIN flash
  BY <1>1, <1>2, <1>4 DEF Cells
<1>6. Ops(pkg) \in Nat /\ Op(pkg, step).page \in Nat /\ Op(pkg, step).cell \in -1 .. (PageCells - 1)
  BY <1>1, OpFacts
<1> QED BY <1>1, <1>2, <1>3, <1>5, <1>6

\* A step of the decoder that goes on.
LEMMA DecodeOnInv ==
    ASSUME IInv, pc = "decode", step < Ops(pkg), step' = step + 1, DOMAIN flash' = Cells,
           UNCHANGED <<ext, ram, boot, rec, run, pc, retained, pkg, armed>>,
           CacheShape(cache'), cache'.page < Workspace(pkg), DOMAIN mem' = DOMAIN mem,
           Coherent(flash', cache', mem')
    PROVE  IInv'
<1>1. ram' = ram /\ boot' = boot /\ rec' = rec /\ run' = run /\ pc' = pc /\ pkg' = pkg /\ armed' = armed
      /\ trigger' = trigger /\ source' = source /\ auth' = auth
  BY DEF retained
<1>2. pkg \in DOMAIN Packages /\ Packages[pkg].kind = "delta" /\ run = "ota" /\ rec.bank = "invalid"
      /\ step \in Nat /\ Ops(pkg) \in Nat /\ DOMAIN mem = 0 .. (Workspace(pkg) * PageCells - 1)
  BY DecodeFacts
<1>3. Shape'
  BY <1>1, <1>2 DEF IInv, Shape, Before, Gate
<1>4. Described(rec') /\ AttemptInv'
  BY <1>1 DEF IInv, AttemptInv
<1>5. ImageInv'
  BY <1>1, <1>2 DEF IInv, ImageInv, Lost, Gate, Choice, AttemptInv
<1>6. ChoiceInv'
  BY <1>1, <1>2 DEF IInv, ChoiceInv, Choice, BlUpdate, Ops
<1>7. RoomInv' /\ VerifiedInv'
  BY <1>1 DEF RoomInv, VerifiedInv, BlUpdate
<1>8. HybridInv'
  BY <1>1 DEF IInv, HybridInv
<1>9. Workspace(pkg)' = Workspace(pkg)
  BY <1>1 DEF Workspace, External
<1>10. CacheInv'
  BY <1>1, <1>2, <1>9 DEF CacheInv, CacheShape
<1> QED BY <1>3, <1>4, <1>5, <1>6, <1>7, <1>8, <1>10 DEF IInv

LEMMA DecoderErasesInv ==
    ASSUME IInv, DecoderErases PROVE IInv'
<1> DEFINE pg == Op(pkg, step).page
<1>1. pc = "decode" /\ step < Ops(pkg) /\ step' = step + 1 /\ pg < Workspace(pkg) /\ mem' = Erased(mem, pg)
      /\ UNCHANGED <<ext, ram, boot, rec, run, pc, retained, pkg, armed>>
      /\ IF cache.page = pg
         THEN cache' = [NoCache EXCEPT !.page = pg, !.dirty = TRUE] /\ flash' = flash
         ELSE flash' = Erased(flash, pg) /\ cache' = cache
  BY DEF DecoderErases
<1>2. pg \in Nat /\ pg \in 0 .. (Pages - 1) /\ DOMAIN flash = Cells /\ DOMAIN mem \subseteq Nat
      /\ DOMAIN mem \subseteq DOMAIN flash /\ Coherent(flash, cache, mem) /\ CacheShape(cache)
      /\ cache.page < Workspace(pkg)
  BY <1>1, DecodeFacts, SizeFacts
<1>3. DOMAIN mem' = DOMAIN mem
  BY <1>1 DEF Erased
<1> HIDE DEF pg
<1>4. CASE cache.page = pg
  <2>1. Coherent(flash', cache', mem') /\ CacheShape(cache')
    BY <1>1, <1>2, <1>4, CoherentErasedCache
  <2>2. cache' = [page |-> pg, dirty |-> TRUE, buf |-> NoCache.buf]
    BY <1>1, <1>4 DEF NoCache
  <2>3. cache'.page < Workspace(pkg)
    BY <1>1, <2>2
  <2>4. DOMAIN flash' = Cells
    BY <1>1, <1>2, <1>4
  <2> QED BY <1>1, <1>3, <2>1, <2>3, <2>4, DecodeOnInv
<1>5. CASE cache.page # pg
  <2>1. flash' = Erased(flash, pg) /\ cache' = cache
    BY <1>1, <1>5
  <2>2. Coherent(flash', cache', mem')
    BY <1>1, <1>2, <1>5, <2>1, CoherentErasedFlash
  <2>3. DOMAIN flash' = Cells
    BY <1>2, <2>1 DEF Erased
  <2> QED BY <1>1, <1>2, <1>3, <2>1, <2>2, <2>3, DecodeOnInv
<1> QED BY <1>4, <1>5

LEMMA DecoderWritesInv ==
    ASSUME IInv, DecoderWrites PROVE IInv'
<1> DEFINE o == Op(pkg, step)
           pg == o.page
           k == o.cell
           v == Decoded(pkg, o)
<1>1. pc = "decode" /\ step < Ops(pkg) /\ step' = step + 1 /\ k # -1 /\ pg < Workspace(pkg)
      /\ UNCHANGED <<ext, ram, boot, rec, run, pc, retained, pkg, armed>>
      /\ flash' = (IF cache.page = pg THEN flash ELSE Flushed(flash))
      /\ cache' = [CacheOf(flash', pg) EXCEPT !.dirty = TRUE, !.buf[k] = v]
      /\ mem' = [mem EXCEPT ![pg * PageCells + k] = v]
  BY DEF DecoderWrites
<1>2. pg \in Nat /\ pg \in 0 .. (Pages - 1) /\ k \in 0 .. (PageCells - 1) /\ DOMAIN flash = Cells
      /\ DOMAIN mem \subseteq Nat /\ DOMAIN mem \subseteq DOMAIN flash /\ Coherent(flash, cache, mem)
      /\ CacheShape(cache)
  <2>1. pg \in Nat /\ k \in -1 .. (PageCells - 1) /\ Workspace(pkg) \in 0 .. Pages
    BY <1>1, DecodeFacts
  <2>2. DOMAIN flash = Cells /\ DOMAIN mem \subseteq Nat /\ DOMAIN mem \subseteq DOMAIN flash
        /\ Coherent(flash, cache, mem) /\ CacheShape(cache)
    BY <1>1, DecodeFacts
  <2> HIDE DEF pg, k
  <2> QED BY <1>1, <2>1, <2>2, SizeFacts
<1> HIDE DEF pg, k, v
<1>3. flash' = (IF cache.page = pg THEN flash
                ELSE IF cache.dirty THEN WithPage(flash, cache.page, cache.buf) ELSE flash)
  BY <1>1 DEF Flushed
<1>4. cache' = [(IF cache.page = pg THEN cache
                 ELSE [page |-> pg, dirty |-> FALSE,
                       buf |-> [i \in 0 .. (PageCells - 1) |-> flash'[pg * PageCells + i]]])
                EXCEPT !.dirty = TRUE, !.buf[k] = v]
  BY <1>1 DEF CacheOf
<1>5. Coherent(flash', cache', mem') /\ CacheShape(cache') /\ cache'.page = pg
  <2>1. Wrote(mem, mem', pg * PageCells + k, v)
    BY <1>1 DEF Wrote
  <2>2. Entry(cache, flash', pg, k, v, cache')
    BY <1>2, <1>4, CacheEntry
  <2>3. flash' = Evicted(flash, cache, pg)
    BY <1>3 DEF Evicted
  <2> QED BY <2>1, <2>2, <2>3, <1>2, CoherentWrite
<1>6. DOMAIN flash' = Cells
  BY <1>2, <1>3 DEF WithPage
<1>7. DOMAIN mem' = DOMAIN mem
  BY <1>1
<1> QED BY <1>1, <1>5, <1>6, <1>7, DecodeOnInv

LEMMA DecoderFailsInv ==
    ASSUME IInv, DecoderFails PROVE IInv'
<1>1. pc = "decode" /\ FinishApply("failed") /\ boot' = boot /\ rec' = rec /\ trigger' = trigger
      /\ auth' = auth /\ armed' = armed /\ (flash' = flash \/ \E p : flash' = Tear(flash, p))
  BY DEF DecoderFails
<1>2. DOMAIN flash' = Cells
  BY <1>1 DEF Tear, IInv, Shape
<1>3. rec.bank = "invalid" /\ Described(rec) /\ DOMAIN boot = 0 .. (BootPages * PageCells - 1)
  BY <1>1, DecodeFacts DEF IInv, Shape
<1> QED BY <1>1, <1>2, <1>3, FinishInv

LEMMA DecoderEndsInv ==
    ASSUME IInv, DecoderEnds PROVE IInv'
<1>1. pc = "decode" /\ pc' = "check" /\ cache' = NoCache /\ flash' = Flushed(flash) /\ ram' = ram /\ boot' = boot
      /\ rec' = rec /\ run' = run /\ trigger' = trigger /\ source' = source /\ auth' = auth /\ pkg' = pkg
      /\ step' = step /\ armed' = armed
  BY DEF DecoderEnds, retained
<1>2. pkg \in DOMAIN Packages /\ Packages[pkg].kind = "delta" /\ run = "ota" /\ rec.bank = "invalid"
      /\ step \in Nat /\ DOMAIN flash = Cells
  BY <1>1, DecodeFacts
<1>3. DOMAIN flash' = Cells
  BY <1>1, <1>2 DEF Flushed, WithPage
<1>4. Shape'
  BY <1>1, <1>2, <1>3 DEF IInv, Shape, Before, Gate, Choice
<1>5. Described(rec') /\ AttemptInv'
  BY <1>1 DEF IInv, AttemptInv
<1>6. ImageInv'
  BY <1>1, <1>2 DEF IInv, ImageInv, Lost, Gate, Choice, AttemptInv
<1>7. ChoiceInv'
  BY <1>1, <1>2 DEF ChoiceInv, Choice, BlUpdate
<1>8. RoomInv' /\ VerifiedInv'
  BY <1>1 DEF RoomInv, VerifiedInv, BlUpdate
<1>9. HybridInv'
  BY <1>1 DEF IInv, HybridInv
<1>10. CacheInv'
  BY <1>1, NoCacheFacts DEF CacheInv
<1> QED BY <1>4, <1>5, <1>6, <1>7, <1>8, <1>9, <1>10 DEF IInv

-----------------------------------------------------------------------------
(* The copy of an image, and the end of an update. *)

\* A page of a bootloader is written above the application; a page of an application when
\* there is none.
LEMMA CopyAgree ==
    ASSUME IInv, pc \in {"copy", "blcopy"}, NEW buf,
           flash' = flash \/ flash' = Tear(flash, CopyBase + step) \/ flash' = WithPage(flash, CopyBase + step, buf)
    PROVE  /\ DOMAIN flash' = Cells
           /\ pc = "blcopy" => Agree(flash, flash', Packages[pkg].at) /\ WholeBelow(flash', Packages[pkg].at)
           /\ pc = "copy" => rec.bank = "invalid"
<1>1. pkg \in DOMAIN Packages /\ DOMAIN flash = Cells /\ step \in Nat
  BY DEF IInv, ChoiceInv, Choice, Shape
<1>2. Packages[pkg].at \in Nat /\ Packages[pkg].at <= Pages
  BY <1>1, PackageFacts, SizeFacts
<1>3. DOMAIN flash' = Cells
  BY <1>1 DEF Tear, WithPage
<1>4. pc = "copy" => rec.bank = "invalid"
  BY DEF IInv, ImageInv, Lost
<1>5. ASSUME pc = "blcopy" PROVE Agree(flash, flash', Packages[pkg].at) /\ WholeBelow(flash', Packages[pkg].at)
  <2>1. CopyBase + step \in Nat /\ Packages[pkg].at <= CopyBase + step
    BY <1>1, <1>2, <1>5 DEF CopyBase
  <2>2. Agree(flash, flash', Packages[pkg].at)
    <3>1. CASE flash' = flash
      BY <3>1 DEF Agree
    <3>2. CASE flash' = Tear(flash, CopyBase + step) \/ flash' = WithPage(flash, CopyBase + step, buf)
      BY <1>1, <1>2, <2>1, <3>2, PageOpsAgree
    <3> QED BY <3>1, <3>2
  <2>3. WholeBelow(flash, Packages[pkg].at)
    BY <1>5 DEF IInv, RoomInv, BlUpdate
  <2> QED BY <1>2, <2>2, <2>3, WholeAgree
<1> QED BY <1>3, <1>4, <1>5

LEMMA WholeBelowWhole ==
    ASSUME NEW f, NEW q, WholeBelow(f, q) PROVE Whole(f)
BY DEF WholeBelow, Whole

LEMMA CopyPageInv ==
    ASSUME IInv, CopyPage PROVE IInv'
<1>1. pc \in {"copy", "blcopy"} /\ step < Packages[pkg].size /\ ram' = ram /\ boot' = boot /\ rec' = rec
      /\ trigger' = trigger /\ auth' = auth /\ armed' = armed
  BY DEF CopyPage
<1>2. pkg \in DOMAIN Packages /\ DOMAIN boot = 0 .. (BootPages * PageCells - 1) /\ Described(rec) /\ run = "ota"
      /\ step \in Nat
  BY <1>1 DEF IInv, ChoiceInv, Choice, Shape
<1>3. CASE (flash' = flash \/ flash' = Tear(flash, CopyBase + step)) /\ FinishApply("failed")
  <2>1. DOMAIN flash' = Cells /\ (pc = "copy" => rec.bank = "invalid")
        /\ (pc = "blcopy" => WholeBelow(flash', Packages[pkg].at))
    BY <1>1, <1>3, CopyAgree
  <2>2. Whole(flash') \/ rec'.bank = "invalid"
    BY <1>1, <2>1, WholeBelowWhole
  <2>3. pc # "none"
    BY <1>1
  <2> QED BY <1>1, <1>2, <1>3, <2>1, <2>2, <2>3, FinishInv
<1>4. CASE /\ flash' = WithPage(flash, CopyBase + step, PageRead(pkg, CopyBase + step))
           /\ step' = step + 1
           /\ UNCHANGED <<run, pc, source, pkg, cache, mem>>
  <2>1. run' = run /\ pc' = pc /\ source' = source /\ pkg' = pkg /\ cache' = cache /\ step' \in Nat
    BY <1>2, <1>4
  <2>2. DOMAIN flash' = Cells /\ (pc = "copy" => rec.bank = "invalid")
        /\ (pc = "blcopy" => WholeBelow(flash', Packages[pkg].at) /\ Whole(flash'))
    BY <1>1, <1>4, CopyAgree, WholeBelowWhole
  <2>3. Shape'
    BY <1>1, <1>2, <2>1, <2>2 DEF IInv, Shape, Before, Gate
  <2>4. Described(rec') /\ AttemptInv'
    BY <1>1, <2>1 DEF IInv, AttemptInv
  <2>5. ImageInv'
    BY <1>1, <1>2, <2>1, <2>2 DEF IInv, ImageInv, Lost, Gate, Choice, AttemptInv
  <2>6. ChoiceInv'
    BY <1>1, <2>1 DEF IInv, ChoiceInv, Choice, BlUpdate
  <2>7. RoomInv'
    BY <1>1, <2>1, <2>2 DEF IInv, RoomInv, BlUpdate
  <2>8. VerifiedInv'
    BY <1>1, <2>1 DEF VerifiedInv
  <2>9. HybridInv' /\ CacheInv'
    BY <1>1, <2>1 DEF IInv, HybridInv, CacheInv
  <2> QED BY <2>3, <2>4, <2>5, <2>6, <2>7, <2>8, <2>9 DEF IInv
<1> QED BY <1>3, <1>4 DEF CopyPage

LEMMA CopyEndsInv ==
    ASSUME IInv, CopyEnds PROVE IInv'
<1>1. pc \in {"copy", "blcopy"} /\ pc' = (IF pc = "copy" THEN "check" ELSE "blcheck")
      /\ flash' = flash /\ ram' = ram /\ boot' = boot /\ rec' = rec /\ run' = run
      /\ trigger' = trigger /\ source' = source /\ auth' = auth /\ pkg' = pkg
      /\ step' = step /\ cache' = cache /\ armed' = armed
  BY DEF CopyEnds, flashVars, retained, applier
<1>2. (pc = "copy" /\ pc' = "check") \/ (pc = "blcopy" /\ pc' = "blcheck")
  BY <1>1
<1>3. Shape'
  BY <1>1, <1>2 DEF IInv, Shape, Before, Gate, Choice
<1>4. Described(rec') /\ AttemptInv'
  BY <1>1 DEF IInv, AttemptInv
<1>5. ImageInv'
  BY <1>1, <1>2 DEF IInv, ImageInv, Lost, Gate, Choice, AttemptInv, Shape
<1>6. ChoiceInv'
  BY <1>1, <1>2 DEF IInv, ChoiceInv, Choice, BlUpdate
<1>7. RoomInv' /\ VerifiedInv'
  BY <1>1, <1>2 DEF IInv, RoomInv, VerifiedInv, BlUpdate
<1>8. HybridInv' /\ CacheInv'
  BY <1>1, <1>2 DEF IInv, HybridInv, CacheInv
<1> QED BY <1>3, <1>4, <1>5, <1>6, <1>7, <1>8 DEF IInv

\* A result that has the hash of the package's image is that image.
LEMMA CheckedWhole ==
    ASSUME NEW p \in DOMAIN Packages, Packages[p].kind # "boot", FlashHashValid(0, p)
    PROVE  /\ Whole(flash) /\ Packages[p].size \in 0 .. Pages
           /\ \A a \in 0 .. (Packages[p].size * PageCells - 1) :
                 flash[a] = Img(Packages[p].image, a) /\ Packages[p].image \in DOMAIN ImageSize
<1>1. Packages[p].image \in DOMAIN ImageSize /\ Packages[p].size = ImageSize[Packages[p].image]
  BY PackageFacts
<1>2. \A c \in 0 .. (Packages[p].size * PageCells - 1) : 0 * PageCells + c = c
  BY SizeFacts
<1>3. \A c \in 0 .. (Packages[p].size * PageCells - 1) : flash[c] = Img(Packages[p].image, c)
  BY <1>2 DEF FlashHashValid
<1>4. Whole(flash)
  BY <1>1, <1>3 DEF Whole, Intact, ImageCells
<1>5. Packages[p].size \in 0 .. Pages
  BY <1>1, SizeFacts
<1> QED BY <1>1, <1>3, <1>4, <1>5

LEMMA CheckResultInv ==
    ASSUME IInv, CheckResult PROVE IInv'
<1>1. pc = "check" /\ flash' = flash /\ ram' = ram /\ boot' = boot /\ rec' = rec
      /\ trigger' = trigger /\ auth' = auth /\ armed' = armed
  BY DEF CheckResult, flashVars
<1>2. pkg \in DOMAIN Packages /\ Packages[pkg].kind # "boot" /\ rec.bank = "invalid" /\ run = "ota"
      /\ DOMAIN flash = Cells /\ DOMAIN boot = 0 .. (BootPages * PageCells - 1) /\ Described(rec)
  BY <1>1 DEF IInv, ChoiceInv, Choice, Shape, ImageInv, Lost
<1>3. CASE ~FlashHashValid(0, pkg)
  <2>1. FinishApply("failed")
    BY <1>3 DEF CheckResult
  <2> QED BY <1>1, <1>2, <2>1, FinishInv
<1>4. CASE FlashHashValid(0, pkg)
  <2>1. pc' = "mark" /\ run' = run /\ source' = source /\ pkg' = pkg /\ step' = step /\ cache' = cache
    BY <1>4 DEF CheckResult, applier
  <2>2. Whole(flash)
    BY <1>2, <1>4, CheckedWhole
  <2>3. Shape'
    BY <1>1, <2>1 DEF IInv, Shape, Before, Gate, Choice
  <2>4. Described(rec') /\ AttemptInv'
    BY <1>1, <2>1 DEF IInv, AttemptInv
  <2>5. ImageInv'
    BY <1>1, <1>2, <2>1, <2>2 DEF ImageInv, Lost
  <2>6. ChoiceInv'
    BY <1>2, <2>1 DEF ChoiceInv, Choice, BlUpdate
  <2>7. RoomInv' /\ VerifiedInv'
    BY <1>1, <1>4, <2>1 DEF RoomInv, VerifiedInv, BlUpdate, FlashHashValid
  <2>8. HybridInv' /\ CacheInv'
    BY <1>1, <2>1 DEF IInv, HybridInv, CacheInv
  <2> QED BY <2>3, <2>4, <2>5, <2>6, <2>7, <2>8 DEF IInv
<1> QED BY <1>3, <1>4

LEMMA MarkValidInv ==
    ASSUME IInv, MarkValid PROVE IInv'
<1>1. pc = "mark" /\ rec' = Record("valid", FirstCells(flash, Packages[pkg].size)) /\ FinishApply("applied")
      /\ flash' = flash /\ boot' = boot /\ trigger' = trigger /\ auth' = auth /\ armed' = armed
  BY DEF MarkValid
<1>2. pkg \in DOMAIN Packages /\ Packages[pkg].kind # "boot" /\ FlashHashValid(0, pkg)
      /\ DOMAIN flash = Cells /\ DOMAIN boot = 0 .. (BootPages * PageCells - 1)
  BY <1>1 DEF IInv, ChoiceInv, Choice, Shape, VerifiedInv
<1>3. Whole(flash) /\ Packages[pkg].size \in 0 .. Pages
      /\ \A a \in 0 .. (Packages[pkg].size * PageCells - 1) : \E i \in DOMAIN ImageSize : flash[a] = Img(i, a)
  BY <1>2, CheckedWhole
<1>4. Described(rec')
  BY <1>1, <1>3, FirstDescribed
<1> QED BY <1>1, <1>2, <1>3, <1>4, FinishInv

LEMMA BlInstallInv ==
    ASSUME IInv, BlInstall PROVE IInv'
<1>1. pc = "blcheck" /\ flash' = flash /\ rec' = rec /\ trigger' = trigger /\ auth' = auth /\ armed' = armed
      /\ (FinishApply("applied") \/ FinishApply("failed")) /\ DOMAIN boot' = DOMAIN boot
  BY DEF BlInstall
<1>2. Whole(flash) /\ DOMAIN flash = Cells /\ DOMAIN boot = 0 .. (BootPages * PageCells - 1) /\ Described(rec)
  BY <1>1, WholeBelowWhole DEF IInv, RoomInv, BlUpdate, Shape
<1>3. PICK code \in {"failed", "applied"} : FinishApply(code)
  BY <1>1
<1> QED BY <1>1, <1>2, <1>3, FinishInv

-----------------------------------------------------------------------------
(* Loss of power. *)

\* What it can do to flash and to the record.
LEMMA PowerLossFlash ==
    ASSUME IInv, PowerLoss
    PROVE  /\ DOMAIN flash' = Cells /\ Described(rec')
           /\ Whole(flash') \/ rec'.bank = "invalid"
           /\ trigger # "none" => Whole(flash')
           /\ pc \in BlUpdate \/ (pc \in {"reject", "clear"} /\ ~External) => Agree(flash, flash', Packages[pkg].at)
           /\ pc \notin BlUpdate \cup Lost /\ (pc \in {"reject", "clear"} => External) => flash' = flash
           /\ pc \notin {"commit", "mark"} => rec' = rec
<1>1. DOMAIN flash = Cells /\ Described(rec) /\ (pc \in Choice => pkg \in DOMAIN Packages) /\ step \in Nat
  BY DEF IInv, Shape, ChoiceInv
<1>2. CASE UNCHANGED <<flash, rec>>
  BY <1>1, <1>2 DEF IInv, ImageInv, Agree, Lost
<1>3. CASE pc \in {"commit", "mark"} /\ flash' = flash /\ rec' \in {Record("none", NoImage), Record("invalid", NoImage)}
  <2>1. Described(rec')
    BY <1>3, EmptyDescribed
  <2>2. Whole(flash)
    BY <1>3 DEF IInv, ImageInv, Choice, Lost
  <2> QED BY <1>1, <1>3, <2>1, <2>2 DEF Agree
<1>4. ASSUME NEW p \in AtRisk, flash' = Tear(flash, p), rec' = rec
      PROVE  /\ DOMAIN flash' = Cells /\ Described(rec')
             /\ Whole(flash') \/ rec'.bank = "invalid"
             /\ trigger # "none" => Whole(flash')
             /\ pc \in BlUpdate \/ (pc \in {"reject", "clear"} /\ ~External) => Agree(flash, flash', Packages[pkg].at)
             /\ pc \notin BlUpdate \cup Lost /\ (pc \in {"reject", "clear"} => External) => flash' = flash
             /\ pc \notin {"commit", "mark"} => rec' = rec
  <2>1. DOMAIN flash' = Cells
    BY <1>1, <1>4 DEF Tear
  <2>2. CASE pc \in {"reject", "clear", "blclear"} /\ ~External
    <3>1. AtRisk = {Packages[pkg].at}
      BY <2>2, Zenon DEF AtRisk
    <3>3. Packages[pkg].at \in Nat /\ Packages[pkg].at <= Pages /\ Whole(flash)
      BY <1>1, <2>2, PackageFacts, SizeFacts DEF Choice, IInv, ImageInv, Lost
    <3>4. Agree(flash, flash', Packages[pkg].at)
      BY <1>1, <1>4, <3>1, <3>3, PageOpsAgree
    <3>5. flash[Packages[pkg].at * PageCells] \in HeaderOf(pkg)
      BY <2>2 DEF IInv, RoomInv, HybridBase
    <3>6. WholeBelow(flash, Packages[pkg].at)
      BY <3>3, <3>5, ImageBelowHeader DEF Whole, WholeBelow
    <3>7. Whole(flash')
      BY <3>3, <3>4, <3>6, WholeAgree
    <3> QED BY <1>1, <1>4, <2>1, <2>2, <3>4, <3>7 DEF BlUpdate, Lost
  <2>3. CASE pc = "decode" \/ pc = "copy"
    <3>1. rec.bank = "invalid" /\ trigger = "none"
      BY <2>3 DEF IInv, ImageInv, Lost, AttemptInv, Shape
    <3> QED BY <1>1, <1>4, <2>1, <2>3, <3>1 DEF BlUpdate, Lost
  <2>4. CASE pc = "blcopy" /\ step < Packages[pkg].size
    <3>1. AtRisk = {CopyBase + step}
      BY <2>4, Zenon DEF AtRisk
    <3>2. flash' = Tear(flash, CopyBase + step)
      BY <1>4, <3>1
    <3>3. Agree(flash, flash', Packages[pkg].at) /\ WholeBelow(flash', Packages[pkg].at)
      BY <2>4, <3>2, CopyAgree
    <3> QED BY <1>1, <1>4, <2>1, <2>4, <3>3, WholeBelowWhole DEF BlUpdate
  <2>5. CASE ~(pc \in {"reject", "clear", "blclear"} /\ ~External) /\ pc # "decode" /\ pc # "copy"
             /\ ~(pc = "blcopy" /\ step < Packages[pkg].size)
    <3>1. AtRisk = {}
      BY <2>5, Zenon DEF AtRisk
    <3> QED BY <1>4, <3>1
  <2> QED BY <2>2, <2>3, <2>4, <2>5
<1> QED BY <1>2, <1>3, <1>4 DEF PowerLoss

LEMMA PowerLossInv ==
    ASSUME IInv, PowerLoss PROVE IInv'
<1>1. run' = "boot" /\ pc' = "none" /\ pkg' = "none" /\ step' = 0 /\ cache' = NoCache /\ boot' = boot /\ armed' = armed
      /\ ram' \in {ram, [k \in DOMAIN ram |-> Torn]} /\ trigger' \in {trigger, "none"} /\ auth' \in {auth, "none"}
      /\ source' = (IF trigger' = "none" THEN "none" ELSE source)
  BY DEF PowerLoss, Forgotten
<1>2. DOMAIN flash' = Cells /\ Described(rec') /\ (Whole(flash') \/ rec'.bank = "invalid")
      /\ (trigger # "none" => Whole(flash'))
  BY PowerLossFlash
<1>3. auth \in DOMAIN Packages \cup {"none"} /\ trigger \in {"none", "app", "boot"}
      /\ DOMAIN boot = 0 .. (BootPages * PageCells - 1)
  BY DEF IInv, Shape
<1>4. AttemptInv'
  BY <1>1 DEF IInv, AttemptInv
<1>5. DOMAIN ram' = DOMAIN ram
  BY <1>1
<1>6. source' = "hybrid" /\ trigger' # "none" /\ auth' # "none" => DOMAIN ram' = RamCells(auth')
  BY <1>1, <1>5 DEF IInv, HybridInv
<1>7. auth' \in DOMAIN Packages \cup {"none"} /\ trigger' \in {"none", "app", "boot"}
      /\ (trigger' # "none" => Whole(flash'))
  BY <1>1, <1>2, <1>3
<1> QED BY <1>1, <1>2, <1>3, <1>4, <1>6, <1>7, NoCacheFacts, IdleInv

-----------------------------------------------------------------------------
(* The theorems. *)

LEMMA Boarded == Boards \subseteq SUBSET DOMAIN Packages
BY OtaConstants

\* The packages of a board are packages; the board never changes.
BoardInv == board \subseteq DOMAIN Packages

LEMMA NextInv == IInv /\ BoardInv /\ [Next]_vars => IInv' /\ BoardInv'
<1> SUFFICES ASSUME IInv, BoardInv, [Next]_vars PROVE IInv' /\ BoardInv'
  OBVIOUS
<1>1. CASE UNCHANGED vars
  <2>1. flash' = flash /\ ext' = ext /\ ram' = ram /\ boot' = boot /\ rec' = rec /\ run' = run /\ pc' = pc
        /\ trigger' = trigger /\ source' = source /\ auth' = auth /\ soft' = soft /\ pkg' = pkg /\ step' = step
        /\ cache' = cache /\ mem' = mem /\ armed' = armed /\ board' = board
    BY <1>1 DEF vars, flashVars, retained, applier
  <2>2. Shape' /\ Described(rec') /\ AttemptInv' /\ ImageInv'
    BY <2>1 DEF IInv, Shape, AttemptInv, ImageInv
  <2>3. ChoiceInv'
    BY <2>1 DEF IInv, ChoiceInv
  <2>4. External' <=> External
    BY <2>1 DEF External
  <2>5. RoomInv' /\ HybridInv'
    BY <2>1, <2>4 DEF IInv, RoomInv, HybridInv
  <2>6. Workspace(pkg)' = Workspace(pkg)
    BY <2>1, <2>4 DEF Workspace
  <2>7. \A k : Staged(pkg, k)' = Staged(pkg, k)
    BY <2>1, Zenon DEF Staged, PrefixCells, HybridBase
  <2>8. VerifiedInv'
    BY <2>1, <2>4, <2>6, <2>7 DEF IInv, VerifiedInv, GeometryOk, PayloadGood, FlashHashValid
  <2>9. CacheInv'
    BY <2>1, <2>6 DEF IInv, CacheInv
  <2>10. BoardInv'
    BY <2>1 DEF BoardInv
  <2> QED BY <2>2, <2>3, <2>5, <2>8, <2>9, <2>10 DEF IInv
<1>2. CASE Next
  <2>1. BoardInv'
    BY <1>2 DEF Next, BoardInv
  <2>2. ASSUME NEW p \in board, AppStages(p) PROVE IInv'
    BY <2>2, AppStagesInv DEF BoardInv
  <2>3. CASE BootApp \/ BootDfu \/ LeaveDfu \/ CardChanges
    BY <2>1, <2>3, BootAppInv, BootDfuInv, LeaveDfuInv, CardChangesInv
  <2>4. CASE OtaBegin
    BY <2>1, <2>4, OtaBeginInv
  <2>5. CASE GateFails \/ GateRejects \/ GatePasses \/ Reject \/ Clear \/ Commit
    BY <2>1, <2>5, GateFailsInv, GateRejectsInv, GatePassesInv, RejectInv, ClearInv, CommitInv
  <2>6. CASE DecoderErases \/ DecoderWrites \/ DecoderFails \/ DecoderEnds
    BY <2>1, <2>6, DecoderErasesInv, DecoderWritesInv, DecoderFailsInv, DecoderEndsInv
  <2>7. CASE CopyPage \/ CopyEnds \/ CheckResult \/ MarkValid
    BY <2>1, <2>7, CopyPageInv, CopyEndsInv, CheckResultInv, MarkValidInv
  <2>8. CASE BlGateFails \/ BlGateRejects \/ BlGatePasses \/ BlInstall
    BY <2>1, <2>8, GateFailsInv, GateRejectsInv, BlGatePassesInv, BlInstallInv
  <2>9. CASE PowerLoss
    BY <2>1, <2>9, PowerLossInv
  <2> QED BY <1>2, <2>1, <2>2, <2>3, <2>4, <2>5, <2>6, <2>7, <2>8, <2>9 DEF Next, Applier
<1> QED BY <1>1, <1>2

\* The invariant holds in every state of every behaviour of the applier.
THEOREM Invariance == Spec => [](IInv /\ BoardInv)
<1>1. Init => IInv /\ BoardInv
  BY InitInv, Boarded DEF Init, BoardInv
<1> QED BY <1>1, NextInv, PTL DEF Spec

\* Every variable keeps its type, and the decoder makes no more operations than its
\* package has.
THEOREM TypeCorrect == Spec => []TypeOK
<1>1. IInv => TypeOK
  <2> SUFFICES ASSUME IInv PROVE TypeOK
    OBVIOUS
  <2>1. (run = "ota") = (pc # "none")
    BY DEF IInv, Shape
  <2>2. rec.bank \in {"valid", "invalid", "none"}
    BY DEF IInv, Described
  <2>3. cache.page \in -1 .. (Pages - 1) /\ cache.dirty \in BOOLEAN
    BY DEF IInv, CacheInv
  <2>4. pc = "decode" => step <= Ops(pkg)
    BY DEF IInv, ChoiceInv
  <2> QED BY <2>1, <2>2, <2>3, <2>4 DEF IInv, Shape, TypeOK
<1> QED BY <1>1, Invariance, PTL

\* Whatever was cut, refused or failed before, the application that is started is one
\* whole image (bootloader_app_is_valid after ota_delta_check_and_apply).
THEOREM AlwaysStartsWholeImage == Spec => []StartsWholeImage
<1>1. IInv => StartsWholeImage
  BY DEF IInv, ImageInv, StartsWholeImage, Whole
<1> QED BY <1>1, Invariance, PTL

\* Through the write-back cache the decoder always reads what it last wrote (cread, cwrite,
\* cerase, cache_flush).
THEOREM CacheIsTransparent == Spec => []DecoderReadsItsWrites
<1>1. IInv => DecoderReadsItsWrites
  BY DEF IInv, CacheInv, DecoderReadsItsWrites, Coherent, Read, cread
<1> QED BY <1>1, Invariance, PTL

\* An attempt begins only if the application has asked for it since the last one, whatever
\* resets come in between (ota_delta_check_and_apply consumes the trigger first).
THEOREM NeverRepeated == Spec => OneAttempt
<1>1. IInv /\ [Next]_vars => [run # "ota" /\ run' = "ota" => armed]_vars
  <2> SUFFICES ASSUME IInv, Next, run # "ota", run' = "ota" PROVE armed
    OBVIOUS
  <2>1. pc = "none" /\ (trigger # "none" => armed)
    BY DEF IInv, Shape, AttemptInv
  <2>2. ~Applier
    BY <2>1 DEF Applier, GateFails, GateRejects, GatePasses, Reject, Clear, Commit, DecoderErases, DecoderWrites,
       DecoderFails, DecoderEnds, CopyPage, CopyEnds, CheckResult, MarkValid, BlGateFails, BlGateRejects,
       BlGatePasses, BlInstall
  <2>3. OtaBegin
    BY <2>2 DEF Next, AppStages, BootApp, BootDfu, LeaveDfu, CardChanges, PowerLoss
  <2> QED BY <2>1, <2>3 DEF OtaBegin
<1> QED BY <1>1, Invariance, PTL DEF Spec, OneAttempt

\* Whatever happens to the package, to the scratch area or to power, the bootloader is one
\* whole image (apply_bootloader_update).
THEOREM BootloaderAlwaysWhole == Spec => []BootloaderWhole
<1>1. Init => BootloaderWhole
  BY DEF Init, BootloaderWhole
<1>2. IInv /\ BootloaderWhole /\ [Next]_vars => BootloaderWhole'
  <2> SUFFICES ASSUME IInv, BootloaderWhole, [Next]_vars PROVE BootloaderWhole'
    OBVIOUS
  <2>1. CASE boot' = boot
    BY <2>1 DEF BootloaderWhole
  <2>2. CASE BlInstall /\ boot' # boot
    <3>1. pc = "blcheck" /\ FlashHashValid(Packages[pkg].at, pkg)
          /\ boot' = [c \in DOMAIN boot |-> flash[HybridBase(pkg) + c]]
      BY <2>2 DEF BlInstall
    <3>2. pkg \in DOMAIN Packages /\ Packages[pkg].kind = "boot"
          /\ DOMAIN boot = 0 .. (BootPages * PageCells - 1)
      BY <3>1 DEF IInv, ChoiceInv, Choice, BlUpdate, Shape
    <3>3. Packages[pkg].size = BootPages
      BY <3>2, PackageFacts
    <3>4. \A c \in DOMAIN boot' : boot'[c] = Img(Packages[pkg].image, c)
      BY <3>1, <3>2, <3>3 DEF FlashHashValid, HybridBase
    <3> QED BY <3>2, <3>4 DEF BootloaderWhole
  <2>3. boot' = boot \/ BlInstall
    BY DEF Next, vars, flashVars, AppStages, BootApp, BootDfu, LeaveDfu, CardChanges, OtaBegin, PowerLoss,
       Applier, GateFails, GateRejects, GatePasses, Reject, Clear, Commit, DecoderErases, DecoderWrites,
       DecoderFails, DecoderEnds, CopyPage, CopyEnds, CheckResult, MarkValid, BlGateFails, BlGateRejects,
       BlGatePasses
  <2> QED BY <2>1, <2>2, <2>3
<1> QED BY <1>1, <1>2, Invariance, PTL DEF Spec

\* A step of the decoder never changes the package it decodes: the workspace, the page in
\* the cache included, stays below it (dt_geometry_ok, cwrite, cerase).
THEOREM PackageNeverTouched == Spec => PackageUntouched
<1>1. IInv /\ [Next]_vars =>
        [pc = "decode" /\ pc' # "none" /\ source \in {"internal", "hybrid"} =>
            \A a \in Cells : a >= Packages[pkg].at * PageCells => flash'[a] = flash[a]]_vars
  <2> SUFFICES ASSUME IInv, Next, pc = "decode", pc' # "none", source \in {"internal", "hybrid"},
                      NEW a \in Cells, a >= Packages[pkg].at * PageCells
               PROVE  flash'[a] = flash[a]
    OBVIOUS
  <2>1. pkg \in DOMAIN Packages /\ run = "ota" /\ DOMAIN flash = Cells /\ CacheShape(cache)
        /\ cache.page < Workspace(pkg) /\ Op(pkg, step).page \in Nat
    BY DecodeFacts
  <2>2. Workspace(pkg) = Packages[pkg].at /\ Packages[pkg].at \in Nat /\ cache.page \in Int
    BY <2>1, PackageFacts, SizeFacts DEF Workspace, External, CacheShape
  <2>3. ASSUME NEW p \in Int, p < Packages[pkg].at PROVE a \notin InPage(p)
    <3>1. (p + 1) * PageCells <= Packages[pkg].at * PageCells /\ (p + 1) * PageCells = p * PageCells + PageCells
          /\ p * PageCells \in Int /\ Packages[pkg].at * PageCells \in Int
      BY <2>2, <2>3, Times
    <3>2. PageCells \in Nat /\ Pages * PageCells \in Int /\ a \in Int
      BY SizeFacts, Times DEF Cells
    <3> QED BY <3>1, <3>2 DEF InPage
  <2>4. Flushed(flash)[a] = flash[a]
    BY <2>1, <2>2, <2>3 DEF Flushed, WithPage
  <2>5. CASE DecoderErases
    <3>1. flash' = flash \/ flash' = Erased(flash, Op(pkg, step).page)
      BY <2>5 DEF DecoderErases
    <3>2. Op(pkg, step).page < Workspace(pkg)
      BY <2>5 DEF DecoderErases
    <3>3. a \notin InPage(Op(pkg, step).page)
      BY <2>1, <2>2, <2>3, <3>2
    <3> QED BY <2>1, <3>1, <3>3 DEF Erased
  <2>6. CASE DecoderWrites \/ DecoderEnds
    BY <2>4, <2>6 DEF DecoderWrites, DecoderEnds
  <2>7. DecoderErases \/ DecoderWrites \/ DecoderEnds \/ flash' = flash
    BY <2>1 DEF Next, AppStages, BootApp, BootDfu, LeaveDfu, CardChanges, OtaBegin, PowerLoss, FinishApply,
       Applier, GateFails, GateRejects, GatePasses, Reject, Clear, Commit,
       DecoderFails, CopyPage, CopyEnds, CheckResult, MarkValid, BlGateFails, BlGateRejects,
       BlGatePasses, BlInstall
  <2> QED BY <2>5, <2>6, <2>7
<1> QED BY <1>1, Invariance, PTL DEF Spec, PackageUntouched

\* While an approval is cleared in flash, and while a bootloader is installed, a valid
\* application stays valid if flash changes only from the package up.
LEMMA ValidAbove ==
    ASSUME IInv, pc \in BlUpdate \/ (pc \in {"reject", "clear"} /\ ~External),
           Agree(flash, flash', Packages[pkg].at), AppValid(flash, rec)
    PROVE  AppValid(flash', rec)
<1>1. pkg \in DOMAIN Packages
  BY DEF IInv, ChoiceInv, Choice, BlUpdate
<1>2. Packages[pkg].at \in Nat
  BY <1>1, PackageFacts, SizeFacts
<1>3. CASE pc \in BlUpdate
  <2>1. WholeBelow(flash, Packages[pkg].at)
        /\ (rec.bank = "valid" => DOMAIN rec.img \subseteq 0 .. (Packages[pkg].at * PageCells - 1))
    BY <1>3 DEF IInv, RoomInv
  <2>2. Packages[pkg].at \in Nat \ {0}
    BY <1>2, <2>1, SizeFacts DEF WholeBelow
  <2> QED BY <2>1, <2>2, ValidAgree
<1>4. CASE pc \in {"reject", "clear"} /\ ~External
  <2>1. flash[Packages[pkg].at * PageCells] \in HeaderOf(pkg) /\ Whole(flash) /\ Described(rec)
    BY <1>4 DEF IInv, RoomInv, HybridBase, ImageInv, Choice, Lost
  <2>2. rec.bank = "valid" => DOMAIN rec.img \subseteq 0 .. (Packages[pkg].at * PageCells - 1)
    BY <1>2, <2>1, RecordBelowHeader DEF AppValid
  <2>3. PICK i \in DOMAIN ImageSize : Intact(i, flash)
    BY <2>1 DEF Whole
  <2>4. ImageSize[i] <= Packages[pkg].at
    BY <1>2, <2>1, <2>3, ImageBelowHeader
  <2>5. Packages[pkg].at \in Nat \ {0}
    BY <1>2, <2>4, SizeFacts
  <2> QED BY <2>2, <2>5, ValidAgree
<1> QED BY <1>3, <1>4

\* The applier takes a valid application away at one point only, the commit of a package
\* whose approval is consumed and that passed every check: all that fails, or is cut,
\* before it leaves what runs bootable (ota_delta_check_and_apply, apply_full_external,
\* apply_bootloader_update).
THEOREM GivesUpOnlyAtCommit == Spec => GivesUpAppForGoodPackage
<1>1. IInv /\ [Next]_vars =>
        [run = "ota" /\ AppValid(flash, rec) /\ ~AppValid(flash', rec') =>
             LET m == Packages[pkg] IN
             /\ pc = "commit"
             /\ source = "sd" \/ Staged(pkg, 0) = Header(pkg, FALSE)
             /\ m.kind = "delta" => Intact(m.base, flash)
             /\ m.kind = "full" => source = "sd" \/ PayloadGood(pkg)
             /\ source = "hybrid" => \A k \in DOMAIN ram : ram[k] = Content(pkg, k)]_vars
  <2> SUFFICES ASSUME IInv, Next, run = "ota", AppValid(flash, rec), ~AppValid(flash', rec')
               PROVE  LET m == Packages[pkg] IN
                      /\ pc = "commit"
                      /\ source = "sd" \/ Staged(pkg, 0) = Header(pkg, FALSE)
                      /\ m.kind = "delta" => Intact(m.base, flash)
                      /\ m.kind = "full" => source = "sd" \/ PayloadGood(pkg)
                      /\ source = "hybrid" => \A k \in DOMAIN ram : ram[k] = Content(pkg, k)
    OBVIOUS
  <2>1. pc \notin Lost
    <3>1. rec.bank # "invalid"
      BY DEF AppValid
    <3> QED BY <3>1 DEF IInv, ImageInv
  <2>2. SUFFICES ASSUME pc # "commit" PROVE FALSE
    BY DEF IInv, VerifiedInv
  <2>3. ~(flash' = flash /\ rec' = rec)
    OBVIOUS
  <2>4. CASE Reject \/ Clear
    <3>1. pc \in {"reject", "clear", "blclear"} /\ (ClearApproval \/ ClearFails) /\ rec' = rec
      BY <2>4 DEF Reject, Clear
    <3>2. Agree(flash, flash', Packages[pkg].at) /\ (External => flash' = flash)
      BY <3>1, ClearAgree
    <3>3. AppValid(flash', rec)
      BY <2>3, <3>1, <3>2, ValidAbove DEF BlUpdate
    <3> QED BY <3>1, <3>3
  <2>5. CASE CopyPage
    <3>1. pc = "blcopy" /\ rec' = rec
      BY <2>1, <2>5 DEF CopyPage, Lost
    <3>2. flash' = flash \/ flash' = Tear(flash, CopyBase + step)
          \/ flash' = WithPage(flash, CopyBase + step, PageRead(pkg, CopyBase + step))
      BY <2>5 DEF CopyPage
    <3>3. Agree(flash, flash', Packages[pkg].at)
      BY <3>1, <3>2, CopyAgree
    <3> QED BY <3>1, <3>3, ValidAbove DEF BlUpdate
  <2>6. CASE PowerLoss
    <3>1. rec' = rec
      BY <2>1, <2>2, <2>6, PowerLossFlash DEF Lost
    <3>2. CASE pc \in BlUpdate \/ (pc \in {"reject", "clear"} /\ ~External)
      <4>1. Agree(flash, flash', Packages[pkg].at)
        BY <2>6, <3>2, PowerLossFlash
      <4> QED BY <3>1, <3>2, <4>1, ValidAbove
    <3>3. CASE ~(pc \in BlUpdate \/ (pc \in {"reject", "clear"} /\ ~External))
      <4>1. pc \notin BlUpdate \cup Lost /\ (pc \in {"reject", "clear"} => External)
        BY <2>1, <3>3
      <4>2. flash' = flash
        BY <2>6, <4>1, PowerLossFlash
      <4> QED BY <2>3, <3>1, <4>2
    <3> QED BY <3>2, <3>3
  <2>7. Reject \/ Clear \/ CopyPage \/ PowerLoss \/ (flash' = flash /\ rec' = rec)
    BY <2>1, <2>2 DEF Lost, Next, AppStages, BootApp, BootDfu, LeaveDfu, CardChanges, OtaBegin, flashVars,
       Applier, GateFails, GateRejects, GatePasses, Commit, DecoderErases, DecoderWrites, DecoderEnds,
       DecoderFails, CopyEnds, CheckResult, MarkValid, BlGateFails, BlGateRejects, BlGatePasses, BlInstall
  <2> QED BY <2>3, <2>4, <2>5, <2>6, <2>7
<1> QED BY <1>1, Invariance, PTL DEF Spec, GivesUpAppForGoodPackage

-----------------------------------------------------------------------------
(* The inductive invariant. *)

Pending == trigger # "none" \/ pc \in Gate

\* A container as it was staged.
Container(p, e) ==
    /\ DOMAIN e = 0 .. (Packages[p].cells - 1)
    /\ \A k \in 0 .. (Packages[p].cells - 1) : e[k] = Content(p, k)

\* A package in flash whose header and trailer are in place is whole.
Findable(f) ==
    \A p \in DOMAIN Packages :
       /\ Packages[p].kind = "delta" /\ Packages[p].src = "internal" /\ Aligned(p)
       /\ f[HybridBase(p)] \in HeaderOf(p)
       /\ f[HybridBase(p) + (Packages[p].cells - 1)] = Content(p, Packages[p].cells - 1)
       => \A k \in 1 .. (Packages[p].cells - 1) : f[HybridBase(p) + k] = Content(p, k)

StagingOk(s, e, f) ==
    /\ s = "qspi" => \E p \in DOMAIN Packages : Container(p, e)
    /\ s \notin {"hybrid", "qspi", "sd"} => Findable(f)
StagingInv == Pending => StagingOk(source, ext, flash)

\* A read of cell k of package p, the payload as it was signed, what is left to copy of an
\* image, and what is copied.
Fetch(s, e, r, f, p, k) ==
    IF s \in {"qspi", "sd"} THEN IF k \in DOMAIN e THEN e[k] ELSE Torn
    ELSE IF s = "hybrid"
    THEN IF k < PrefixCells(p) THEN f[HybridBase(p) + k] ELSE IF k \in DOMAIN r THEN r[k] ELSE Torn
    ELSE f[HybridBase(p) + k]
SignedPayload(s, e, r, f, p) ==
    \A k \in 1 .. (Packages[p].cells - 1) : Fetch(s, e, r, f, p, k) = Content(p, k)
LeftToCopy(s, e, r, f, p, n) ==
    \A k \in 1 .. (Packages[p].cells - 1) :
        1 + n * PageCells <= k => Fetch(s, e, r, f, p, k) = Img(Packages[p].image, k - 1)
Copied(f, p, page, n) ==
    \A q \in 0 .. (n - 1), i \in 0 .. (PageCells - 1) :
        f[(page + q) * PageCells + i] = Img(Packages[p].image, q * PageCells + i)

\* The workspace has room for the base that is moved and for the image.
Roomy(p, w) ==
    /\ ImageSize[Packages[p].base] \in Nat \ {0} /\ Packages[p].shift \in Nat \ {0}
    /\ Packages[p].size \in Nat
    /\ ImageSize[Packages[p].base] + Packages[p].shift <= w /\ Packages[p].size <= w
Room(s, p) == IF s \in {"qspi", "sd"} THEN Pages ELSE Packages[p].at

CopyFrom(c, p) == IF c = "copy" THEN 0 ELSE Packages[p].at

PayloadOk(c, s, e, r, f, p, n) ==
    /\ c \in {"clear", "commit", "decode", "blclear", "blcopy"} /\ s \notin {"hybrid", "qspi", "sd"} =>
          Packages[p].src = "internal"
    /\ c \in {"clear", "commit", "decode"} /\ Packages[p].kind = "delta" /\ s # "sd" =>
          SignedPayload(s, e, r, f, p)
    /\ c = "decode" /\ Packages[p].shift # 0 => Roomy(p, Room(s, p))
    /\ c = "blclear" /\ s # "sd" => LeftToCopy(s, e, r, f, p, 0)
    /\ c \in BlUpdate => s # "hybrid"
    /\ c = "copy" => s \in {"qspi", "sd"}
    /\ c \in {"copy", "blcopy"} => n <= Packages[p].size
    /\ c \in {"copy", "blcopy"} /\ s # "sd" =>
          LeftToCopy(s, e, r, f, p, n) /\ Copied(f, p, CopyFrom(c, p), n)

\* The cell of the base that is at page q, cell i of it; the decoder moves the pages of the
\* base up, the last one first: s of them are moved, and c cells of the next.
Moving(p, m, s, c) ==
    LET b == Packages[p].base
        n == ImageSize[b]
    IN \A q \in 0 .. (n - 1), i \in 0 .. (PageCells - 1) :
          /\ q < n - s => m[q * PageCells + i] = Img(b, q * PageCells + i)
          /\ q >= n - s \/ (q = n - s - 1 /\ i < c) =>
                m[(q + Packages[p].shift) * PageCells + i] = Img(b, q * PageCells + i)

\* Then it makes the pages of the new image, the first one first: s of them are made, and c
\* cells of the next.
Making(p, m, s, c) ==
    LET b == Packages[p].base
    IN /\ \A q \in 0 .. (ImageSize[b] - 1), i \in 0 .. (PageCells - 1) :
             q >= s => m[(q + Packages[p].shift) * PageCells + i] = Img(b, q * PageCells + i)
       /\ \A q \in 0 .. (Packages[p].size - 1), i \in 0 .. (PageCells - 1) :
             q < s \/ (q = s /\ i < c) =>
                m[q * PageCells + i] = Img(Packages[p].image, q * PageCells + i)

\* After k operations: c of segment seg.
ProgressAt(p, m, seg, c) ==
    LET n == ImageSize[Packages[p].base]
    IN IF seg < n THEN Moving(p, m, seg, c) ELSE Making(p, m, seg - n, c)
Progress(p, m, k) == ProgressAt(p, m, k \div (PageCells + 1), (k % (PageCells + 1)) - 1)

DecodeOk(c, s, p, m, k) ==
    c = "decode" /\ s # "sd" /\ Packages[p].good /\ Packages[p].shift # 0 => Progress(p, m, k)

HashValid(f, page, p) ==
    \A c \in 0 .. (Packages[p].size * PageCells - 1) : f[page * PageCells + c] = Img(Packages[p].image, c)
InstallsOk(c, s, f, p) ==
    /\ c = "blcheck" /\ s # "sd" => HashValid(f, Packages[p].at, p)
    /\ c = "check" /\ s # "sd" /\ Packages[p].good /\ Packages[p].shift # 0 => HashValid(f, 0, p)

InstallInv ==
    /\ StagingInv
    /\ PayloadOk(pc, source, ext, ram, flash, pkg, step)
    /\ DecodeOk(pc, source, pkg, mem, step)
    /\ InstallsOk(pc, source, flash, pkg)

-----------------------------------------------------------------------------
(* Arithmetic of pages and operations. *)

\* Different cells of different pages are different cells.
LEMMA SameCell ==
    ASSUME NEW q \in Nat, NEW r \in Nat, NEW i \in 0 .. (PageCells - 1), NEW j \in 0 .. (PageCells - 1)
    PROVE  /\ q * PageCells + i \in Nat
           /\ q * PageCells + i = r * PageCells + j => q = r /\ i = j
           /\ q * PageCells + i \in InPage(r) => q = r
<1>1. q * PageCells + i \in Nat /\ PageOf(q * PageCells + i) = q /\ (q * PageCells + i) % PageCells = i
  BY CellOfPage
<1>2. PageOf(r * PageCells + j) = r /\ (r * PageCells + j) % PageCells = j
  BY CellOfPage
<1>3. q * PageCells + i \in InPage(r) => q = r
  BY <1>1, Place
<1> QED BY <1>1, <1>2, <1>3

\* A cell of a page below w is a cell below w pages.
LEMMA CellBelow ==
    ASSUME NEW q \in Nat, NEW w \in Nat, q < w, NEW i \in 0 .. (PageCells - 1)
    PROVE  q * PageCells + i \in 0 .. (w * PageCells - 1)
<1>1. (q + 1) * PageCells <= w * PageCells /\ (q + 1) * PageCells = q * PageCells + PageCells
      /\ q * PageCells \in Int /\ w * PageCells \in Int
  BY Times
<1>2. q * PageCells + i \in Nat
  BY CellOfPage
<1>3. PageCells \in Nat
  BY SizeFacts
<1> QED BY <1>1, <1>2, <1>3

\* And every cell below w pages is a cell of one.
LEMMA BelowCell ==
    ASSUME NEW w \in Nat, NEW a \in 0 .. (w * PageCells - 1)
    PROVE  PageOf(a) \in 0 .. (w - 1)
<1>0. w * PageCells \in Int /\ a \in Nat
  BY Times
<1>1. PageOf(a) \in Nat /\ a = PageOf(a) * PageCells + (a % PageCells) /\ a % PageCells \in 0 .. (PageCells - 1)
  BY <1>0, Place
<1>2. PageOf(a) * PageCells \in Int /\ PageOf(a) * PageCells < w * PageCells
  BY <1>0, <1>1, Times
<1>3. PageOf(a) < w
  BY <1>1, <1>2, Times
<1> QED BY <1>1, <1>3

\* Operation k is operation c of segment seg, and what comes after it.
LEMMA OpPlace ==
    ASSUME NEW k \in Nat
    PROVE  LET seg == k \div (PageCells + 1)
               c == (k % (PageCells + 1)) - 1
               seg1 == (k + 1) \div (PageCells + 1)
               c1 == ((k + 1) % (PageCells + 1)) - 1
           IN /\ seg \in Nat /\ c \in -1 .. (PageCells - 1)
              /\ k = seg * (PageCells + 1) + c + 1
              /\ c < PageCells - 1 => seg1 = seg /\ c1 = c + 1
              /\ c = PageCells - 1 => seg1 = seg + 1 /\ c1 = -1
<1> DEFINE N == PageCells + 1
           seg == k \div N
           r == k % N
           seg1 == (k + 1) \div N
           r1 == (k + 1) % N
<1>1. PageCells \in Nat /\ PageCells > 0 /\ N \in Nat /\ N > 0
  BY SizeFacts
<1>2. seg \in Nat /\ r \in 0 .. (N - 1) /\ k = seg * N + r
  BY <1>1
<1>3. seg1 \in Nat /\ r1 \in 0 .. (N - 1) /\ k + 1 = seg1 * N + r1
  BY <1>1
<1>4. seg * N \in Int /\ seg1 * N \in Int
  BY <1>1, <1>2, <1>3
<1> HIDE DEF seg, r, seg1, r1, N
<1>5. ASSUME NEW x \in Nat, NEW y \in Nat, x < y PROVE x * N + N <= y * N
  <2>1. (y - x - 1) \in Nat
    BY <1>5
  <2>2. (y - x - 1) * N \in Nat
    BY <1>1, <2>1
  <2>3. (y - x - 1) * N = y * N - x * N - N
    BY <1>1
  <2>4. x * N \in Int /\ y * N \in Int
    BY <1>1
  <2> QED BY <1>1, <2>2, <2>3, <2>4
<1>6. r < N - 1 => seg1 = seg /\ r1 = r + 1
  <2> SUFFICES ASSUME r < N - 1 PROVE seg1 = seg /\ r1 = r + 1
    OBVIOUS
  <2>1. ~(seg < seg1)
    <3> SUFFICES ASSUME seg < seg1 PROVE FALSE
      OBVIOUS
    <3>1. seg * N + N <= seg1 * N
      BY <1>2, <1>3, <1>5
    <3> QED BY <1>1, <1>2, <1>3, <1>4, <3>1
  <2>2. ~(seg1 < seg)
    <3> SUFFICES ASSUME seg1 < seg PROVE FALSE
      OBVIOUS
    <3>1. seg1 * N + N <= seg * N
      BY <1>2, <1>3, <1>5
    <3> QED BY <1>1, <1>2, <1>3, <1>4, <3>1
  <2>3. seg1 = seg
    BY <1>2, <1>3, <2>1, <2>2
  <2> QED BY <1>1, <1>2, <1>3, <1>4, <2>3
<1>7. r = N - 1 => seg1 = seg + 1 /\ r1 = 0
  <2> SUFFICES ASSUME r = N - 1 PROVE seg1 = seg + 1 /\ r1 = 0
    OBVIOUS
  <2>0. (seg + 1) * N = seg * N + N /\ (seg + 1) * N \in Int /\ seg + 1 \in Nat
    BY <1>1, <1>2
  <2>1. ~(seg + 1 < seg1)
    <3> SUFFICES ASSUME seg + 1 < seg1 PROVE FALSE
      OBVIOUS
    <3>1. (seg + 1) * N + N <= seg1 * N
      BY <2>0, <1>3, <1>5
    <3> QED BY <1>1, <1>2, <1>3, <1>4, <2>0, <3>1
  <2>2. ~(seg1 < seg + 1)
    <3> SUFFICES ASSUME seg1 < seg + 1 PROVE FALSE
      OBVIOUS
    <3>1. seg1 * N + N <= (seg + 1) * N
      BY <2>0, <1>3, <1>5
    <3> QED BY <1>1, <1>2, <1>3, <1>4, <2>0, <3>1
  <2>3. seg1 = seg + 1
    BY <2>0, <1>3, <2>1, <2>2
  <2> QED BY <1>1, <1>2, <1>3, <1>4, <2>0, <2>3
<1> QED BY <1>1, <1>2, <1>6, <1>7 DEF seg, r, seg1, r1, N

-----------------------------------------------------------------------------
(* The decoder, as operations on the workspace. *)

\* What an erase and a write leave of a cell.
LEMMA ErasedCell ==
    ASSUME NEW m, NEW w \in Nat, DOMAIN m = 0 .. (w * PageCells - 1),
           NEW q \in Nat, q < w, NEW i \in 0 .. (PageCells - 1), NEW r \in Nat, q # r
    PROVE  Erased(m, r)[q * PageCells + i] = m[q * PageCells + i]
<1>1. q * PageCells + i \in DOMAIN m
  BY CellBelow
<1>2. q * PageCells + i \notin InPage(r)
  BY SameCell
<1> QED BY <1>1, <1>2 DEF Erased

\* Cell i of page q is written.
WroteIn(m, m2, q, i, v) == Wrote(m, m2, q * PageCells + i, v)

LEMMA MovingErases ==
    ASSUME NEW p, NEW m, NEW w \in Nat, DOMAIN m = 0 .. (w * PageCells - 1), Roomy(p, w),
           NEW s \in 0 .. (ImageSize[Packages[p].base] - 1), Moving(p, m, s, -1)
    PROVE  Moving(p, Erased(m, ImageSize[Packages[p].base] - 1 - s + Packages[p].shift), s, 0)
<1> DEFINE b == Packages[p].base
           n == ImageSize[b]
           S == Packages[p].shift
           r == n - 1 - s + S
           m2 == Erased(m, r)
<1>0. n \in Nat \ {0} /\ S \in Nat \ {0} /\ n + S <= w /\ s \in 0 .. (n - 1)
  BY DEF Roomy
<1> SUFFICES ASSUME NEW q \in 0 .. (n - 1), NEW i \in 0 .. (PageCells - 1)
             PROVE  /\ q < n - s => m2[q * PageCells + i] = Img(b, q * PageCells + i)
                    /\ q >= n - s \/ (q = n - s - 1 /\ i < 0) =>
                          m2[(q + S) * PageCells + i] = Img(b, q * PageCells + i)
  BY DEF Moving
<1> HIDE DEF S, n, b
<1>1. /\ q < n - s => m[q * PageCells + i] = Img(b, q * PageCells + i)
      /\ q >= n - s => m[(q + S) * PageCells + i] = Img(b, q * PageCells + i)
  BY DEF Moving, S, n, b
<1>2. q \in Nat /\ q < w /\ q + S \in Nat /\ q + S < w /\ r \in Nat /\ ~(i < 0)
  <2>1. PageCells \in Nat
    BY SizeFacts
  <2> QED BY <1>0, <2>1
<1>e. ASSUME NEW x \in Nat, x < w, x # r PROVE m2[x * PageCells + i] = m[x * PageCells + i]
  <2>1. r \in Nat
    BY <1>2
  <2> HIDE DEF r
  <2> QED BY <1>e, <2>1, ErasedCell, Zenon
<1>3. ASSUME q < n - s PROVE m2[q * PageCells + i] = Img(b, q * PageCells + i)
  <2>1. q # r
    BY <1>0, <1>3
  <2> HIDE DEF r, m2
  <2>2. m2[q * PageCells + i] = m[q * PageCells + i]
    BY <2>1, <1>2, <1>e, Zenon
  <2> QED BY <1>1, <1>3, <2>2
<1>4. ASSUME q >= n - s PROVE m2[(q + S) * PageCells + i] = Img(b, q * PageCells + i)
  <2>1. q + S # r
    BY <1>0, <1>4
  <2> HIDE DEF r, m2
  <2>2. m2[(q + S) * PageCells + i] = m[(q + S) * PageCells + i]
    BY <2>1, <1>2, <1>e, Zenon
  <2> QED BY <1>1, <1>4, <2>2
<1> QED BY <1>2, <1>3, <1>4

LEMMA MovingWrites ==
    ASSUME NEW p, NEW m, NEW m2, NEW w \in Nat, DOMAIN m = 0 .. (w * PageCells - 1), Roomy(p, w),
           NEW s \in 0 .. (ImageSize[Packages[p].base] - 1), NEW c \in 0 .. (PageCells - 1),
           Moving(p, m, s, c),
           WroteIn(m, m2, ImageSize[Packages[p].base] - 1 - s + Packages[p].shift, c,
                   Img(Packages[p].base, (ImageSize[Packages[p].base] - 1 - s) * PageCells + c))
    PROVE  Moving(p, m2, s, c + 1)
<1> DEFINE b == Packages[p].base
           n == ImageSize[b]
           S == Packages[p].shift
           r == n - 1 - s + S
           v == Img(b, (n - 1 - s) * PageCells + c)
<1>0. n \in Nat \ {0} /\ S \in Nat \ {0} /\ n + S <= w /\ s \in 0 .. (n - 1)
  BY DEF Roomy
<1>w. ASSUME NEW x \in Nat, x < w, NEW y \in 0 .. (PageCells - 1)
      PROVE  /\ x = r /\ y = c => m2[x * PageCells + y] = v
             /\ ~(x = r /\ y = c) => m2[x * PageCells + y] = m[x * PageCells + y]
  <2>0. r \in Nat
    BY <1>0
  <2>1. WroteIn(m, m2, r, c, v)
    OBVIOUS
  <2> HIDE DEF r, v
  <2>2. x * PageCells + y \in DOMAIN m
    BY <1>w, CellBelow
  <2>3. x * PageCells + y = r * PageCells + c <=> x = r /\ y = c
    BY <2>0, SameCell
  <2> QED BY <2>1, <2>2, <2>3 DEF Wrote, WroteIn
<1> SUFFICES ASSUME NEW q \in 0 .. (n - 1), NEW i \in 0 .. (PageCells - 1)
             PROVE  /\ q < n - s => m2[q * PageCells + i] = Img(b, q * PageCells + i)
                    /\ q >= n - s \/ (q = n - s - 1 /\ i < c + 1) =>
                          m2[(q + S) * PageCells + i] = Img(b, q * PageCells + i)
  BY DEF Moving
<1> HIDE DEF S, n, b
<1>1. /\ q < n - s => m[q * PageCells + i] = Img(b, q * PageCells + i)
      /\ q >= n - s \/ (q = n - s - 1 /\ i < c) =>
            m[(q + S) * PageCells + i] = Img(b, q * PageCells + i)
  BY DEF Moving, S, n, b
<1>2. q \in Nat /\ q < w /\ q + S \in Nat /\ q + S < w /\ r \in Nat
  BY <1>0
<1>3. ASSUME q < n - s PROVE m2[q * PageCells + i] = Img(b, q * PageCells + i)
  <2>1. q # r
    BY <1>0, <1>3
  <2>2. m2[q * PageCells + i] = m[q * PageCells + i]
    BY <2>1, <1>2, <1>w
  <2> QED BY <1>1, <1>3, <2>2
<1>4. ASSUME q >= n - s \/ (q = n - s - 1 /\ i < c + 1)
      PROVE  m2[(q + S) * PageCells + i] = Img(b, q * PageCells + i)
  <2>1. CASE q + S = r /\ i = c
    <3>1. q = n - 1 - s
      BY <1>0, <2>1
    <3>2. v = Img(b, q * PageCells + i)
      BY <3>1, <2>1
    <3>3. m2[(q + S) * PageCells + i] = v
      BY <2>1, <1>2, <1>w
    <3> QED BY <3>2, <3>3
  <2>2. CASE ~(q + S = r /\ i = c)
    <3>1. q >= n - s \/ (q = n - s - 1 /\ i < c)
      <4>1. PageCells \in Nat
        BY SizeFacts
      <4> QED BY <1>0, <1>4, <2>2, <4>1
    <3>3. m2[(q + S) * PageCells + i] = m[(q + S) * PageCells + i]
      BY <2>2, <1>2, <1>w
    <3> QED BY <1>1, <3>1, <3>3
  <2> QED BY <2>1, <2>2
<1> QED BY <1>3, <1>4

\* A page that is moved, and the base that is moved.
LEMMA MovedPage ==
    ASSUME NEW p, NEW m, NEW w \in Nat, Roomy(p, w),
           NEW s \in 0 .. (ImageSize[Packages[p].base] - 1), Moving(p, m, s, PageCells)
    PROVE  Moving(p, m, s + 1, -1)
<1> DEFINE b == Packages[p].base
           n == ImageSize[b]
           S == Packages[p].shift
<1>0. n \in Nat \ {0} /\ s \in 0 .. (n - 1) /\ PageCells \in Nat
  BY SizeFacts DEF Roomy
<1> SUFFICES ASSUME NEW q \in 0 .. (n - 1), NEW i \in 0 .. (PageCells - 1)
             PROVE  /\ q < n - (s + 1) => m[q * PageCells + i] = Img(b, q * PageCells + i)
                    /\ q >= n - (s + 1) \/ (q = n - (s + 1) - 1 /\ i < -1) =>
                          m[(q + S) * PageCells + i] = Img(b, q * PageCells + i)
  BY DEF Moving
<1> HIDE DEF S, n, b
<1>1. /\ q < n - s => m[q * PageCells + i] = Img(b, q * PageCells + i)
      /\ q >= n - s \/ (q = n - s - 1 /\ i < PageCells) =>
            m[(q + S) * PageCells + i] = Img(b, q * PageCells + i)
  BY DEF Moving, S, n, b
<1>2. q < n - (s + 1) => q < n - s
  BY <1>0
<1>3. q >= n - (s + 1) \/ (q = n - (s + 1) - 1 /\ i < -1) => q >= n - s \/ (q = n - s - 1 /\ i < PageCells)
  BY <1>0
<1> QED BY <1>1, <1>2, <1>3

LEMMA MovedBase ==
    ASSUME NEW p, NEW m, NEW w \in Nat, Roomy(p, w),
           Moving(p, m, ImageSize[Packages[p].base], -1)
    PROVE  Making(p, m, 0, -1)
<1> DEFINE b == Packages[p].base
           n == ImageSize[b]
           S == Packages[p].shift
<1>0. n \in Nat \ {0} /\ PageCells \in Nat
  BY SizeFacts DEF Roomy
<1>1. ASSUME NEW q \in 0 .. (n - 1), NEW i \in 0 .. (PageCells - 1)
      PROVE  m[(q + S) * PageCells + i] = Img(b, q * PageCells + i)
  <2>1. q >= n - n \/ (q = n - n - 1 /\ i < -1) =>
            m[(q + S) * PageCells + i] = Img(b, q * PageCells + i)
    BY <1>1 DEF Moving
  <2>2. q >= n - n
    BY <1>0
  <2> QED BY <2>1, <2>2
<1>2. ASSUME NEW q \in 0 .. (Packages[p].size - 1), NEW i \in 0 .. (PageCells - 1)
      PROVE  ~(q < 0 \/ (q = 0 /\ i < -1))
  BY <1>0 DEF Roomy
<1> QED BY <1>1, <1>2 DEF Making

LEMMA MakingErases ==
    ASSUME NEW p, NEW m, NEW w \in Nat, DOMAIN m = 0 .. (w * PageCells - 1), Roomy(p, w),
           NEW s \in 0 .. (Packages[p].size - 1), Making(p, m, s, -1)
    PROVE  Making(p, Erased(m, s), s, 0)
<1> DEFINE b == Packages[p].base
           n == ImageSize[b]
           S == Packages[p].shift
           k == Packages[p].size
           m2 == Erased(m, s)
<1>0. n \in Nat \ {0} /\ S \in Nat \ {0} /\ n + S <= w /\ k \in Nat /\ k <= w /\ PageCells \in Nat
  BY SizeFacts DEF Roomy
<1>1. ASSUME NEW q \in 0 .. (n - 1), NEW i \in 0 .. (PageCells - 1), q >= s
      PROVE  m2[(q + S) * PageCells + i] = Img(b, q * PageCells + i)
  <2>1. m[(q + S) * PageCells + i] = Img(b, q * PageCells + i)
    BY <1>1 DEF Making
  <2> HIDE DEF n, S, b, k
  <2>2. q + S \in Nat /\ q + S < w /\ q + S # s /\ s \in Nat
    BY <1>0, <1>1
  <2>3. m2[(q + S) * PageCells + i] = m[(q + S) * PageCells + i]
    BY <2>2, ErasedCell
  <2> QED BY <2>1, <2>3
<1>2. ASSUME NEW q \in 0 .. (k - 1), NEW i \in 0 .. (PageCells - 1), q < s \/ (q = s /\ i < 0)
      PROVE  m2[q * PageCells + i] = Img(Packages[p].image, q * PageCells + i)
  <2>0. q < s
    BY <1>0, <1>2
  <2>1. m[q * PageCells + i] = Img(Packages[p].image, q * PageCells + i)
    BY <1>2, <2>0 DEF Making
  <2> HIDE DEF n, S, b, k
  <2>2. q \in Nat /\ q < w /\ q # s /\ s \in Nat
    BY <1>0, <1>2, <2>0
  <2>3. m2[q * PageCells + i] = m[q * PageCells + i]
    BY <2>2, ErasedCell
  <2> QED BY <2>1, <2>3
<1> QED BY <1>1, <1>2 DEF Making

LEMMA MakingWrites ==
    ASSUME NEW p, NEW m, NEW m2, NEW w \in Nat, DOMAIN m = 0 .. (w * PageCells - 1), Roomy(p, w),
           NEW s \in 0 .. (Packages[p].size - 1), NEW c \in 0 .. (PageCells - 1),
           Making(p, m, s, c),
           WroteIn(m, m2, s, c, Img(Packages[p].image, s * PageCells + c))
    PROVE  Making(p, m2, s, c + 1)
<1> DEFINE b == Packages[p].base
           n == ImageSize[b]
           S == Packages[p].shift
           k == Packages[p].size
           v == Img(Packages[p].image, s * PageCells + c)
<1>0. n \in Nat \ {0} /\ S \in Nat \ {0} /\ n + S <= w /\ k \in Nat /\ k <= w /\ PageCells \in Nat
  BY SizeFacts DEF Roomy
<1>w. ASSUME NEW x \in Nat, x < w, NEW y \in 0 .. (PageCells - 1)
      PROVE  /\ x = s /\ y = c => m2[x * PageCells + y] = v
             /\ ~(x = s /\ y = c) => m2[x * PageCells + y] = m[x * PageCells + y]
  <2>0. s \in Nat
    BY <1>0
  <2>1. WroteIn(m, m2, s, c, v)
    OBVIOUS
  <2> HIDE DEF v
  <2>2. x * PageCells + y \in DOMAIN m
    BY <1>w, CellBelow
  <2>3. x * PageCells + y = s * PageCells + c <=> x = s /\ y = c
    BY <2>0, SameCell
  <2> QED BY <2>1, <2>2, <2>3 DEF Wrote, WroteIn
<1>1. ASSUME NEW q \in 0 .. (n - 1), NEW i \in 0 .. (PageCells - 1), q >= s
      PROVE  m2[(q + S) * PageCells + i] = Img(b, q * PageCells + i)
  <2>1. m[(q + S) * PageCells + i] = Img(b, q * PageCells + i)
    BY <1>1 DEF Making
  <2> HIDE DEF n, S, b, k, v
  <2>2. q + S \in Nat /\ q + S < w /\ q + S # s
    BY <1>0, <1>1
  <2>3. m2[(q + S) * PageCells + i] = m[(q + S) * PageCells + i]
    BY <2>2, <1>w
  <2> QED BY <2>1, <2>3
<1>2. ASSUME NEW q \in 0 .. (k - 1), NEW i \in 0 .. (PageCells - 1), q < s \/ (q = s /\ i < c + 1)
      PROVE  m2[q * PageCells + i] = Img(Packages[p].image, q * PageCells + i)
  <2>1. q < s \/ (q = s /\ i < c) => m[q * PageCells + i] = Img(Packages[p].image, q * PageCells + i)
    BY <1>2 DEF Making
  <2>2. q \in Nat /\ q < w
    BY <1>0, <1>2
  <2>3. CASE q = s /\ i = c
    <3>1. v = Img(Packages[p].image, q * PageCells + i)
      BY <2>3
    <3> HIDE DEF n, S, b, k, v
    <3>2. m2[q * PageCells + i] = v
      BY <2>2, <2>3, <1>w
    <3> QED BY <3>1, <3>2
  <2>4. CASE ~(q = s /\ i = c)
    <3>1. q < s \/ (q = s /\ i < c)
      BY <1>0, <1>2, <2>4
    <3> HIDE DEF n, S, b, k, v
    <3>2. m2[q * PageCells + i] = m[q * PageCells + i]
      BY <2>2, <2>4, <1>w
    <3> QED BY <2>1, <3>1, <3>2
  <2> QED BY <2>3, <2>4
<1> QED BY <1>1, <1>2 DEF Making

LEMMA MadePage ==
    ASSUME NEW p, NEW m, NEW w \in Nat, Roomy(p, w),
           NEW s \in 0 .. (Packages[p].size - 1), Making(p, m, s, PageCells)
    PROVE  Making(p, m, s + 1, -1)
<1>0. PageCells \in Nat /\ ImageSize[Packages[p].base] \in Nat /\ Packages[p].size \in Nat
  BY SizeFacts DEF Roomy
<1>1. ASSUME NEW q \in 0 .. (ImageSize[Packages[p].base] - 1), NEW i \in 0 .. (PageCells - 1), q >= s + 1
      PROVE  m[(q + Packages[p].shift) * PageCells + i] = Img(Packages[p].base, q * PageCells + i)
  <2>1. q >= s
    BY <1>0, <1>1
  <2> QED BY <1>1, <2>1 DEF Making
<1>2. ASSUME NEW q \in 0 .. (Packages[p].size - 1), NEW i \in 0 .. (PageCells - 1),
             q < s + 1 \/ (q = s + 1 /\ i < -1)
      PROVE  m[q * PageCells + i] = Img(Packages[p].image, q * PageCells + i)
  <2>1. q < s \/ (q = s /\ i < PageCells)
    BY <1>0, <1>2
  <2> QED BY <1>2, <2>1 DEF Making
<1> QED BY <1>1, <1>2 DEF Making

\* The segments of a patch.
Segments(p) == ImageSize[Packages[p].base] + Packages[p].size

LEMMA SegmentBound ==
    ASSUME NEW x \in Nat, NEW k \in Nat, k < x * (PageCells + 1)
    PROVE  k \div (PageCells + 1) < x
<1> DEFINE N == PageCells + 1
           seg == k \div N
<1>1. N \in Nat /\ N > 0
  BY SizeFacts
<1>2. seg \in Nat /\ k >= seg * N /\ seg * N \in Int /\ x * N \in Int
  BY <1>1
<1> HIDE DEF seg, N
<1>3. ~(seg >= x)
  <2> SUFFICES ASSUME seg >= x PROVE FALSE
    OBVIOUS
  <2>1. (seg - x) \in Nat
    BY <1>2
  <2>2. (seg - x) * N \in Nat
    BY <1>1, <2>1
  <2>3. (seg - x) * N = seg * N - x * N
    BY <1>1, <1>2
  <2>4. k < x * N
    BY DEF N
  <2> QED BY <1>2, <2>2, <2>3, <2>4
<1> QED BY <1>2, <1>3 DEF seg, N

\* A segment that is done is the beginning of the next one.
LEMMA ProgressOn ==
    ASSUME NEW p, NEW m, NEW w \in Nat, Roomy(p, w), NEW k \in Nat, k < Segments(p) * (PageCells + 1),
           ProgressAt(p, m, k \div (PageCells + 1), k % (PageCells + 1))
    PROVE  Progress(p, m, k + 1)
<1> DEFINE n == ImageSize[Packages[p].base]
           z == Packages[p].size
           seg == k \div (PageCells + 1)
           c == (k % (PageCells + 1)) - 1
           seg1 == (k + 1) \div (PageCells + 1)
           c1 == ((k + 1) % (PageCells + 1)) - 1
<1>1. n \in Nat \ {0} /\ z \in Nat /\ PageCells \in Nat /\ PageCells > 0
  BY SizeFacts DEF Roomy
<1>2. /\ seg \in Nat /\ c \in -1 .. (PageCells - 1)
      /\ c < PageCells - 1 => seg1 = seg /\ c1 = c + 1
      /\ c = PageCells - 1 => seg1 = seg + 1 /\ c1 = -1
  BY OpPlace
<1>3. seg < n + z
  <2>1. n + z \in Nat /\ k < (n + z) * (PageCells + 1)
    BY <1>1 DEF Segments
  <2> HIDE DEF n, z
  <2> QED BY <2>1, SegmentBound
<1>4. ProgressAt(p, m, seg, c + 1)
  <2>1. k % (PageCells + 1) = c + 1
    BY <1>1
  <2> QED BY <2>1
<1> HIDE DEF seg, c
<1>5. CASE c < PageCells - 1
  BY <1>2, <1>4, <1>5 DEF Progress
<1>6. CASE c = PageCells - 1 /\ seg < n
  <2>1. Moving(p, m, seg, PageCells)
    <3>1. c + 1 = PageCells
      BY <1>1, <1>6
    <3>2. ProgressAt(p, m, seg, PageCells)
      BY <1>4, <3>1
    <3> QED BY <1>6, <3>2 DEF ProgressAt
  <2>2. seg \in 0 .. (n - 1)
    BY <1>1, <1>2, <1>6
  <2>3. Moving(p, m, seg + 1, -1)
    BY <2>1, <2>2, MovedPage
  <2>4. CASE seg + 1 < n
    BY <2>3, <2>4, <1>2, <1>6 DEF ProgressAt, Progress
  <2>5. CASE ~(seg + 1 < n)
    <3>1. seg + 1 = n /\ seg + 1 - n = 0
      BY <1>1, <2>2, <2>5
    <3>2. Making(p, m, 0, -1)
      BY <2>3, <3>1, MovedBase
    <3> QED BY <3>1, <3>2, <2>5, <1>2, <1>6 DEF ProgressAt, Progress
  <2> QED BY <2>4, <2>5
<1>7. CASE c = PageCells - 1 /\ ~(seg < n)
  <2>1. Making(p, m, seg - n, PageCells)
    <3>1. c + 1 = PageCells
      BY <1>1, <1>7
    <3>2. ProgressAt(p, m, seg, PageCells)
      BY <1>4, <3>1
    <3> QED BY <1>7, <3>2 DEF ProgressAt
  <2>2. seg - n \in 0 .. (z - 1) /\ ~(seg + 1 < n) /\ seg + 1 - n = (seg - n) + 1
    BY <1>1, <1>2, <1>3, <1>7
  <2>3. Making(p, m, (seg - n) + 1, -1)
    BY <2>1, <2>2, MadePage
  <2> DEFINE s1 == seg + 1
  <2>4. Making(p, m, s1 - n, -1) /\ ~(s1 < n)
    <3>1. s1 - n = (seg - n) + 1 /\ ~(s1 < n)
      BY <1>1, <1>2, <2>2
    <3> HIDE DEF s1, n
    <3> QED BY <2>3, <3>1
  <2>5. seg1 = s1 /\ c1 = -1
    BY <1>2, <1>7
  <2> HIDE DEF s1
  <2>6. ProgressAt(p, m, s1, -1)
    BY <2>4 DEF ProgressAt
  <2> QED BY <2>5, <2>6 DEF Progress
<1> QED BY <1>1, <1>2, <1>5, <1>6, <1>7

\* Operation k, by its segment.
LEMMA OpIs ==
    ASSUME NEW p, NEW k \in Nat
    PROVE  LET n == ImageSize[Packages[p].base]
               seg == k \div (PageCells + 1)
               c == (k % (PageCells + 1)) - 1
           IN /\ Op(p, k).cell = c
              /\ seg < n => /\ Op(p, k).page = n - 1 - seg + Packages[p].shift /\ ~Op(p, k).patch
                            /\ Op(p, k).from = (n - 1 - seg) * PageCells + c
              /\ ~(seg < n) => /\ Op(p, k).page = seg - n /\ Op(p, k).patch
                               /\ Op(p, k).from = (seg - n + Packages[p].shift) * PageCells + c
BY DEF Op

LEMMA ProgressErases ==
    ASSUME NEW p, NEW m, NEW w \in Nat, DOMAIN m = 0 .. (w * PageCells - 1), Roomy(p, w),
           NEW k \in Nat, k < Segments(p) * (PageCells + 1), Progress(p, m, k), Op(p, k).cell = -1
    PROVE  Progress(p, Erased(m, Op(p, k).page), k + 1)
<1> DEFINE n == ImageSize[Packages[p].base]
           z == Packages[p].size
           seg == k \div (PageCells + 1)
           r == k % (PageCells + 1)
           m2 == Erased(m, Op(p, k).page)
<1>1. n \in Nat \ {0} /\ z \in Nat /\ PageCells \in Nat /\ PageCells > 0
  BY SizeFacts DEF Roomy
<1>2. seg \in Nat /\ r \in 0 .. PageCells
  <2>1. PageCells + 1 \in Nat /\ PageCells + 1 > 0
    BY <1>1
  <2>2. seg \in Nat /\ r \in 0 .. ((PageCells + 1) - 1)
    BY <2>1
  <2> QED BY <1>1, <2>2
<1>3. r - 1 = -1 /\ r = 0
  BY <1>2, OpIs
<1>4. seg < n + z
  <2>1. n + z \in Nat /\ k < (n + z) * (PageCells + 1)
    BY <1>1 DEF Segments
  <2> HIDE DEF n, z
  <2> QED BY <2>1, SegmentBound
<1>5. ProgressAt(p, m, seg, -1)
  BY <1>3 DEF Progress
<1>6. ProgressAt(p, m2, seg, 0)
  <2>1. CASE seg < n
    <3>1. Op(p, k).page = n - 1 - seg + Packages[p].shift
      BY <2>1, OpIs
    <3>2. seg \in 0 .. (n - 1) /\ Moving(p, m, seg, -1)
      <4>1. seg \in 0 .. (n - 1)
        BY <1>1, <1>2, <2>1
      <4> HIDE DEF seg
      <4> QED BY <4>1, <1>5, <2>1 DEF ProgressAt
    <3> HIDE DEF seg
    <3>3. Moving(p, Erased(m, n - 1 - seg + Packages[p].shift), seg, 0)
      BY <3>2, MovingErases
    <3> QED BY <3>1, <3>3, <2>1 DEF ProgressAt
  <2>2. CASE ~(seg < n)
    <3>1. Op(p, k).page = seg - n
      BY <2>2, OpIs
    <3>2. seg - n \in 0 .. (z - 1)
      <4> HIDE DEF seg, n, z
      <4> QED BY <1>1, <1>2, <1>4, <2>2
    <3> DEFINE s == seg - n
    <3> HIDE DEF seg
    <3>3. Making(p, m, s, -1)
      BY <1>5, <2>2 DEF ProgressAt
    <3>4. Making(p, Erased(m, s), s, 0)
      <4> HIDE DEF s
      <4> QED BY <3>2, <3>3, MakingErases DEF s
    <3> QED BY <3>1, <3>4, <2>2 DEF ProgressAt
  <2> QED BY <2>1, <2>2
<1>7. ProgressAt(p, m2, seg, r)
  BY <1>3, <1>6
<1> HIDE DEF m2
<1> QED BY <1>7, ProgressOn DEF m2

\* What operation k is to write.
Signed(p, k) ==
    IF Op(p, k).patch THEN Img(Packages[p].image, Op(p, k).page * PageCells + Op(p, k).cell)
    ELSE Img(Packages[p].base, Op(p, k).from)

LEMMA ProgressWrites ==
    ASSUME NEW p, NEW m, NEW m2, NEW w \in Nat, DOMAIN m = 0 .. (w * PageCells - 1), Roomy(p, w),
           NEW k \in Nat, k < Segments(p) * (PageCells + 1), Progress(p, m, k), Op(p, k).cell # -1,
           WroteIn(m, m2, Op(p, k).page, Op(p, k).cell, Signed(p, k))
    PROVE  Progress(p, m2, k + 1)
<1> DEFINE n == ImageSize[Packages[p].base]
           z == Packages[p].size
           seg == k \div (PageCells + 1)
           r == k % (PageCells + 1)
           c == r - 1
<1>1. n \in Nat \ {0} /\ z \in Nat /\ PageCells \in Nat /\ PageCells > 0
  BY SizeFacts DEF Roomy
<1>2. seg \in Nat /\ r \in 0 .. PageCells
  <2>1. PageCells + 1 \in Nat /\ PageCells + 1 > 0
    BY <1>1
  <2>2. seg \in Nat /\ r \in 0 .. ((PageCells + 1) - 1)
    BY <2>1
  <2> QED BY <1>1, <2>2
<1>3. Op(p, k).cell = c
  BY OpIs
<1>3a. c \in 0 .. (PageCells - 1) /\ c + 1 = r
  BY <1>1, <1>2, <1>3
<1>4. seg < n + z
  <2>1. n + z \in Nat /\ k < (n + z) * (PageCells + 1)
    BY <1>1 DEF Segments
  <2> HIDE DEF n, z
  <2> QED BY <2>1, SegmentBound
<1>5. ProgressAt(p, m, seg, c)
  BY DEF Progress
<1>6. ProgressAt(p, m2, seg, c + 1)
  <2>1. CASE seg < n
    <3>1. Op(p, k).page = n - 1 - seg + Packages[p].shift
          /\ Signed(p, k) = Img(Packages[p].base, (n - 1 - seg) * PageCells + c)
      BY <2>1, OpIs DEF Signed
    <3>2. seg \in 0 .. (n - 1) /\ Moving(p, m, seg, c)
      <4>1. seg \in 0 .. (n - 1)
        BY <1>1, <1>2, <2>1
      <4> HIDE DEF seg, c
      <4> QED BY <4>1, <1>5, <2>1 DEF ProgressAt
    <3> HIDE DEF seg, c
    <3>3. WroteIn(m, m2, n - 1 - seg + Packages[p].shift, c,
                  Img(Packages[p].base, (n - 1 - seg) * PageCells + c))
      BY <3>1, <1>3
    <3>4. Moving(p, m2, seg, c + 1)
      BY <3>2, <3>3, <1>3a, MovingWrites
    <3> QED BY <3>4, <2>1 DEF ProgressAt
  <2>2. CASE ~(seg < n)
    <3>1. Op(p, k).page = seg - n
          /\ Signed(p, k) = Img(Packages[p].image, (seg - n) * PageCells + c)
      BY <2>2, OpIs DEF Signed
    <3>2. seg - n \in 0 .. (z - 1)
      <4> HIDE DEF seg, n, z
      <4> QED BY <1>1, <1>2, <1>4, <2>2
    <3> DEFINE s == seg - n
    <3> HIDE DEF seg, c
    <3>3. Making(p, m, s, c)
      BY <1>5, <2>2 DEF ProgressAt
    <3>4. WroteIn(m, m2, s, c, Img(Packages[p].image, s * PageCells + c))
      BY <3>1, <1>3
    <3>5. Making(p, m2, s, c + 1)
      <4>1. s \in 0 .. (z - 1)
        BY <3>2
      <4> HIDE DEF s
      <4> QED BY <4>1, <3>3, <3>4, <1>3a, MakingWrites
    <3> QED BY <3>5, <2>2 DEF ProgressAt
  <2> QED BY <2>1, <2>2
<1>7. ProgressAt(p, m2, seg, r)
  BY <1>3a, <1>6
<1> QED BY <1>7, ProgressOn

-----------------------------------------------------------------------------
(* Reading the package. *)

\* A read is a read of what is staged, now and after a step.
LEMMA FetchIs ==
    /\ \A p, k : Staged(p, k) = Fetch(source, ext, ram, flash, p, k)
    /\ External <=> source \in {"qspi", "sd"}
    /\ \A p : Workspace(p) = Room(source, p)
    /\ \A page, p : FlashHashValid(page, p) <=> HashValid(flash, page, p)
<1>1. ASSUME NEW p, NEW k PROVE Staged(p, k) = Fetch(source, ext, ram, flash, p, k)
  <2>1. CASE source \in {"qspi", "sd"}
    BY <2>1, StagedAt DEF Fetch, External
  <2>2. CASE source = "hybrid"
    BY <2>2, StagedAt DEF Fetch, External
  <2>3. CASE source \notin {"qspi", "sd"} /\ source # "hybrid"
    BY <2>3, StagedAt DEF Fetch, External
  <2> QED BY <2>1, <2>2, <2>3
<1>2. External <=> source \in {"qspi", "sd"}
  BY DEF External
<1>3. \A p : Workspace(p) = Room(source, p)
  BY <1>2 DEF Workspace, Room
<1>4. \A page, p : FlashHashValid(page, p) <=> HashValid(flash, page, p)
  BY DEF FlashHashValid, HashValid
<1> QED BY <1>1, <1>2, <1>3, <1>4

LEMMA CellFacts ==
    ASSUME NEW p \in DOMAIN Packages, NEW k \in 1 .. (Packages[p].cells - 1)
    PROVE  /\ k \in Nat /\ HybridBase(p) \in Nat /\ PrefixCells(p) \in Nat
           /\ k < PrefixCells(p) => HybridBase(p) + k \in Cells
           /\ Packages[p].src = "internal" => HybridBase(p) + k \in Cells
<1>1. k \in Nat /\ Packages[p].cells \in Nat /\ k < Packages[p].cells
  BY PackageFacts
<1>2. HybridBase(p) \in Nat /\ PrefixCells(p) \in Nat /\ HybridBase(p) + PrefixCells(p) = Pages * PageCells
      /\ HybridBase(p) = Packages[p].at * PageCells
  BY PrefixFacts
<1>3. Packages[p].src = "internal" => HybridBase(p) + Packages[p].cells <= Pages * PageCells
  BY <1>2, OtaConstants
<1>4. Pages * PageCells \in Nat
  BY SizeFacts
<1> QED BY <1>1, <1>2, <1>3, <1>4 DEF Cells

\* Cell k is as it was if the place where it is kept is.
LEMMA FetchKept ==
    ASSUME NEW s, NEW e, NEW e2, NEW r, NEW f, NEW f2, NEW p \in DOMAIN Packages,
           NEW k \in 1 .. (Packages[p].cells - 1),
           s \in {"qspi", "sd"} => (k \in DOMAIN e2 <=> k \in DOMAIN e) /\ (k \in DOMAIN e => e2[k] = e[k]),
           s \notin {"qspi", "sd"} /\ HybridBase(p) + k \in Cells => f2[HybridBase(p) + k] = f[HybridBase(p) + k],
           s \notin {"hybrid", "qspi", "sd"} => Packages[p].src = "internal"
    PROVE  Fetch(s, e2, r, f2, p, k) = Fetch(s, e, r, f, p, k)
<1>1. (k < PrefixCells(p) => HybridBase(p) + k \in Cells)
      /\ (Packages[p].src = "internal" => HybridBase(p) + k \in Cells)
  BY CellFacts
<1> QED BY <1>1 DEF Fetch

\* The same above the header, and for what is left to copy.
Above(f, f2, a0) == \A a \in Cells : a > a0 => f2[a] = f[a]
SameExt(s, e, e2) ==
    s \in {"qspi", "sd"} => \A k \in Nat \ {0} : (k \in DOMAIN e2 <=> k \in DOMAIN e) /\ (k \in DOMAIN e => e2[k] = e[k])

LEMMA PayloadKept ==
    ASSUME NEW s, NEW e, NEW e2, NEW r, NEW f, NEW f2, NEW p \in DOMAIN Packages, NEW a0 \in Nat, NEW n \in Nat,
           SameExt(s, e, e2), s \notin {"qspi", "sd"} => Above(f, f2, a0),
           s \notin {"hybrid", "qspi", "sd"} => Packages[p].src = "internal"
    PROVE  /\ a0 = HybridBase(p) /\ SignedPayload(s, e, r, f, p) => SignedPayload(s, e2, r, f2, p)
           /\ a0 <= HybridBase(p) + n * PageCells /\ LeftToCopy(s, e, r, f, p, n) => LeftToCopy(s, e2, r, f2, p, n)
<1>0. n * PageCells \in Nat /\ HybridBase(p) \in Nat
  BY SizeFacts, PrefixFacts
<1>1. ASSUME NEW k \in 1 .. (Packages[p].cells - 1), a0 < HybridBase(p) + k
      PROVE  Fetch(s, e2, r, f2, p, k) = Fetch(s, e, r, f, p, k)
  <2>1. k \in Nat \ {0} /\ HybridBase(p) + k > a0
    BY <1>0, <1>1, CellFacts
  <2>2. s \in {"qspi", "sd"} => (k \in DOMAIN e2 <=> k \in DOMAIN e) /\ (k \in DOMAIN e => e2[k] = e[k])
    BY <2>1 DEF SameExt
  <2>3. s \notin {"qspi", "sd"} /\ HybridBase(p) + k \in Cells => f2[HybridBase(p) + k] = f[HybridBase(p) + k]
    BY <2>1 DEF Above
  <2> QED BY <2>2, <2>3, FetchKept
<1>2. ASSUME a0 = HybridBase(p), SignedPayload(s, e, r, f, p) PROVE SignedPayload(s, e2, r, f2, p)
  <2>1. ASSUME NEW k \in 1 .. (Packages[p].cells - 1) PROVE a0 < HybridBase(p) + k
    BY <1>0, <1>2, CellFacts
  <2> QED BY <1>1, <1>2, <2>1 DEF SignedPayload
<1>3. ASSUME a0 <= HybridBase(p) + n * PageCells, LeftToCopy(s, e, r, f, p, n) PROVE LeftToCopy(s, e2, r, f2, p, n)
  <2> SUFFICES ASSUME NEW k \in 1 .. (Packages[p].cells - 1), 1 + n * PageCells <= k
               PROVE  Fetch(s, e2, r, f2, p, k) = Img(Packages[p].image, k - 1)
    BY DEF LeftToCopy
  <2>1. a0 < HybridBase(p) + k
    BY <1>0, <1>3, CellFacts
  <2>2. Fetch(s, e, r, f, p, k) = Img(Packages[p].image, k - 1)
    BY <1>3 DEF LeftToCopy
  <2> QED BY <1>1, <2>1, <2>2
<1> QED BY <1>2, <1>3

-----------------------------------------------------------------------------
(* Staging. *)

\* Which package a cell belongs to.
LEMMA ContentFacts ==
    ASSUME NEW q \in DOMAIN Packages, NEW k \in Nat, NEW p \in DOMAIN Packages, NEW j \in Nat \ {0}
    PROVE  /\ Content(q, k) \in HeaderOf(p) => k = 0 /\ p = q
           /\ Packages[p].kind = "delta" /\ Content(q, k) = Content(p, j) => p = q
           /\ Blank \notin HeaderOf(p)
           /\ Packages[p].kind = "delta" => Content(p, j) # Blank
           /\ \A i : Img(i, k) \notin HeaderOf(p)
<1>1. Packages[q].image \notin DOMAIN Packages
  BY OtaConstants
<1>2. \/ Content(q, k) = <<q, -1>> /\ k = 0
      \/ k > 0 /\ (Content(q, k) = <<Packages[q].image, k - 1>> \/ Content(q, k) = <<q, k>>)
  <2>1. CASE k = 0
    BY <2>1 DEF Content, Header
  <2>2. CASE k # 0
    <3>1. k > 0
      BY <2>2
    <3>2. Content(q, k) = <<Packages[q].image, k - 1>> \/ Content(q, k) = <<q, k>>
      BY <2>2, Zenon DEF Content, Img
    <3> QED BY <3>1, <3>2
  <2> QED BY <2>1, <2>2
<1>3. HeaderOf(p) = {<<p, -1>>, <<p, -2>>}
  BY DEF HeaderOf, Header
<1>4. Packages[p].kind = "delta" => Content(p, j) = <<p, j>>
  BY DEF Content
<1> QED BY <1>1, <1>2, <1>3, <1>4 DEF Blank, Img

\* A container that begins where its length says ends in the last page.
LEMMA TrailerPlace ==
    ASSUME NEW p \in DOMAIN Packages, Packages[p].src = "internal", Aligned(p)
    PROVE  /\ HybridBase(p) + (Packages[p].cells - 1) \in Cells
           /\ HybridBase(p) + (Packages[p].cells - 1) >= (Pages - 1) * PageCells
           /\ Packages[p].cells - 1 \in 1 .. (Packages[p].cells - 1)
<1> DEFINE x == Pages * PageCells - Packages[p].cells
           y == Packages[p].at
<1>1. Packages[p].cells = Packages[p].size * PageCells + 1 /\ Packages[p].size \in Nat \ {0} /\ PageCells \in Nat \ {0}
      /\ Pages \in Nat \ {0} /\ Packages[p].cells \in Nat /\ y \in Nat
  BY PackageFacts, SizeFacts
<1>2. Packages[p].size * PageCells \in Nat /\ 1 * PageCells <= Packages[p].size * PageCells
  BY <1>1, Times
<1>3. HybridBase(p) = y * PageCells /\ HybridBase(p) \in Nat /\ HybridBase(p) + Packages[p].cells <= Pages * PageCells
      /\ Pages * PageCells \in Nat
  <2>1. HybridBase(p) = y * PageCells /\ HybridBase(p) \in Nat
    BY PrefixFacts
  <2>2. y * PageCells + Packages[p].cells <= Pages * PageCells
    BY OtaConstants
  <2> QED BY <1>1, <2>1, <2>2
<1>4. x \in Nat /\ y = PageOf(x)
  BY <1>1, <1>3 DEF Aligned
<1>5. x = PageOf(x) * PageCells + (x % PageCells) /\ x % PageCells \in 0 .. (PageCells - 1)
  <2> HIDE DEF x
  <2> QED BY <1>4, Place
<1>6. ((Pages - 1) + 1) * PageCells = (Pages - 1) * PageCells + PageCells /\ (Pages - 1) * PageCells \in Int
      /\ (Pages - 1) + 1 = Pages
  BY <1>1, Times
<1>7. Packages[p].cells - 1 \in 1 .. (Packages[p].cells - 1)
  BY <1>1, <1>2
<1>8. HybridBase(p) + (Packages[p].cells - 1) >= (Pages - 1) * PageCells
  BY <1>1, <1>3, <1>4, <1>5, <1>6
<1>9. HybridBase(p) + (Packages[p].cells - 1) \in Cells
  BY <1>7, CellFacts
<1> QED BY <1>7, <1>8, <1>9

\* Staging a package in flash hides what was staged before.
LEMMA StagedFindable ==
    ASSUME NEW f, NEW q \in DOMAIN Packages, Packages[q].src = "internal"
    PROVE  Findable([a \in Cells |-> IF a < HybridBase(q) THEN f[a]
                                     ELSE IF a - HybridBase(q) < Packages[q].cells THEN Content(q, a - HybridBase(q))
                                     ELSE Blank])
<1> DEFINE g == [a \in Cells |-> IF a < HybridBase(q) THEN f[a]
                                 ELSE IF a - HybridBase(q) < Packages[q].cells THEN Content(q, a - HybridBase(q))
                                 ELSE Blank]
<1> SUFFICES ASSUME NEW p \in DOMAIN Packages,
                    Packages[p].kind = "delta", Packages[p].src = "internal", Aligned(p),
                    g[HybridBase(p)] \in HeaderOf(p),
                    g[HybridBase(p) + (Packages[p].cells - 1)] = Content(p, Packages[p].cells - 1),
                    NEW k \in 1 .. (Packages[p].cells - 1)
             PROVE  g[HybridBase(p) + k] = Content(p, k)
  BY DEF Findable
<1>1. HybridBase(p) \in Cells /\ HybridBase(q) \in Cells /\ HybridBase(p) \in Nat /\ HybridBase(q) \in Nat
      /\ HybridBase(p) + k \in Cells /\ k \in Nat /\ Packages[p].cells \in Nat /\ Packages[q].cells \in Nat
  BY PrefixFacts, CellFacts, PackageFacts
<1>2. HybridBase(p) + (Packages[p].cells - 1) \in Cells /\ Packages[p].cells - 1 \in Nat \ {0}
      /\ HybridBase(p) + (Packages[p].cells - 1) >= (Pages - 1) * PageCells
  BY TrailerPlace
<1>3. (Pages - 1) * PageCells >= HybridBase(q)
  <2>1. Packages[q].at <= Pages - 1 /\ Packages[q].at \in Int /\ Pages - 1 \in Int
    BY PackageFacts, SizeFacts
  <2> QED BY <2>1, Times, PrefixFacts
<1>4. p = q
  <2>1. CASE HybridBase(p) >= HybridBase(q)
    <3>1. g[HybridBase(p)] = Blank \/ (g[HybridBase(p)] = Content(q, HybridBase(p) - HybridBase(q))
                                       /\ HybridBase(p) - HybridBase(q) \in Nat)
      BY <1>1, <2>1
    <3> QED BY <3>1, ContentFacts
  <2>2. CASE HybridBase(p) < HybridBase(q)
    <3> DEFINE t == HybridBase(p) + (Packages[p].cells - 1)
    <3>0. t \in Int /\ (Pages - 1) * PageCells \in Int
      BY <1>1, <1>2, SizeFacts
    <3>1. t >= HybridBase(q) /\ t \in Cells
      BY <1>1, <1>2, <1>3, <3>0
    <3>2. g[t] = Content(p, Packages[p].cells - 1)
      OBVIOUS
    <3>3. g[t] = Blank \/ (g[t] = Content(q, t - HybridBase(q)) /\ t - HybridBase(q) \in Nat)
      <4> HIDE DEF t
      <4> QED BY <1>1, <3>0, <3>1
    <3> HIDE DEF t, g
    <3> QED BY <1>2, <3>2, <3>3, ContentFacts
  <2> QED BY <1>1, <2>1, <2>2
<1>5. ~(HybridBase(q) + k < HybridBase(q)) /\ HybridBase(q) + k - HybridBase(q) = k /\ k < Packages[q].cells
  BY <1>1, <1>4
<1> QED BY <1>1, <1>4, <1>5

\* An image that is installed hides a package, or leaves it alone.
LEMMA InstalledFindable ==
    ASSUME NEW f, Findable(f), NEW i \in DOMAIN ImageSize
    PROVE  Findable([c \in Cells |-> IF c \in ImageCells(i) THEN Img(i, c) ELSE f[c]])
<1> DEFINE g == [c \in Cells |-> IF c \in ImageCells(i) THEN Img(i, c) ELSE f[c]]
<1> SUFFICES ASSUME NEW p \in DOMAIN Packages,
                    Packages[p].kind = "delta", Packages[p].src = "internal", Aligned(p),
                    g[HybridBase(p)] \in HeaderOf(p),
                    g[HybridBase(p) + (Packages[p].cells - 1)] = Content(p, Packages[p].cells - 1),
                    NEW k \in 1 .. (Packages[p].cells - 1)
             PROVE  g[HybridBase(p) + k] = Content(p, k)
  BY DEF Findable
<1>1. HybridBase(p) \in Cells /\ HybridBase(p) \in Nat
      /\ HybridBase(p) + k \in Cells /\ k \in Nat
  BY PrefixFacts, CellFacts
<1>2. HybridBase(p) + (Packages[p].cells - 1) \in Cells /\ Packages[p].cells - 1 \in Nat \ {0}
  BY TrailerPlace
<1>3. HybridBase(p) \notin ImageCells(i)
  <2> SUFFICES ASSUME HybridBase(p) \in ImageCells(i) PROVE FALSE
    OBVIOUS
  <2>1. g[HybridBase(p)] = Img(i, HybridBase(p))
    BY <1>1
  <2> HIDE DEF g
  <2> QED BY <1>1, <2>1, ContentFacts
<1>4. ImageSize[i] * PageCells \in Int
  BY SizeFacts
<1>5. ASSUME NEW j \in Nat, HybridBase(p) + j \in Cells PROVE g[HybridBase(p) + j] = f[HybridBase(p) + j]
  <2>1. HybridBase(p) + j \notin ImageCells(i)
    BY <1>1, <1>3, <1>4 DEF ImageCells
  <2> QED BY <1>5, <2>1
<1>6. g[HybridBase(p)] = f[HybridBase(p)]
  BY <1>1, <1>3
<1>7. g[HybridBase(p) + k] = f[HybridBase(p) + k]
      /\ g[HybridBase(p) + (Packages[p].cells - 1)] = f[HybridBase(p) + (Packages[p].cells - 1)]
  BY <1>1, <1>2, <1>5
<1> HIDE DEF g
<1> QED BY <1>6, <1>7 DEF Findable

-----------------------------------------------------------------------------
(* The steps. *)

Quiet == Gate \cup {"none", "reject", "mark"}

\* Where no payload is used there is nothing to show of it.
LEMMA QuietOk ==
    ASSUME pc' \in Quiet, StagingInv' PROVE InstallInv'
<1>1. PayloadOk(pc', source', ext', ram', flash', pkg', step')
  BY DEF PayloadOk, Quiet, Gate, BlUpdate
<1>2. DecodeOk(pc', source', pkg', mem', step') /\ InstallsOk(pc', source', flash', pkg')
  BY DEF DecodeOk, InstallsOk, Quiet, Gate
<1> QED BY <1>1, <1>2 DEF InstallInv

\* The applier runs without a trigger.
LEMMA NotPending ==
    ASSUME IInv, pc # "none", trigger' = trigger \/ trigger' = "none", pc' \notin Gate PROVE StagingInv'
BY DEF IInv, Shape, AttemptInv, StagingInv, Pending

LEMMA InitInstall == Init => InstallInv
BY DEF Init, InstallInv, StagingInv, Pending, Gate, PayloadOk, DecodeOk, InstallsOk, BlUpdate

LEMMA AppStagesInstall ==
    ASSUME IInv, InstallInv, NEW q \in DOMAIN Packages, AppStages(q) PROVE InstallInv'
<1>1. run = "app" /\ pc' = pc /\ source' = Packages[q].src
  BY DEF AppStages
<1>2. pc' = "none"
  BY <1>1 DEF IInv, Shape
<1>3. Packages[q].src \in Sources /\ Packages[q].cells \in Nat
  BY PackageFacts
<1>4. source' = "qspi" => Container(q, ext')
  <2> SUFFICES ASSUME Packages[q].src = "qspi" PROVE Container(q, ext')
    BY <1>1
  <2>1. ext' = [k \in 0 .. (Packages[q].cells - 1) |-> Content(q, k)]
    BY DEF AppStages
  <2> QED BY <2>1 DEF Container
<1>5. source' \notin {"hybrid", "qspi", "sd"} => Findable(flash')
  <2> SUFFICES ASSUME Packages[q].src = "internal" PROVE Findable(flash')
    BY <1>1, <1>3 DEF Sources
  <2>1. flash' = [a \in Cells |-> IF a < HybridBase(q) THEN flash[a]
                                  ELSE IF a - HybridBase(q) < Packages[q].cells THEN Content(q, a - HybridBase(q))
                                  ELSE Blank]
    BY Zenon DEF AppStages, HybridBase
  <2> QED BY <2>1, StagedFindable
<1> QED BY <1>2, <1>4, <1>5, QuietOk DEF Quiet, StagingInv, StagingOk

LEMMA IdleInstall ==
    ASSUME IInv, InstallInv, BootApp \/ BootDfu \/ OtaBegin PROVE InstallInv'
<1>1. flash' = flash /\ ext' = ext /\ source' = source /\ pc' \in Gate \cup {pc} /\ pc = "none"
      /\ (trigger = "none" => trigger' = "none" /\ pc' = pc)
  BY DEF BootApp, BootDfu, OtaBegin, flashVars, Gate, IInv, Shape
<1>2. StagingInv'
  BY <1>1 DEF InstallInv, StagingInv, Pending, Gate
<1> QED BY <1>1, <1>2, QuietOk DEF Quiet

LEMMA LeaveDfuInstall ==
    ASSUME IInv, InstallInv, LeaveDfu PROVE InstallInv'
<1>1. run = "dfu" /\ pc' = pc /\ source' = source /\ trigger' = trigger /\ ext' = ext
  BY DEF LeaveDfu
<1>2. pc = "none"
  BY <1>1 DEF IInv, Shape
<1>3. flash' = flash \/ \E i \in DOMAIN ImageSize :
          flash' = [c \in Cells |-> IF c \in ImageCells(i) THEN Img(i, c) ELSE flash[c]]
  BY DEF LeaveDfu
<1>4. Findable(flash) => Findable(flash')
  BY <1>3, InstalledFindable
<1>5. StagingInv'
  BY <1>1, <1>2, <1>4 DEF InstallInv, StagingInv, StagingOk, Pending, Gate
<1> QED BY <1>1, <1>2, <1>5, QuietOk DEF Quiet

LEMMA CardChangesInstall ==
    ASSUME IInv, InstallInv, CardChanges PROVE InstallInv'
<1>1. source = "sd" /\ source' = source /\ flash' = flash /\ pc' = pc /\ pkg' = pkg /\ step' = step
      /\ mem' = mem /\ ram' = ram
  BY DEF CardChanges, retained, applier
<1>2. StagingInv'
  BY <1>1 DEF StagingInv, StagingOk
<1>3. PayloadOk(pc', source', ext', ram', flash', pkg', step')
  BY <1>1 DEF InstallInv, PayloadOk
<1>4. DecodeOk(pc', source', pkg', mem', step') /\ InstallsOk(pc', source', flash', pkg')
  BY <1>1 DEF DecodeOk, InstallsOk
<1> QED BY <1>2, <1>3, <1>4 DEF InstallInv

LEMMA PowerLossInstall ==
    ASSUME IInv, InstallInv, PowerLoss PROVE InstallInv'
<1>1. pc' = "none" /\ trigger' \in {trigger, "none"} /\ source' = (IF trigger' = "none" THEN "none" ELSE source)
  BY DEF PowerLoss
<1>2. CASE trigger' = "none"
  BY <1>1, <1>2, QuietOk DEF Quiet, StagingInv, Pending, Gate
<1>3. CASE trigger' # "none"
  <2>1. trigger' = trigger /\ source' = source /\ pc = "none"
    BY <1>1, <1>3 DEF IInv, AttemptInv, Shape
  <2>2. AtRisk = {}
    BY <2>1, Zenon DEF AtRisk
  <2>3. flash' = flash /\ ext' = ext
    BY <2>1, <2>2 DEF PowerLoss
  <2>4. StagingInv'
    BY <1>3, <2>1, <2>3 DEF InstallInv, StagingInv, Pending
  <2> QED BY <1>1, <2>4, QuietOk DEF Quiet
<1> QED BY <1>2, <1>3

\* The end of an attempt.
LEMMA FinishInstall ==
    ASSUME IInv, pc # "none", NEW code, FinishApply(code), trigger' = trigger PROVE InstallInv'
<1>1. pc' = "none"
  BY DEF FinishApply
<1> QED BY <1>1, NotPending, QuietOk DEF Quiet, Gate

\* What scan_mota finds.
LEMMA FoundFacts ==
    ASSUME NEW p \in Scanned
    PROVE  /\ p \in DOMAIN Packages /\ Staged(p, 0) \in HeaderOf(p)
           /\ Packages[p].cells > 1 => Staged(p, Packages[p].cells - 1) = Content(p, Packages[p].cells - 1)
           /\ source \notin {"hybrid", "qspi", "sd"} => Packages[p].src = "internal" /\ Aligned(p)
           /\ source = "hybrid" => p = pkg
<1>1. p \in DOMAIN Packages /\ Found(p)
  BY DEF Scanned
<1>2. Parses(p)
  <2>1. CASE source = "hybrid"
    BY <1>1, <2>1, Zenon DEF Found
  <2>2. CASE source = "sd"
    BY <1>1, <2>2 DEF Found
  <2>3. CASE source = "qspi"
    BY <1>1, <2>3 DEF Found
  <2>4. CASE source \notin {"hybrid", "qspi", "sd"}
    BY <1>1, <2>4 DEF Found
  <2> QED BY <2>1, <2>2, <2>3, <2>4
<1>3. source \notin {"hybrid", "qspi", "sd"} => Packages[p].src = "internal" /\ Aligned(p)
  BY <1>1 DEF Found
<1>4. source = "hybrid" => p = pkg
  BY ScannedFacts
<1> QED BY <1>1, <1>2, <1>3, <1>4 DEF Parses

\* The payload of a delta that passes is as it was signed.
LEMMA GateSigned ==
    ASSUME IInv, InstallInv, pc = "gate", NEW p \in Scanned, Candidate(p), Packages[p].kind = "delta", source # "sd"
    PROVE  SignedPayload(source, ext, ram, flash, p)
<1>1. /\ p \in DOMAIN Packages /\ Staged(p, 0) \in HeaderOf(p)
      /\ Packages[p].cells > 1 => Staged(p, Packages[p].cells - 1) = Content(p, Packages[p].cells - 1)
      /\ source \notin {"hybrid", "qspi", "sd"} => Packages[p].src = "internal" /\ Aligned(p)
      /\ source = "hybrid" => p = pkg
  BY FoundFacts
<1>2. StagingOk(source, ext, flash)
  BY DEF InstallInv, StagingInv, Pending, Gate
<1>3. Packages[p].cells \in Nat /\ HybridBase(p) \in Nat /\ HybridBase(p) + 0 = HybridBase(p)
  BY <1>1, PackageFacts, PrefixFacts
<1>4. CASE source = "hybrid"
  <2>1. ContainerAuthentic(p)
    BY <1>1, <1>4 DEF Candidate, Entered
  <2> QED BY <2>1, FetchIs DEF ContainerAuthentic, SignedPayload
<1>5. CASE source = "qspi"
  <2>1. PICK q \in DOMAIN Packages : Container(q, ext)
    BY <1>2, <1>5 DEF StagingOk
  <2>2. Packages[q].cells \in Nat \ {0} /\ DOMAIN ext = 0 .. (Packages[q].cells - 1)
        /\ \A k \in 0 .. (Packages[q].cells - 1) : ext[k] = Content(q, k)
    BY <2>1, PackageFacts DEF Container
  <2>3. Staged(p, 0) = Content(q, 0)
    <3>1. 0 \in DOMAIN ext /\ ext[0] = Content(q, 0)
      BY <2>2
    <3> QED BY <1>5, <3>1, StagedAt DEF External
  <2>4. p = q
    BY <1>1, <2>3, ContentFacts
  <2>5. ASSUME NEW k \in 1 .. (Packages[p].cells - 1) PROVE Fetch(source, ext, ram, flash, p, k) = Content(p, k)
    BY <1>3, <1>5, <2>2, <2>4 DEF Fetch
  <2> QED BY <2>5 DEF SignedPayload
<1>6. CASE source \notin {"hybrid", "qspi", "sd"}
  <2>1. Findable(flash) /\ Packages[p].src = "internal" /\ Aligned(p)
    BY <1>1, <1>2, <1>6 DEF StagingOk
  <2>2. Packages[p].cells > 1
    BY <1>1, <1>3, <2>1, TrailerPlace
  <2>3. \A k : Staged(p, k) = flash[HybridBase(p) + k]
    BY <1>6, StagedAt DEF External
  <2>4. flash[HybridBase(p)] \in HeaderOf(p)
        /\ flash[HybridBase(p) + (Packages[p].cells - 1)] = Content(p, Packages[p].cells - 1)
    BY <1>1, <1>3, <2>2, <2>3
  <2>5. \A k \in 1 .. (Packages[p].cells - 1) : flash[HybridBase(p) + k] = Content(p, k)
    BY <1>1, <2>1, <2>4 DEF Findable
  <2> QED BY <2>3, <2>5, FetchIs DEF SignedPayload
<1> QED BY <1>4, <1>5, <1>6

LEMMA GatePassesInstall ==
    ASSUME IInv, InstallInv, GatePasses PROVE InstallInv'
<1>1. PICK p \in Scanned : Candidate(p) /\ ~Rejected(p) /\ ~FullRefused(p) /\ pkg' = p
  BY DEF GatePasses
<1>2. pc = "gate" /\ pc' = "clear" /\ flash' = flash /\ ext' = ext /\ ram' = ram /\ source' = source
      /\ trigger' = trigger /\ step' = step
  BY DEF GatePasses, flashVars, retained
<1>3. StagingInv'
  BY <1>2, NotPending DEF Gate
<1>4. source \notin {"hybrid", "qspi", "sd"} => Packages[p].src = "internal"
  BY FoundFacts
<1>5. Packages[p].kind = "delta" /\ source # "sd" => SignedPayload(source, ext, ram, flash, p)
  BY <1>1, <1>2, GateSigned
<1>6. PayloadOk(pc', source', ext', ram', flash', pkg', step')
  BY <1>1, <1>2, <1>4, <1>5 DEF PayloadOk, BlUpdate
<1>7. DecodeOk(pc', source', pkg', mem', step') /\ InstallsOk(pc', source', flash', pkg')
  BY <1>2 DEF DecodeOk, InstallsOk
<1> QED BY <1>3, <1>6, <1>7 DEF InstallInv

LEMMA BlGatePassesInstall ==
    ASSUME IInv, InstallInv, BlGatePasses PROVE InstallInv'
<1>1. PICK p \in Scanned : BlCandidate(p) /\ ~BlRejected(p) /\ pkg' = p
  BY DEF BlGatePasses
<1>2. pc = "blgate" /\ pc' = "blclear" /\ flash' = flash /\ ext' = ext /\ ram' = ram /\ source' = source
      /\ trigger' = trigger /\ step' = step
  BY DEF BlGatePasses, flashVars, retained
<1>3. StagingInv'
  BY <1>2, NotPending DEF Gate
<1>4. source \notin {"hybrid", "qspi", "sd"} => Packages[p].src = "internal"
  BY FoundFacts
<1>5. LeftToCopy(source, ext, ram, flash, p, 0)
  <2>1. PayloadGood(p)
    BY <1>1 DEF BlRejected
  <2> QED BY <2>1, FetchIs DEF PayloadGood, LeftToCopy
<1>6. source # "hybrid"
  BY <1>1 DEF BlCandidate
<1>7. PayloadOk(pc', source', ext', ram', flash', pkg', step')
  BY <1>1, <1>2, <1>4, <1>5, <1>6 DEF PayloadOk, BlUpdate
<1>8. DecodeOk(pc', source', pkg', mem', step') /\ InstallsOk(pc', source', flash', pkg')
  BY <1>2 DEF DecodeOk, InstallsOk
<1> QED BY <1>3, <1>7, <1>8 DEF InstallInv

\* What the constants say of a package that was chosen.
LEMMA ChosenFacts ==
    ASSUME IInv, pc \in Choice
    PROVE  /\ pkg \in DOMAIN Packages /\ HybridBase(pkg) \in Nat /\ HybridBase(pkg) \in Cells
           /\ Packages[pkg].size \in Nat \ {0} /\ Packages[pkg].at \in Nat /\ DOMAIN flash = Cells /\ step \in Nat
<1>1. pkg \in DOMAIN Packages /\ DOMAIN flash = Cells /\ step \in Nat
  BY DEF IInv, ChoiceInv, Shape
<1> QED BY <1>1, PackageFacts, PrefixFacts

LEMMA ClearInstall ==
    ASSUME IInv, InstallInv, Clear PROVE InstallInv'
<1>1. pc \in {"clear", "blclear"} /\ ram' = ram /\ trigger' = trigger
  BY DEF Clear
<1>2. CASE ClearFails /\ FinishApply("failed")
  BY <1>1, <1>2, FinishInstall
<1>3. CASE ClearApproval /\ pc' = (IF pc = "clear" THEN "commit" ELSE "blcopy") /\ UNCHANGED <<run, source, applier>>
  <2>1. source' = source /\ pkg' = pkg /\ step' = step /\ mem' = mem
        /\ ((pc = "clear" /\ pc' = "commit") \/ (pc = "blclear" /\ pc' = "blcopy"))
    BY <1>1, <1>3 DEF applier
  <2>2. pkg \in DOMAIN Packages /\ HybridBase(pkg) \in Nat /\ DOMAIN flash = Cells /\ step = 0
        /\ Packages[pkg].size \in Nat
    BY <1>1, ChosenFacts DEF Choice, IInv, Shape, Before
  <2>3. SameExt(source, ext, ext')
    <3>1. source \in {"qspi", "sd"} => ext' = ext \/ ext' = [ext EXCEPT ![0] = Header(pkg, FALSE)]
      BY <1>3 DEF ClearApproval, External
    <3>2. CASE source \in {"qspi", "sd"} /\ ext' = [ext EXCEPT ![0] = Header(pkg, FALSE)]
      <4>1. DOMAIN ext' = DOMAIN ext
        BY <3>2
      <4>2. ASSUME NEW k \in Nat \ {0} PROVE ext'[k] = ext[k] \/ k \notin DOMAIN ext
        <5>1. k # 0
          OBVIOUS
        <5> QED BY <3>2, <5>1
      <4> QED BY <4>1, <4>2 DEF SameExt
    <3> QED BY <3>1, <3>2 DEF SameExt
  <2>4. Above(flash, flash', HybridBase(pkg))
    <3> SUFFICES ASSUME NEW a \in Cells, a > HybridBase(pkg) PROVE flash'[a] = flash[a]
      BY DEF Above
    <3>1. a # HybridBase(pkg)
      BY <2>2
    <3>2. flash' = flash \/ flash' = [flash EXCEPT ![HybridBase(pkg)] = Header(pkg, FALSE)]
      BY <1>3 DEF ClearApproval
    <3> QED BY <2>2, <3>1, <3>2
  <2>5. source \notin {"hybrid", "qspi", "sd"} => Packages[pkg].src = "internal"
    BY <1>1 DEF InstallInv, PayloadOk
  <2>6. pc = "clear" /\ Packages[pkg].kind = "delta" /\ source # "sd" => SignedPayload(source, ext', ram, flash', pkg)
    <3> SUFFICES ASSUME pc = "clear", Packages[pkg].kind = "delta", source # "sd"
                 PROVE  SignedPayload(source, ext', ram, flash', pkg)
      OBVIOUS
    <3>1. SignedPayload(source, ext, ram, flash, pkg)
      BY DEF InstallInv, PayloadOk
    <3> QED BY <3>1, <2>2, <2>3, <2>4, <2>5, PayloadKept
  <2>7. pc = "blclear" /\ source # "sd" => LeftToCopy(source, ext', ram, flash', pkg, 0)
    <3> SUFFICES ASSUME pc = "blclear", source # "sd"
                 PROVE  LeftToCopy(source, ext', ram, flash', pkg, 0)
      OBVIOUS
    <3>1. LeftToCopy(source, ext, ram, flash, pkg, 0)
      BY DEF InstallInv, PayloadOk
    <3>2. HybridBase(pkg) <= HybridBase(pkg) + 0 * PageCells
      BY <2>2, SizeFacts
    <3> QED BY <3>1, <3>2, <2>2, <2>3, <2>4, <2>5, PayloadKept
  <2>8. Copied(flash', pkg, CopyFrom("blcopy", pkg), 0)
    BY DEF Copied
  <2>9. pc = "blclear" => source # "hybrid"
    BY DEF InstallInv, PayloadOk, BlUpdate
  <2>10. PayloadOk(pc', source', ext', ram', flash', pkg', step')
    BY <1>1, <2>1, <2>2, <2>5, <2>6, <2>7, <2>8, <2>9 DEF PayloadOk, BlUpdate
  <2>11. DecodeOk(pc', source', pkg', mem', step') /\ InstallsOk(pc', source', flash', pkg')
    BY <2>1 DEF DecodeOk, InstallsOk
  <2>12. StagingInv'
    BY <1>1, <2>1, NotPending DEF Gate
  <2> QED BY <2>10, <2>11, <2>12 DEF InstallInv
<1> QED BY <1>2, <1>3 DEF Clear

\* A base that is in place is one that nothing of is moved yet.
LEMMA ProgressBegins ==
    ASSUME NEW f, NEW p, NEW w \in Nat, Roomy(p, w), Intact(Packages[p].base, f)
    PROVE  Progress(p, FirstCells(f, w), 0)
<1> DEFINE b == Packages[p].base
           n == ImageSize[b]
           m == FirstCells(f, w)
<1>1. n \in Nat \ {0} /\ n <= w /\ PageCells \in Nat /\ PageCells > 0 /\ w \in Nat
  BY SizeFacts DEF Roomy
<1>2. 0 \div (PageCells + 1) = 0 /\ (0 % (PageCells + 1)) - 1 = -1
  BY <1>1
<1>3. Moving(p, m, 0, -1)
  <2> SUFFICES ASSUME NEW q \in 0 .. (n - 1), NEW i \in 0 .. (PageCells - 1)
               PROVE  /\ m[q * PageCells + i] = Img(b, q * PageCells + i)
                      /\ ~(q >= n - 0 \/ (q = n - 0 - 1 /\ i < -1))
    BY DEF Moving
  <2>1. q \in Nat /\ q < n /\ q < w /\ ~(i < -1) /\ ~(q >= n - 0)
    BY <1>1
  <2> HIDE DEF n
  <2>2. q * PageCells + i \in 0 .. (n * PageCells - 1) /\ q * PageCells + i \in 0 .. (w * PageCells - 1)
    BY <1>1, <2>1, CellBelow
  <2>3. f[q * PageCells + i] = Img(b, q * PageCells + i)
    BY <2>2 DEF Intact, ImageCells, n
  <2> QED BY <2>1, <2>2, <2>3 DEF FirstCells
<1>4. ProgressAt(p, m, 0, -1)
  BY <1>1, <1>3 DEF ProgressAt
<1> QED BY <1>2, <1>4 DEF Progress

LEMMA CommitInstall ==
    ASSUME IInv, InstallInv, Commit PROVE InstallInv'
<1>1. pc = "commit" /\ mem' = FirstCells(flash, Workspace(pkg))
      /\ pc' = (IF Packages[pkg].kind = "full" THEN "copy" ELSE "decode")
      /\ flash' = flash /\ ext' = ext /\ ram' = ram /\ trigger' = trigger
      /\ source' = source /\ pkg' = pkg /\ step' = step
  BY DEF Commit, retained
<1>2. pkg \in DOMAIN Packages /\ step = 0 /\ Packages[pkg].kind # "boot" /\ Packages[pkg].kind \in Kinds
      /\ Packages[pkg].size \in Nat
  BY <1>1, PackageFacts DEF IInv, ChoiceInv, Choice, Shape, Before
<1>3. StagingInv'
  BY <1>1, NotPending DEF Gate
<1>4. InstallsOk(pc', source', flash', pkg')
  BY <1>1 DEF InstallsOk
<1>5. CASE Packages[pkg].kind = "full"
  <2>1. pc' = "copy" /\ External /\ (source = "sd" \/ PayloadGood(pkg))
    BY <1>1, <1>5 DEF IInv, VerifiedInv
  <2>2. source # "sd" => LeftToCopy(source, ext, ram, flash, pkg, 0)
    BY <2>1, FetchIs DEF PayloadGood, LeftToCopy
  <2>3. Copied(flash, pkg, CopyFrom("copy", pkg), 0)
    BY DEF Copied
  <2>4. PayloadOk(pc', source', ext', ram', flash', pkg', step')
    BY <1>1, <1>2, <2>1, <2>2, <2>3 DEF PayloadOk, BlUpdate, External
  <2>5. DecodeOk(pc', source', pkg', mem', step')
    BY <2>1 DEF DecodeOk
  <2> QED BY <1>3, <1>4, <2>4, <2>5 DEF InstallInv
<1>6. CASE Packages[pkg].kind = "delta"
  <2>1. pc' = "decode" /\ Intact(Packages[pkg].base, flash) /\ GeometryOk(pkg)
    BY <1>1, <1>6 DEF IInv, VerifiedInv
  <2>2. Workspace(pkg) \in Nat /\ Workspace(pkg) = Room(source, pkg)
    BY <1>2, WorkspaceFacts, FetchIs
  <2>3. Packages[pkg].shift # 0 => Roomy(pkg, Workspace(pkg))
    <3>1. Packages[pkg].memory \in Nat /\ Packages[pkg].shift \in Nat /\ ImageSize[Packages[pkg].base] \in Nat \ {0}
      BY <1>2, <1>6, PackageFacts, SizeFacts
    <3> QED BY <1>2, <2>1, <2>2, <3>1 DEF GeometryOk, Roomy
  <2>4. Packages[pkg].shift # 0 => Progress(pkg, mem', 0)
    BY <1>1, <2>1, <2>2, <2>3, ProgressBegins
  <2>5. (source \notin {"hybrid", "qspi", "sd"} => Packages[pkg].src = "internal")
        /\ (source # "sd" => SignedPayload(source, ext, ram, flash, pkg))
    BY <1>1, <1>6 DEF InstallInv, PayloadOk
  <2>6. PayloadOk(pc', source', ext', ram', flash', pkg', step')
    BY <1>1, <2>1, <2>2, <2>3, <2>5 DEF PayloadOk, BlUpdate
  <2>7. DecodeOk(pc', source', pkg', mem', step')
    BY <1>1, <1>2, <2>4 DEF DecodeOk
  <2> QED BY <1>3, <1>4, <2>6, <2>7 DEF InstallInv
<1> QED BY <1>2, <1>5, <1>6 DEF Kinds

\* The decoder works below a package in flash.
LEMMA DecodeAbove ==
    ASSUME IInv, DecoderErases \/ DecoderWrites, ~External
    PROVE  Above(flash, flash', HybridBase(pkg))
<1>0. pc = "decode" /\ Op(pkg, step).page < Workspace(pkg)
  BY DEF DecoderErases, DecoderWrites
<1> SUFFICES ASSUME NEW a \in Cells, a > HybridBase(pkg) PROVE flash'[a] = flash[a]
  BY DEF Above
<1>1. pkg \in DOMAIN Packages /\ DOMAIN flash = Cells /\ CacheShape(cache)
      /\ cache.page < Workspace(pkg) /\ Op(pkg, step).page \in Nat
  BY <1>0, DecodeFacts
<1>2. Workspace(pkg) = Packages[pkg].at /\ Packages[pkg].at \in Nat /\ cache.page \in Int
      /\ HybridBase(pkg) = Packages[pkg].at * PageCells
  BY <1>1, PackageFacts, SizeFacts DEF Workspace, CacheShape, HybridBase
<1>3. ASSUME NEW p \in Int, p < Packages[pkg].at PROVE a \notin InPage(p)
  <2>1. (p + 1) * PageCells <= Packages[pkg].at * PageCells /\ (p + 1) * PageCells = p * PageCells + PageCells
        /\ p * PageCells \in Int /\ Packages[pkg].at * PageCells \in Int
    BY <1>2, <1>3, Times
  <2>2. PageCells \in Nat /\ Pages * PageCells \in Int /\ a \in Int
    BY SizeFacts, Times DEF Cells
  <2> QED BY <1>2, <2>1, <2>2 DEF InPage
<1>4. Flushed(flash)[a] = flash[a]
  BY <1>1, <1>2, <1>3 DEF Flushed, WithPage
<1>5. CASE DecoderErases
  <2>1. flash' = flash \/ flash' = Erased(flash, Op(pkg, step).page)
    BY <1>5 DEF DecoderErases
  <2>2. a \notin InPage(Op(pkg, step).page)
    BY <1>0, <1>1, <1>2, <1>3
  <2> QED BY <1>1, <2>1, <2>2 DEF Erased
<1>6. CASE DecoderWrites
  BY <1>4, <1>6 DEF DecoderWrites
<1> QED BY <1>5, <1>6

\* A step of the decoder that goes on.
LEMMA DecoderOnInstall ==
    ASSUME IInv, InstallInv, DecoderErases \/ DecoderWrites,
           source # "sd" /\ Packages[pkg].good /\ Packages[pkg].shift # 0 => Progress(pkg, mem', step + 1)
    PROVE  InstallInv'
<1>1. pc = "decode" /\ pc' = pc /\ step' = step + 1 /\ ext' = ext /\ ram' = ram /\ source' = source /\ pkg' = pkg
      /\ trigger' = trigger
  BY DEF DecoderErases, DecoderWrites, retained
<1>2. pkg \in DOMAIN Packages /\ HybridBase(pkg) \in Nat
  BY <1>1, ChosenFacts DEF Choice
<1>3. StagingInv'
  BY <1>1, NotPending DEF Gate
<1>4. InstallsOk(pc', source', flash', pkg')
  BY <1>1 DEF InstallsOk
<1>5. DecodeOk(pc', source', pkg', mem', step')
  BY <1>1 DEF DecodeOk
<1>6. (source \notin {"hybrid", "qspi", "sd"} => Packages[pkg].src = "internal")
      /\ (Packages[pkg].shift # 0 => Roomy(pkg, Room(source, pkg)))
      /\ (Packages[pkg].kind = "delta" /\ source # "sd" => SignedPayload(source, ext, ram, flash, pkg))
  BY <1>1 DEF InstallInv, PayloadOk
<1>7. SameExt(source, ext, ext') /\ (source \notin {"qspi", "sd"} => Above(flash, flash', HybridBase(pkg)))
  BY <1>1, DecodeAbove, FetchIs DEF SameExt
<1>8. Packages[pkg].kind = "delta" /\ source # "sd" => SignedPayload(source, ext', ram, flash', pkg)
  BY <1>2, <1>6, <1>7, PayloadKept
<1>9. PayloadOk(pc', source', ext', ram', flash', pkg', step')
  BY <1>1, <1>6, <1>8 DEF PayloadOk, BlUpdate
<1> QED BY <1>3, <1>4, <1>5, <1>9 DEF InstallInv

\* What a package that decodes has done so far.
LEMMA DecodingFacts ==
    ASSUME IInv, InstallInv, pc = "decode", source # "sd", Packages[pkg].good, Packages[pkg].shift # 0
    PROVE  /\ Workspace(pkg) \in Nat /\ DOMAIN mem = 0 .. (Workspace(pkg) * PageCells - 1)
           /\ Roomy(pkg, Workspace(pkg)) /\ Progress(pkg, mem, step) /\ step \in Nat
           /\ Ops(pkg) = Segments(pkg) * (PageCells + 1)
           /\ SignedPayload(source, ext, ram, flash, pkg) /\ pkg \in DOMAIN Packages
           /\ \A a \in DOMAIN mem : cread(a) = mem[a]
<1>1. Workspace(pkg) \in Nat /\ DOMAIN mem = 0 .. (Workspace(pkg) * PageCells - 1) /\ step \in Nat
      /\ Coherent(flash, cache, mem) /\ pkg \in DOMAIN Packages /\ Packages[pkg].kind = "delta"
  BY DecodeFacts, SizeFacts
<1>2. Roomy(pkg, Workspace(pkg)) /\ SignedPayload(source, ext, ram, flash, pkg) /\ Progress(pkg, mem, step)
  BY <1>1, FetchIs DEF InstallInv, PayloadOk, DecodeOk
<1>3. \A a \in DOMAIN mem : cread(a) = mem[a]
  BY <1>1 DEF Coherent, Read, cread
<1> QED BY <1>1, <1>2, <1>3 DEF Ops, Segments

LEMMA DecoderErasesInstall ==
    ASSUME IInv, InstallInv, DecoderErases PROVE InstallInv'
<1>1. pc = "decode" /\ step < Ops(pkg) /\ Op(pkg, step).cell = -1 /\ mem' = Erased(mem, Op(pkg, step).page)
  BY DEF DecoderErases
<1>2. ASSUME source # "sd", Packages[pkg].good, Packages[pkg].shift # 0 PROVE Progress(pkg, mem', step + 1)
  BY <1>1, <1>2, DecodingFacts, ProgressErases
<1> QED BY <1>2, DecoderOnInstall

\* What the decoder writes is what the patch was made to write.
LEMMA DecodedSigned ==
    ASSUME IInv, InstallInv, pc = "decode", source # "sd", Packages[pkg].good, Packages[pkg].shift # 0,
           step < Ops(pkg), Op(pkg, step).cell # -1
    PROVE  Decoded(pkg, Op(pkg, step)) = Signed(pkg, step)
<1> DEFINE o == Op(pkg, step)
           b == Packages[pkg].base
           n == ImageSize[b]
           z == Packages[pkg].size
           S == Packages[pkg].shift
           w == Workspace(pkg)
           seg == step \div (PageCells + 1)
           c == (step % (PageCells + 1)) - 1
<1>1. w \in Nat /\ DOMAIN mem = 0 .. (w * PageCells - 1) /\ Roomy(pkg, w) /\ Progress(pkg, mem, step) /\ step \in Nat
      /\ step < Segments(pkg) * (PageCells + 1) /\ SignedPayload(source, ext, ram, flash, pkg)
      /\ pkg \in DOMAIN Packages /\ \A a \in DOMAIN mem : cread(a) = mem[a]
  BY DecodingFacts
<1>2. n \in Nat \ {0} /\ S \in Nat \ {0} /\ z \in Nat /\ n + S <= w /\ z <= w /\ PageCells \in Nat /\ PageCells > 0
  BY <1>1, SizeFacts DEF Roomy
<1>3. seg \in Nat /\ c \in -1 .. (PageCells - 1)
  BY <1>1, OpPlace
<1>4. /\ o.cell = c
      /\ seg < n => /\ o.page = n - 1 - seg + S /\ ~o.patch
                    /\ o.from = (n - 1 - seg) * PageCells + c
      /\ ~(seg < n) => /\ o.page = seg - n /\ o.patch
                       /\ o.from = (seg - n + S) * PageCells + c
  BY <1>1, OpIs
<1>5. c \in 0 .. (PageCells - 1)
  <2>1. c # -1
    BY <1>4
  <2> HIDE DEF c
  <2> QED BY <1>2, <1>3, <2>1
<1>6. seg < n + z
  <2>1. n + z \in Nat /\ step < (n + z) * (PageCells + 1)
    BY <1>1, <1>2 DEF Segments
  <2> HIDE DEF n, z
  <2> QED BY <1>1, <2>1, SegmentBound
<1>7. ProgressAt(pkg, mem, seg, c)
  BY <1>1 DEF Progress
<1>8. CASE seg < n
  <2> DEFINE q == n - 1 - seg
  <2>1. q \in 0 .. (n - 1) /\ q < n - seg /\ q \in Nat /\ q < w
    <3>1. seg < n /\ n \in Nat /\ S \in Nat /\ n + S <= w /\ w \in Nat /\ seg \in Nat
      BY <1>1, <1>2, <1>3, <1>8
    <3> HIDE DEF seg, n, w, S
    <3> QED BY <3>1
  <2>2. Moving(pkg, mem, seg, c)
    BY <1>7, <1>8 DEF ProgressAt
  <2>3. mem[q * PageCells + c] = Img(b, q * PageCells + c)
    <3> HIDE DEF c, seg
    <3> QED BY <1>5, <2>1, <2>2 DEF Moving
  <2>4. q * PageCells + c \in DOMAIN mem
    <3> HIDE DEF q, c, w
    <3> QED BY <1>1, <1>5, <2>1, CellBelow
  <2>5. o.from = q * PageCells + c /\ ~o.patch
    BY <1>4, <1>8
  <2>6. Decoded(pkg, o) = cread(o.from) /\ Signed(pkg, step) = Img(b, o.from)
    BY <2>5 DEF Decoded, Signed
  <2> QED BY <1>1, <2>3, <2>4, <2>5, <2>6
<1>9. CASE ~(seg < n)
  <2> DEFINE s == seg - n
             to == s * PageCells + c
  <2>1. s \in 0 .. (z - 1) /\ s \in Nat /\ s < z /\ s < w
    <3>1. ~(seg < n) /\ seg < n + z /\ n \in Nat /\ z \in Nat /\ z <= w /\ w \in Nat /\ seg \in Nat
      BY <1>1, <1>2, <1>3, <1>6, <1>9
    <3> HIDE DEF seg, n, w, z
    <3> QED BY <3>1
  <2>2. Making(pkg, mem, s, c)
    BY <1>7, <1>9 DEF ProgressAt
  <2>3. o.page = s /\ o.patch = TRUE /\ o.from = (s + S) * PageCells + c /\ o.cell = c
    <3>1. o.page = s /\ o.from = (s + S) * PageCells + c /\ o.cell = c
      BY <1>4, <1>9
    <3>2. o.patch = TRUE
      <4> HIDE DEF seg, n, S, c
      <4> QED BY <1>9, Zenon DEF Op, o, seg, n, b
    <3> QED BY <3>1, <3>2
  <2>4. to \in Nat /\ to \in 0 .. (z * PageCells - 1) /\ to + 1 \in 1 .. (Packages[pkg].cells - 1)
    <3>1. Packages[pkg].cells = z * PageCells + 1
      BY <1>1, PackageFacts
    <3>2. z * PageCells \in Nat
      BY <1>2
    <3> HIDE DEF s, c, z
    <3>3. to \in 0 .. (z * PageCells - 1)
      BY <1>2, <1>5, <2>1, CellBelow
    <3> HIDE DEF to
    <3> QED BY <3>1, <3>2, <3>3
  <2>5. Staged(pkg, to + 1) = Content(pkg, to + 1)
    <3> HIDE DEF to
    <3> QED BY <1>1, <2>4, FetchIs DEF SignedPayload
  <2>6. (s + S) * PageCells = s * PageCells + S * PageCells /\ s * PageCells \in Int /\ S * PageCells \in Int
    <3> HIDE DEF s, S
    <3> QED BY <1>2, <2>1
  <2>7. o.from - S * PageCells = to
    <3>1. o.from = (s + S) * PageCells + c
      BY <2>3
    <3> HIDE DEF s, S, c, o
    <3> QED BY <1>5, <2>6, <3>1
  <2>8. to \in ImageCells(b) => cread(o.from) = Img(b, to)
    <3> SUFFICES ASSUME to \in ImageCells(b) PROVE cread(o.from) = Img(b, to)
      OBVIOUS
    <3>1. s < n
      <4>1. to < n * PageCells /\ n * PageCells \in Int
        BY <1>2 DEF ImageCells
      <4>2. s * PageCells < n * PageCells
        <5> HIDE DEF s, n, c
        <5> QED BY <1>5, <2>6, <4>1
      <4> HIDE DEF s, n
      <4> QED BY <1>2, <2>1, <4>2, Times
    <3>2. s \in 0 .. (n - 1) /\ s + S \in Nat /\ s + S < w /\ s >= s
      <4>1. s \in Nat /\ s < n /\ n \in Nat /\ S \in Nat /\ n + S <= w /\ w \in Nat
        BY <1>1, <1>2, <2>1, <3>1
      <4> HIDE DEF s, n, S, w
      <4> QED BY <4>1
    <3>3. mem[(s + S) * PageCells + c] = Img(b, s * PageCells + c)
      <4> HIDE DEF s, c
      <4> QED BY <1>5, <2>2, <3>2 DEF Making
    <3>4. (s + S) * PageCells + c \in DOMAIN mem
      <4> DEFINE x == s + S
      <4>1. x \in Nat /\ x < w /\ w \in Nat
        BY <1>1, <3>2
      <4> HIDE DEF s, c, S, w, x
      <4>2. x * PageCells + c \in 0 .. (w * PageCells - 1)
        BY <1>5, <4>1, CellBelow
      <4> QED BY <1>1, <4>2 DEF x
    <3> QED BY <1>1, <2>3, <3>3, <3>4
  <2>9. o.page * PageCells + o.cell = to
    BY <2>3
  <2>10. Decoded(pkg, o) = Img(Packages[pkg].image, to)
    <3> HIDE DEF o, to
    <3> QED BY <2>3, <2>5, <2>7, <2>8, <2>9 DEF Decoded
  <2>11. Signed(pkg, step) = Img(Packages[pkg].image, to)
    BY <2>3, <2>9 DEF Signed
  <2> QED BY <2>10, <2>11
<1> QED BY <1>8, <1>9

LEMMA DecoderWritesInstall ==
    ASSUME IInv, InstallInv, DecoderWrites PROVE InstallInv'
<1> DEFINE o == Op(pkg, step)
<1>1. pc = "decode" /\ step < Ops(pkg) /\ o.cell # -1 /\ o.page < Workspace(pkg)
      /\ mem' = [mem EXCEPT ![o.page * PageCells + o.cell] = Decoded(pkg, o)]
  BY DEF DecoderWrites
<1>2. ASSUME source # "sd", Packages[pkg].good, Packages[pkg].shift # 0 PROVE Progress(pkg, mem', step + 1)
  <2>1. Decoded(pkg, o) = Signed(pkg, step)
    BY <1>1, <1>2, DecodedSigned
  <2>2. WroteIn(mem, mem', o.page, o.cell, Signed(pkg, step))
    <3> HIDE DEF o
    <3> QED BY <1>1, <2>1 DEF WroteIn, Wrote
  <2> QED BY <1>1, <1>2, <2>2, DecodingFacts, ProgressWrites
<1> QED BY <1>2, DecoderOnInstall

\* Pages that are made are cells of the image.
LEMMA PagesValid ==
    ASSUME NEW f, NEW p \in DOMAIN Packages, NEW page \in Nat,
           \A q \in 0 .. (Packages[p].size - 1), i \in 0 .. (PageCells - 1) :
              f[(page + q) * PageCells + i] = Img(Packages[p].image, q * PageCells + i)
    PROVE  HashValid(f, page, p)
<1> SUFFICES ASSUME NEW c \in 0 .. (Packages[p].size * PageCells - 1)
             PROVE  f[page * PageCells + c] = Img(Packages[p].image, c)
  BY DEF HashValid
<1> DEFINE q == PageOf(c)
           i == c % PageCells
<1>0. Packages[p].size \in Nat /\ Packages[p].size * PageCells \in Int /\ PageCells \in Nat
  BY PackageFacts, SizeFacts, Times
<1>1. q \in 0 .. (Packages[p].size - 1)
  BY <1>0, BelowCell
<1>2. c \in Nat /\ i \in 0 .. (PageCells - 1) /\ c = q * PageCells + i
  <2>1. c \in Nat
    BY <1>0
  <2> QED BY <2>1, Place
<1> HIDE DEF q, i
<1>3. q \in Nat /\ (page + q) * PageCells = page * PageCells + q * PageCells
      /\ page * PageCells \in Int /\ q * PageCells \in Int /\ i \in Int
  BY <1>0, <1>1, <1>2
<1>4. (page + q) * PageCells + i = page * PageCells + c
  BY <1>2, <1>3
<1>5. f[(page + q) * PageCells + i] = Img(Packages[p].image, q * PageCells + i)
  BY <1>1, <1>2
<1> QED BY <1>2, <1>4, <1>5

\* When all the operations are done, the image is made.
LEMMA ProgressEnds ==
    ASSUME NEW p \in DOMAIN Packages, NEW m, ImageSize[Packages[p].base] \in Nat,
           Progress(p, m, Segments(p) * (PageCells + 1))
    PROVE  \A q \in 0 .. (Packages[p].size - 1), i \in 0 .. (PageCells - 1) :
              m[q * PageCells + i] = Img(Packages[p].image, q * PageCells + i)
<1> DEFINE n == ImageSize[Packages[p].base]
           z == Packages[p].size
           N == PageCells + 1
           g == n + z
           k == g * N
<1>1. n \in Nat /\ z \in Nat \ {0} /\ N \in Nat /\ N > 0 /\ PageCells \in Nat
  BY PackageFacts, SizeFacts
<1>2. Segments(p) * (PageCells + 1) = k /\ g \in Nat /\ g - n = z /\ ~(g < n)
  <2>1. Segments(p) * (PageCells + 1) = k
    BY DEF Segments
  <2> HIDE DEF n, z
  <2> QED BY <1>1, <2>1
<1>3. k \div N = g /\ (k % N) - 1 = -1
  <2> HIDE DEF g, N
  <2>1. k \in Nat /\ k \div N \in Nat /\ k % N \in 0 .. (N - 1) /\ k = (k \div N) * N + (k % N)
    BY <1>1, <1>2
  <2> DEFINE d == k \div N
             r == k % N
  <2>2. d * N \in Int /\ g * N \in Int /\ g * N = d * N + r /\ d \in Nat /\ r \in 0 .. (N - 1)
    <3>1. d \in Nat /\ g \in Nat /\ N \in Nat
      BY <1>1, <1>2, <2>1
    <3>2. g * N = d * N + r /\ r \in 0 .. (N - 1)
      BY <2>1
    <3> HIDE DEF d, r
    <3> QED BY <3>1, <3>2
  <2> HIDE DEF d, r
  <2>3. ASSUME NEW x \in Nat, NEW y \in Nat, x < y PROVE x * N + N <= y * N
    <3>1. (y - x - 1) \in Nat
      BY <2>3
    <3>2. (y - x - 1) * N \in Nat
      BY <1>1, <3>1
    <3>3. (y - x - 1) * N = y * N - x * N - N
      BY <1>1
    <3>4. x * N \in Int /\ y * N \in Int
      BY <1>1
    <3> QED BY <1>1, <3>2, <3>3, <3>4
  <2>4. ~(d < g)
    <3> SUFFICES ASSUME d < g PROVE FALSE
      OBVIOUS
    <3>1. d * N + N <= g * N
      BY <1>2, <2>2, <2>3
    <3> QED BY <1>1, <2>2, <3>1
  <2>5. ~(g < d)
    <3> SUFFICES ASSUME g < d PROVE FALSE
      OBVIOUS
    <3>1. g * N + N <= d * N
      BY <1>2, <2>2, <2>3
    <3> QED BY <1>1, <2>2, <3>1
  <2>6. d = g
    BY <1>2, <2>2, <2>4, <2>5
  <2>7. r = 0
    BY <1>1, <2>2, <2>6
  <2> QED BY <2>6, <2>7 DEF d, r
<1>4. ProgressAt(p, m, g, -1)
  <2>1. Progress(p, m, k)
    BY <1>2
  <2> QED BY <1>3, <2>1 DEF Progress
<1>5. Making(p, m, z, -1)
  <2> HIDE DEF g
  <2> QED BY <1>2, <1>4 DEF ProgressAt
<1> SUFFICES ASSUME NEW q \in 0 .. (z - 1), NEW i \in 0 .. (PageCells - 1)
             PROVE  m[q * PageCells + i] = Img(Packages[p].image, q * PageCells + i)
  OBVIOUS
<1>6. q < z
  BY <1>1
<1> QED BY <1>5, <1>6 DEF Making

LEMMA DecoderEndsInstall ==
    ASSUME IInv, InstallInv, DecoderEnds PROVE InstallInv'
<1>1. pc = "decode" /\ step = Ops(pkg) /\ pc' = "check" /\ flash' = Flushed(flash) /\ trigger' = trigger
      /\ source' = source /\ pkg' = pkg
  BY DEF DecoderEnds, retained
<1>2. StagingInv'
  BY <1>1, NotPending DEF Gate
<1>3. PayloadOk(pc', source', ext', ram', flash', pkg', step')
  BY <1>1 DEF PayloadOk, BlUpdate
<1>4. DecodeOk(pc', source', pkg', mem', step')
  BY <1>1 DEF DecodeOk
<1>5. ASSUME source # "sd", Packages[pkg].good, Packages[pkg].shift # 0 PROVE HashValid(flash', 0, pkg)
  <2> DEFINE w == Workspace(pkg)
  <2>1. w \in Nat /\ DOMAIN mem = 0 .. (w * PageCells - 1) /\ Roomy(pkg, w) /\ Progress(pkg, mem, step)
        /\ Ops(pkg) = Segments(pkg) * (PageCells + 1) /\ pkg \in DOMAIN Packages
    BY <1>1, <1>5, DecodingFacts
  <2>2. \A q \in 0 .. (Packages[pkg].size - 1), i \in 0 .. (PageCells - 1) :
            mem[q * PageCells + i] = Img(Packages[pkg].image, q * PageCells + i)
    BY <1>1, <2>1, ProgressEnds DEF Roomy
  <2>3. \A a \in DOMAIN mem : flash'[a] = mem[a]
    <3>1. DOMAIN mem \subseteq Nat /\ DOMAIN mem \subseteq DOMAIN flash /\ Coherent(flash, cache, mem) /\ CacheShape(cache)
      BY <1>1, DecodeFacts
    <3>2. flash' = IF cache.dirty THEN WithPage(flash, cache.page, cache.buf) ELSE flash
      BY <1>1 DEF Flushed
    <3>3. \A a \in DOMAIN mem : (IF cache.dirty THEN WithPage(flash, cache.page, cache.buf) ELSE flash)[a] = mem[a]
      BY <3>1, CoherentFlushed
    <3> QED BY <3>2, <3>3
  <2>4. ASSUME NEW q \in 0 .. (Packages[pkg].size - 1), NEW i \in 0 .. (PageCells - 1)
        PROVE  flash'[(0 + q) * PageCells + i] = Img(Packages[pkg].image, q * PageCells + i)
    <3>1. q \in Nat /\ q < w /\ 0 + q = q
      <4>1. Packages[pkg].size \in Nat /\ Packages[pkg].size <= w
        BY <2>1 DEF Roomy
      <4> HIDE DEF w
      <4> QED BY <2>1, <4>1
    <3>2. q * PageCells + i \in DOMAIN mem
      <4> HIDE DEF w
      <4> QED BY <2>1, <3>1, CellBelow
    <3> QED BY <2>2, <2>3, <3>1, <3>2
  <2> QED BY <2>1, <2>4, PagesValid
<1>6. InstallsOk(pc', source', flash', pkg')
  BY <1>1, <1>5 DEF InstallsOk
<1> QED BY <1>2, <1>3, <1>4, <1>6 DEF InstallInv

-----------------------------------------------------------------------------
(* The copy. *)

\* Where the copy is, and that it stays in flash.
LEMMA CopyFacts ==
    ASSUME IInv, pc \in {"copy", "blcopy"}
    PROVE  /\ pkg \in DOMAIN Packages /\ DOMAIN flash = Cells /\ step \in Nat
           /\ CopyBase = CopyFrom(pc, pkg) /\ CopyBase \in Nat /\ CopyBase + Packages[pkg].size <= Pages
           /\ Packages[pkg].size \in Nat /\ Packages[pkg].cells = Packages[pkg].size * PageCells + 1
<1>1. pkg \in DOMAIN Packages /\ DOMAIN flash = Cells /\ step \in Nat /\ Packages[pkg].size \in Nat
      /\ Packages[pkg].cells = Packages[pkg].size * PageCells + 1 /\ Packages[pkg].at \in Nat
  BY ChosenFacts, PackageFacts DEF Choice
<1>2. CASE pc = "copy"
  <2>1. Packages[pkg].kind = "full"
    BY <1>2 DEF IInv, ChoiceInv
  <2>2. Packages[pkg].size \in 1 .. Pages
    BY <1>1, <2>1, PackageFacts, SizeFacts
  <2>3. CopyBase = 0 /\ CopyFrom(pc, pkg) = 0
    BY <1>2 DEF CopyBase, CopyFrom
  <2> QED BY <1>1, <2>2, <2>3
<1>3. CASE pc = "blcopy"
  <2>1. Packages[pkg].kind = "boot"
    BY <1>3 DEF IInv, ChoiceInv, BlUpdate
  <2>2. Packages[pkg].at + Packages[pkg].size <= Pages
    BY <1>1, <2>1, OtaConstants
  <2>3. CopyBase = Packages[pkg].at /\ CopyFrom(pc, pkg) = Packages[pkg].at
    BY <1>3 DEF CopyBase, CopyFrom
  <2> QED BY <1>1, <2>2, <2>3
<1> QED BY <1>2, <1>3

\* One page more is copied.
LEMMA CopiedPage ==
    ASSUME NEW f, DOMAIN f = Cells, NEW p, NEW page \in Nat, NEW n \in Nat, page + n < Pages, NEW buf,
           Copied(f, p, page, n),
           \A i \in 0 .. (PageCells - 1) : buf[i] = Img(Packages[p].image, n * PageCells + i)
    PROVE  Copied(WithPage(f, page + n, buf), p, page, n + 1)
<1> DEFINE g == WithPage(f, page + n, buf)
           t == page + n
<1>0. t \in Nat /\ t < Pages /\ Pages \in Nat
  BY SizeFacts
<1> SUFFICES ASSUME NEW q \in 0 .. n, NEW i \in 0 .. (PageCells - 1)
             PROVE  g[(page + q) * PageCells + i] = Img(Packages[p].image, q * PageCells + i)
  BY DEF Copied
<1> DEFINE x == page + q
           a == x * PageCells + i
<1>1. x \in Nat /\ x < Pages /\ q \in Nat
  BY <1>0
<1>2. x = t <=> q = n
  BY <1>1
<1>3. q # n => q \in 0 .. (n - 1)
  OBVIOUS
<1> HIDE DEF x, t
<1>4. a \in DOMAIN f
  BY <1>0, <1>1, CellBelow DEF Cells
<1>5. a \in InPage(t) <=> x = t
  <2>1. a \in InPage(t) => x = t
    BY <1>0, <1>1, SameCell
  <2>2. a \in InPage(x)
    <3>1. a \in Nat /\ PageOf(a) = x
      BY <1>1, CellOfPage
    <3> HIDE DEF a
    <3> QED BY <1>1, <3>1, Place
  <2> QED BY <2>1, <2>2
<1>6. a % PageCells = i
  BY <1>1, CellOfPage
<1>7. g[a] = IF a \in InPage(t) THEN buf[a % PageCells] ELSE f[a]
  <2> HIDE DEF a
  <2> QED BY <1>4 DEF WithPage, t
<1>8. CASE q = n
  BY <1>2, <1>5, <1>6, <1>7, <1>8 DEF x
<1>9. CASE q # n
  <2>1. f[(page + q) * PageCells + i] = Img(Packages[p].image, q * PageCells + i)
    BY <1>3, <1>9 DEF Copied
  <2> QED BY <1>2, <1>5, <1>7, <1>9, <2>1 DEF x
<1> QED BY <1>8, <1>9

\* What is left to copy is behind what is written.
LEMMA LeftBehind ==
    ASSUME NEW f, DOMAIN f = Cells, NEW p \in DOMAIN Packages, NEW n \in Nat, NEW buf
    PROVE  Above(f, WithPage(f, Packages[p].at + n, buf), HybridBase(p) + (n + 1) * PageCells)
<1> DEFINE t == Packages[p].at + n
<1>1. Packages[p].at \in Nat /\ HybridBase(p) = Packages[p].at * PageCells /\ PageCells \in Nat
  BY PackageFacts, PrefixFacts, SizeFacts
<1>2. t * PageCells = HybridBase(p) + n * PageCells /\ (n + 1) * PageCells = n * PageCells + PageCells
      /\ n * PageCells \in Int /\ HybridBase(p) \in Int /\ t * PageCells \in Int
  BY <1>1
<1> HIDE DEF t
<1>3. ASSUME NEW a \in Cells, a > HybridBase(p) + (n + 1) * PageCells PROVE a \notin InPage(t)
  <2>1. a \in Int
    BY SizeFacts, Times DEF Cells
  <2> QED BY <1>1, <1>2, <1>3, <2>1 DEF InPage
<1> QED BY <1>3 DEF Above, WithPage, t

LEMMA CopyPageInstall ==
    ASSUME IInv, InstallInv, CopyPage PROVE InstallInv'
<1>1. pc \in {"copy", "blcopy"} /\ step < Packages[pkg].size /\ ext' = ext /\ ram' = ram /\ trigger' = trigger
  BY DEF CopyPage
<1>2. CASE FinishApply("failed")
  BY <1>1, <1>2, FinishInstall
<1>3. CASE /\ flash' = WithPage(flash, CopyBase + step, PageRead(pkg, CopyBase + step))
           /\ step' = step + 1
           /\ UNCHANGED <<run, pc, source, pkg, cache, mem>>
  <2>0. pc' = pc /\ source' = source /\ pkg' = pkg /\ step' = step + 1
    BY <1>3
  <2>1. /\ pkg \in DOMAIN Packages /\ DOMAIN flash = Cells /\ step \in Nat
        /\ CopyBase = CopyFrom(pc, pkg) /\ CopyBase \in Nat /\ CopyBase + Packages[pkg].size <= Pages
        /\ Packages[pkg].size \in Nat /\ Packages[pkg].cells = Packages[pkg].size * PageCells + 1
    BY <1>1, CopyFacts
  <2>2. (pc = "blcopy" /\ source \notin {"hybrid", "qspi", "sd"} => Packages[pkg].src = "internal")
        /\ (pc = "blcopy" => source # "hybrid") /\ (pc = "copy" => source \in {"qspi", "sd"})
        /\ (source # "sd" => LeftToCopy(source, ext, ram, flash, pkg, step) /\ Copied(flash, pkg, CopyFrom(pc, pkg), step))
    BY <1>1 DEF InstallInv, PayloadOk, BlUpdate
  <2>3. step * PageCells \in Nat /\ (step + 1) * PageCells = step * PageCells + PageCells /\ PageCells \in Nat
        /\ HybridBase(pkg) \in Nat /\ Packages[pkg].size * PageCells \in Nat /\ step + 1 \in Nat
        /\ (step + 1) * PageCells \in Nat
    BY <2>1, SizeFacts, PrefixFacts
  <2>4. ASSUME source # "sd" PROVE LeftToCopy(source, ext, ram, flash', pkg, step + 1)
    <3> DEFINE n == step + 1
               a0 == HybridBase(pkg) + n * PageCells
    <3>1. LeftToCopy(source, ext, ram, flash, pkg, n)
      <4> SUFFICES ASSUME NEW k \in 1 .. (Packages[pkg].cells - 1), 1 + n * PageCells <= k
                   PROVE  1 + step * PageCells <= k
        BY <2>2, <2>4 DEF LeftToCopy
      <4>1. k \in Int
        OBVIOUS
      <4> QED BY <2>3, <4>1
    <3>2. source \notin {"qspi", "sd"} => Above(flash, flash', a0)
      <4> SUFFICES ASSUME source \notin {"qspi", "sd"} PROVE Above(flash, flash', a0)
        OBVIOUS
      <4>1. pc = "blcopy" /\ CopyBase = Packages[pkg].at
        BY <1>1, <2>1, <2>2 DEF CopyFrom
      <4> QED BY <1>3, <2>1, <4>1, LeftBehind
    <3>3. SameExt(source, ext, ext)
      BY DEF SameExt
    <3>4. n \in Nat /\ a0 \in Nat /\ a0 <= HybridBase(pkg) + n * PageCells
      BY <2>3
    <3>5. source \notin {"hybrid", "qspi", "sd"} => Packages[pkg].src = "internal"
      BY <1>1, <2>2
    <3> HIDE DEF n, a0
    <3>6. LeftToCopy(source, ext, ram, flash', pkg, n)
      BY <2>1, <3>1, <3>2, <3>3, <3>4, <3>5, PayloadKept
    <3> QED BY <3>6 DEF n
  <2>5. ASSUME source # "sd" PROVE Copied(flash', pkg, CopyFrom(pc, pkg), step + 1)
    <3> DEFINE buf == PageRead(pkg, CopyBase + step)
    <3>1. ASSUME NEW i \in 0 .. (PageCells - 1) PROVE buf[i] = Img(Packages[pkg].image, step * PageCells + i)
      <4>1. step * PageCells + i \in 0 .. (Packages[pkg].size * PageCells - 1)
        BY <1>1, <2>1, CellBelow
      <4> DEFINE k == 1 + step * PageCells + i
      <4>2. k \in 1 .. (Packages[pkg].cells - 1) /\ 1 + step * PageCells <= k /\ k - 1 = step * PageCells + i
        BY <2>1, <2>3, <4>1
      <4>3. buf[i] = Staged(pkg, k)
        BY DEF PageRead
      <4> HIDE DEF k, buf
      <4>4. Fetch(source, ext, ram, flash, pkg, k) = Img(Packages[pkg].image, k - 1)
        BY <2>2, <2>5, <4>2 DEF LeftToCopy
      <4> QED BY <4>2, <4>3, <4>4, FetchIs
    <3>2. CopyBase + step < Pages
      BY <1>1, <2>1, SizeFacts
    <3> HIDE DEF buf
    <3>3. Copied(WithPage(flash, CopyBase + step, buf), pkg, CopyBase, step + 1)
      BY <2>1, <2>2, <2>5, <3>1, <3>2, CopiedPage
    <3> QED BY <1>3, <2>1, <3>3 DEF buf
  <2>6. step + 1 <= Packages[pkg].size
    BY <1>1, <2>1
  <2>7. PayloadOk(pc', source', ext', ram', flash', pkg', step')
    BY <1>1, <2>0, <2>2, <2>4, <2>5, <2>6 DEF PayloadOk, BlUpdate
  <2>8. DecodeOk(pc', source', pkg', mem', step') /\ InstallsOk(pc', source', flash', pkg')
    BY <1>1, <2>0 DEF DecodeOk, InstallsOk
  <2>9. StagingInv'
    BY <1>1, <2>0, NotPending DEF Gate
  <2> QED BY <2>7, <2>8, <2>9 DEF InstallInv
<1> QED BY <1>2, <1>3 DEF CopyPage

LEMMA CopyEndsInstall ==
    ASSUME IInv, InstallInv, CopyEnds PROVE InstallInv'
<1>1. pc \in {"copy", "blcopy"} /\ step = Packages[pkg].size
      /\ flash' = flash /\ source' = source /\ pkg' = pkg /\ trigger' = trigger
      /\ ((pc = "copy" /\ pc' = "check") \/ (pc = "blcopy" /\ pc' = "blcheck"))
  BY DEF CopyEnds, flashVars, retained, applier
<1>2. StagingInv'
  BY <1>1, NotPending DEF Gate
<1>3. PayloadOk(pc', source', ext', ram', flash', pkg', step')
  BY <1>1 DEF InstallInv, PayloadOk, BlUpdate
<1>4. DecodeOk(pc', source', pkg', mem', step')
  BY <1>1 DEF DecodeOk
<1>5. source # "sd" => HashValid(flash, CopyFrom(pc, pkg), pkg)
  <2> SUFFICES ASSUME source # "sd" PROVE HashValid(flash, CopyFrom(pc, pkg), pkg)
    OBVIOUS
  <2>1. Copied(flash, pkg, CopyFrom(pc, pkg), Packages[pkg].size)
    BY <1>1 DEF InstallInv, PayloadOk
  <2>2. pkg \in DOMAIN Packages /\ CopyFrom(pc, pkg) \in Nat
    BY <1>1, CopyFacts
  <2> QED BY <2>1, <2>2, PagesValid DEF Copied
<1>6. InstallsOk(pc', source', flash', pkg')
  BY <1>1, <1>5 DEF InstallsOk, CopyFrom
<1> QED BY <1>2, <1>3, <1>4, <1>6 DEF InstallInv

-----------------------------------------------------------------------------
(* Everything else, and the theorem. *)

LEMMA OtherInstall ==
    ASSUME IInv, InstallInv,
           GateFails \/ GateRejects \/ Reject \/ DecoderFails \/ CheckResult \/ MarkValid
           \/ BlGateFails \/ BlGateRejects \/ BlInstall
    PROVE  InstallInv'
<1>1. CASE GateRejects \/ BlGateRejects
  <2>1. pc \in Gate /\ pc' = "reject" /\ trigger' = trigger
    BY <1>1 DEF GateRejects, BlGateRejects, retained, Gate
  <2> QED BY <2>1, NotPending, QuietOk DEF Gate, Quiet
<1>2. CASE CheckResult /\ pc' = "mark"
  <2>1. pc = "check" /\ trigger' = trigger
    BY <1>2 DEF CheckResult
  <2> QED BY <1>2, <2>1, NotPending, QuietOk DEF Gate, Quiet
<1>3. CASE GateFails \/ Reject \/ DecoderFails \/ (CheckResult /\ pc' # "mark") \/ MarkValid \/ BlGateFails \/ BlInstall
  <2>1. pc # "none" /\ trigger' = trigger /\ (FinishApply("failed") \/ FinishApply("applied"))
    BY <1>3 DEF GateFails, Reject, DecoderFails, CheckResult, MarkValid, BlGateFails, BlInstall
  <2> QED BY <2>1, FinishInstall
<1> QED BY <1>1, <1>2, <1>3

LEMMA NextInstall == IInv /\ BoardInv /\ InstallInv /\ [Next]_vars => InstallInv'
<1> SUFFICES ASSUME IInv, BoardInv, InstallInv, [Next]_vars PROVE InstallInv'
  OBVIOUS
<1>1. CASE UNCHANGED vars
  <2>1. flash' = flash /\ ext' = ext /\ ram' = ram /\ pc' = pc /\ trigger' = trigger /\ source' = source
        /\ pkg' = pkg /\ step' = step /\ mem' = mem
    BY <1>1 DEF vars, flashVars, retained, applier
  <2> QED BY <2>1 DEF InstallInv, StagingInv, Pending
<1>2. ASSUME NEW p \in board, AppStages(p) PROVE InstallInv'
  <2>1. p \in DOMAIN Packages
    BY DEF BoardInv
  <2> QED BY <1>2, <2>1, AppStagesInstall
<1>3. CASE BootApp \/ BootDfu \/ OtaBegin
  BY <1>3, IdleInstall
<1>4. CASE LeaveDfu
  BY <1>4, LeaveDfuInstall
<1>5. CASE CardChanges
  BY <1>5, CardChangesInstall
<1>6. CASE PowerLoss
  BY <1>6, PowerLossInstall
<1>7. CASE Applier
  <2>1. CASE GatePasses
    BY <2>1, GatePassesInstall
  <2>2. CASE BlGatePasses
    BY <2>2, BlGatePassesInstall
  <2>3. CASE Clear
    BY <2>3, ClearInstall
  <2>4. CASE Commit
    BY <2>4, CommitInstall
  <2>5. CASE DecoderErases
    BY <2>5, DecoderErasesInstall
  <2>6. CASE DecoderWrites
    BY <2>6, DecoderWritesInstall
  <2>7. CASE DecoderEnds
    BY <2>7, DecoderEndsInstall
  <2>8. CASE CopyPage
    BY <2>8, CopyPageInstall
  <2>9. CASE CopyEnds
    BY <2>9, CopyEndsInstall
  <2>10. CASE GateFails \/ GateRejects \/ Reject \/ DecoderFails \/ CheckResult \/ MarkValid
              \/ BlGateFails \/ BlGateRejects \/ BlInstall
    BY <2>10, OtherInstall
  <2> QED BY <1>7, <2>1, <2>2, <2>3, <2>4, <2>5, <2>6, <2>7, <2>8, <2>9, <2>10 DEF Applier
<1> QED BY <1>1, <1>2, <1>3, <1>4, <1>5, <1>6, <1>7 DEF Next

\* A verified package that nothing disturbed installs the image it was signed for, whatever
\* the sizes of pages, images, packages and the move of the base: detools' in-place patch
\* through the write-back cache (ota_delta.c cread, cwrite, cerase) never reads a page of the
\* base that it has overwritten, and copy_staged_full_image, which overwrites the container
\* that it reads, never reads a page that it has written.
THEOREM GoodPackagesInstall == Spec => []GoodPackageInstalls
<1>1. Init => InstallInv
  BY InitInstall
<1>2. IInv /\ BoardInv /\ InstallInv /\ [Next]_vars => InstallInv'
  BY NextInstall
<1>3. InstallInv => GoodPackageInstalls
  BY FetchIs DEF InstallInv, InstallsOk, GoodPackageInstalls
<1>4. Spec => [](IInv /\ BoardInv)
  BY Invariance
<1> QED BY <1>1, <1>2, <1>3, <1>4, PTL DEF Spec
=============================================================================
