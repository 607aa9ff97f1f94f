--------------------------- MODULE StoreContract ---------------------------
(***************************************************************************)
(* What the raw persistent storage module (pstorage_raw.c) promises to its  *)
(* two clients, the DFU image writer and the bootloader settings writer:    *)
(* an accepted request is performed after every earlier accepted one, its   *)
(* owner is told exactly once how it ended, and a store that is reported    *)
(* successful is in flash.  How the requests are queued, buffered, retried  *)
(* and split into flash operations is not visible here.                     *)
(***************************************************************************)
EXTENDS Naturals, Sequences

CONSTANTS
    Pages,  \* flash pages, numbered from 0
    Image   \* the pages of the image an update replaces

VARIABLES
    acc,    \* every request accepted so far, in order of acceptance
    log,    \* every completion reported so far: [id, ok]
    flash   \* for each page, the ids of the stores it holds intact; 0 is the old image

contractVars == <<acc, log, flash>>

Request ==
    [op : {"store", "clear"}, first : Pages, last : Pages, fits : BOOLEAN]

Completion == [id : Nat \ {0}, ok : BOOLEAN]

\* The pages a request touches.
Span(r) == {p \in Pages : r.first <= p /\ p <= r.last}

\* The oldest request that is not reported yet.
Oldest == Len(log) + 1

Init ==
    /\ acc = <<>>
    /\ log = <<>>
    /\ flash = [p \in Pages |-> IF p \in Image THEN {0} ELSE {}]

Accept ==
    /\ \E r \in Request : acc' = Append(acc, r)
    /\ UNCHANGED <<log, flash>>

\* The oldest request ends.  A successful store is in flash on all of its
\* pages; a clear that fails may have destroyed stores on some of its pages.
Settle(ok) ==
    /\ Oldest <= Len(acc)
    /\ log' = Append(log, [id |-> Oldest, ok |-> ok])
    /\ LET r == acc[Oldest] IN
       \/ /\ r.op = "store"
          /\ flash' = [p \in Pages |->
                          IF ok /\ p \in Span(r) THEN flash[p] \cup {Oldest} ELSE flash[p]]
       \/ /\ r.op = "clear"
          /\ \E W \in SUBSET Span(r) :
                flash' = [p \in Pages |->
                             IF p \notin W THEN flash[p]
                             ELSE IF ok THEN {} ELSE flash[p] \cap {0}]
          /\ ok => \A p \in Span(r) : flash'[p] = {}
    /\ UNCHANGED acc

\* A clear of several pages erases them one flash operation at a time.
WipePage ==
    /\ Oldest <= Len(acc)
    /\ acc[Oldest].op = "clear"
    /\ \E p \in Span(acc[Oldest]) : flash' = [flash EXCEPT ![p] = {}]
    /\ UNCHANGED <<acc, log>>

\* A page of the old image is erased before the first store to it: no store is lost.
PreparePage ==
    /\ \E p \in Image : flash[p] = {0} /\ flash' = [flash EXCEPT ![p] = {}]
    /\ UNCHANGED <<acc, log>>

Next == Accept \/ PreparePage \/ WipePage \/ \E ok \in BOOLEAN : Settle(ok)

Spec == Init /\ [][Next]_contractVars
============================================================================
