--------------------------- MODULE StreamContract ---------------------------
(***************************************************************************)
(* What a serial DFU link promises: the packets of a transfer, numbered     *)
(* from 1, are taken over in order, each once; what the host is told was    *)
(* taken is handled, in that order, unless its type or length is refused.   *)
(***************************************************************************)
EXTENDS Naturals, Sequences

CONSTANT Last   \* the last packet of the transfer

VARIABLES
    refused,  \* packets that are taken over and dropped: their type or length is wrong
    taken,    \* packets taken over
    told,     \* packets the host knows to be taken over
    waiting,  \* the set of packets taken over and not handled yet
    handled   \* packets handled

streamVars == <<refused, taken, told, waiting, handled>>

Init == refused \subseteq 1 .. Last /\ taken = 0 /\ told = 0 /\ waiting = {} /\ handled = <<>>

Take ==
    /\ taken < Last
    /\ taken' = taken + 1
    /\ waiting' = waiting \cup ({taken'} \ refused)
    /\ UNCHANGED <<refused, told, handled>>

Tell ==
    /\ told < taken
    /\ told' \in (told + 1) .. taken
    /\ UNCHANGED <<refused, taken, waiting, handled>>

\* The oldest packet that waits.
Handle ==
    /\ \E p \in waiting :
          /\ \A q \in waiting : p <= q
          /\ handled' = Append(handled, p)
          /\ waiting' = waiting \ {p}
    /\ UNCHANGED <<refused, taken, told>>

Next == Take \/ Tell \/ Handle

Spec == Init /\ [][Next]_streamVars
=============================================================================
