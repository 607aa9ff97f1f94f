------------------------------- MODULE MCBle -------------------------------
(* A small instance of BleTransport for TLC. *)
EXTENDS BleTransport

\* Controllers with odd fragments, with single words and a receipt for each,
\* with fragments that begin long and may become odd, and with fragments longer than the
\* accumulator.
AllPeers ==
    { [fragments |-> {3}, prn |-> 0], [fragments |-> {2}, prn |-> 1],
      [fragments |-> {4, 5}, prn |-> 2], [fragments |-> {1, 6}, prn |-> 2] }
=============================================================================
