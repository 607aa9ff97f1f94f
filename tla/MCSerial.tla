------------------------------ MODULE MCSerial ------------------------------
(* A small instance of SerialTransport for TLC. *)
EXTENDS SerialTransport

\* A host that fills the queue, one that also sends a packet of an unknown type, and one
\* that waits for every acknowledgement.
AllHosts ==
    { [window |-> 3, refused |-> {}], [window |-> 2, refused |-> {4}],
      [window |-> 1, refused |-> {3}] }
=============================================================================
