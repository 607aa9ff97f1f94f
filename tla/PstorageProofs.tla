--------------------------- MODULE PstorageProofs ---------------------------
(***************************************************************************)
(* Proofs about Pstorage for every number of pages, every queue and buffer  *)
(* size and every set of client requests: first the order of the reports,   *)
(* then what the flash holds, that no store lands on a page of the old      *)
(* image, that the module implements the contract of its clients, and that a *)
(* store reported successful stays in flash.                                *)
(***************************************************************************)
EXTENDS Pstorage, SequenceTheorems, TLAPS

-----------------------------------------------------------------------------
(* The inductive invariant.                                                 *)

\* The queued commands that belong to a client directly.  A flagged command (a lazy
\* erase, or the store of the oldest buffered packet) is last in the queue.
Plain == IF lazy \/ processing THEN Len(queue) - 1 ELSE Len(queue)

\* The flags say what the last command is, and packets are only buffered behind a
\* flagged command, or behind nothing at all.
FlagsInv ==
    /\ ~(lazy /\ processing)
    /\ lazy => queue # <<>> /\ queue[Len(queue)].flags = "lazy"
    /\ processing => queue # <<>> /\ queue[Len(queue)].flags = "pending"
    /\ processing => pending # <<>>
    /\ \A i \in 1 .. Plain : queue[i].flags = "none"
    /\ pending # <<>> /\ ~lazy /\ ~processing => queue = <<>>

\* The requests accepted and not yet reported are the queue followed by the buffer.
FifoInv ==
    /\ \A i \in 1 .. Plain : queue[i].id = Len(log) + i
    /\ \A j \in 1 .. Len(pending) : pending[j].id = Len(log) + Plain + j
    /\ Len(acc) = Len(log) + Plain + Len(pending)
    /\ \A i \in 1 .. Len(log) : log[i].id = i

AccessInv == access # "idle" => queue # <<>>

\* While an abort still has packets of its snapshot to report, they are at the front of
\* the buffer, and only client code can run above it: nothing can be started.
AbortInv ==
    \A i \in 1 .. Len(ctl) :
        ctl[i].f = "abort" /\ ctl[i].n > 0 =>
            /\ i = 1 \/ (i = 2 /\ ctl[1].f = "callback")
            /\ ctl[i].n <= Len(pending)
            /\ ~lazy /\ ~processing

IInv == TypeOK /\ FlagsInv /\ FifoInv /\ AccessInv /\ AbortInv

-----------------------------------------------------------------------------
(* Sequences and the calls that several actions share.                      *)

\* What the C stack looks like after a call: the new frame on top, the rest below it.
LEMMA Pushed ==
    ASSUME NEW S, NEW x \in S, NEW s \in Seq(S)
    PROVE  /\ <<x>> \o s \in Seq(S)
           /\ Len(<<x>> \o s) = Len(s) + 1
           /\ (<<x>> \o s)[1] = x
           /\ \A i \in 2 .. Len(s) + 1 : (<<x>> \o s)[i] = s[i - 1]
  OBVIOUS

\* What the C stack, the queue or the buffer looks like when its first entry is gone.
LEMMA Popped ==
    ASSUME NEW S, NEW s \in Seq(S), s # <<>>
    PROVE  /\ Head(s) \in S /\ Head(s) = s[1]
           /\ Len(s) \in Nat \ {0}
           /\ Tail(s) \in Seq(S)
           /\ Len(Tail(s)) = Len(s) - 1
           /\ \A i \in 1 .. Len(s) - 1 : Tail(s)[i] = s[i + 1]
  OBVIOUS

\* A sequence with an entry is not the empty sequence.
LEMMA NotEmpty ==
    ASSUME NEW S, NEW s \in Seq(S), NEW n \in Nat, n > 1, Len(s) = n - 1
    PROVE  s # <<>>
  <1>1. Len(s) # 0
    OBVIOUS
  <1> QED
    BY <1>1, EmptySeq

\* Removing the first entry leaves the last one where it was, at the end.
LEMMA LastStays ==
    ASSUME NEW S, NEW s \in Seq(S), NEW n \in Nat, n > 1, n = Len(s)
    PROVE  Tail(s) # <<>> /\ Tail(s)[Len(Tail(s))] = s[Len(s)]
  <1>1. Tail(s) \in Seq(S) /\ Len(Tail(s)) = n - 1
    OBVIOUS
  <1>2. Tail(s)[n - 1] = s[(n - 1) + 1]
    OBVIOUS
  <1>3. Tail(s) # <<>>
    BY <1>1, NotEmpty
  <1> QED
    BY <1>1, <1>2, <1>3

\* What the queue or the buffer looks like when an entry is added.
LEMMA Appended ==
    ASSUME NEW S, NEW x \in S, NEW s \in Seq(S)
    PROVE  /\ Append(s, x) \in Seq(S)
           /\ Append(s, x) # <<>>
           /\ Len(Append(s, x)) = Len(s) + 1
           /\ Append(s, x)[Len(s) + 1] = x
           /\ \A i \in 1 .. Len(s) : Append(s, x)[i] = s[i]
  OBVIOUS

\* cmd_queue_enqueue either queues the command last and returns success, or returns an
\* error and leaves the queue as it was, whatever the SoftDevice answers.
LEMMA EnqueueEffect ==
    ASSUME TypeOK, AccessInv,
           NEW c \in Command, NEW ret, cmd_queue_enqueue(c, ret)
    PROVE  /\ queue' = IF ret = "success" THEN Append(queue, c) ELSE queue
           /\ ret = "success" => Len(queue) < QueueSize
           /\ access' \in {"idle", "in_flight", "wait_busy"}
           /\ round' \in Nat
           /\ soc' \in {"free", "ours", "foreign"}
           /\ access' # "idle" => queue' # <<>>
  <1>1. CASE Len(queue) = QueueSize /\ ret = "no_mem" /\ UNCHANGED <<queue, access, round, soc>>
    BY <1>1 DEF TypeOK, AccessInv
  <1>2. CASE /\ Len(queue) < QueueSize
             /\ queue = <<>> /\ access = "idle"
             /\ \E rc \in SocReturns :
                   /\ cmd_process(rc)
                   /\ queue' = IF rc = "fatal" THEN <<>> ELSE <<c>>
                   /\ round' = IF rc = "fatal" THEN 0 ELSE round
                   /\ ret = IF rc = "fatal" THEN "fatal" ELSE "success"
    <2>1. Append(<<>>, c) = <<c>>
      OBVIOUS
    <2> QED
      BY <1>2, <2>1 DEF TypeOK, SocReturns, cmd_process, AccessAfter, SocAfter
  <1>3. CASE /\ Len(queue) < QueueSize
             /\ ~(queue = <<>> /\ access = "idle")
             /\ queue' = Append(queue, c)
             /\ ret = "success"
             /\ UNCHANGED <<access, round, soc>>
    BY <1>3, Appended DEF TypeOK
  <1> QED
    BY <1>1, <1>2, <1>3 DEF cmd_queue_enqueue

-----------------------------------------------------------------------------
(* The stack. *)

\* No frame of the stack still owes a client the report of an aborted packet.
NothingOwed(s) == \A i \in 1 .. Len(s) : ~(s[i].f = "abort" /\ s[i].n > 0)

\* Pushing a frame that is no abort with packets left keeps every abort below it settled.
LEMMA PushedPlain ==
    ASSUME NEW s \in Seq(Frames), NothingOwed(s),
           NEW f \in {"callback", "tail", "dequeue", "pending"}
    PROVE  <<Frame(f)>> \o s \in Seq(Frames) /\ NothingOwed(<<Frame(f)>> \o s)
  <1>1. Frame(f) \in Frames /\ Frame(f).f = f
    BY DEF Frame, Frames
  <1> QED
    BY <1>1, Pushed DEF NothingOwed

\* Removing the top frame leaves no abort with packets left where there was none.
LEMMA PoppedPlain ==
    ASSUME NEW s \in Seq(Frames), NothingOwed(s), s # <<>>
    PROVE  Tail(s) \in Seq(Frames) /\ NothingOwed(Tail(s))
  BY Popped DEF NothingOwed

\* Where a queued command, or a frame that is neither a callback nor an abort with
\* packets left, shows that no abort is waiting.
LEMMA NoAbortWaiting ==
    ASSUME IInv,
           \/ queue # <<>>
           \/ pending = <<>>
           \/ /\ ctl # <<>>
              /\ Head(ctl).f # "callback"
              /\ Head(ctl).f = "abort" => ~(Head(ctl).n > 0)
    PROVE  NothingOwed(ctl)
  <1> SUFFICES ASSUME NEW i \in 1 .. Len(ctl), ctl[i].f = "abort", ctl[i].n > 0
               PROVE  FALSE
    BY DEF NothingOwed
  <1>1. ctl \in Seq(Frames)
    BY DEF IInv, TypeOK
  <1>2. /\ i = 1 \/ (i = 2 /\ ctl[1].f = "callback")
        /\ ctl[i].n <= Len(pending)
        /\ ~lazy /\ ~processing
    BY DEF IInv, AbortInv
  <1>3. ctl[i] \in Frames
    BY <1>1
  <1>4. ctl[i].n \in Nat
    BY <1>3 DEF Frames
  <1>5. pending # <<>>
    BY <1>2, <1>4
  <1>6. queue = <<>>
    BY <1>2, <1>5 DEF IInv, FlagsInv
  <1>7. ctl # <<>> /\ Head(ctl) = ctl[1]
    BY <1>1
  <1> QED
    BY <1>2, <1>5, <1>6, <1>7

\* With no abort unsettled after the step, AbortInv holds after it.
LEMMA StackInv ==
    ASSUME NothingOwed(ctl)'
    PROVE  AbortInv'
  BY DEF NothingOwed, AbortInv

-----------------------------------------------------------------------------
(* Initial states and steps. *)

\* pstorage_init: the empty queue, buffer and stack satisfy the inductive invariant.
LEMMA InitIInv == Init => IInv
  <1> SUFFICES ASSUME Init PROVE IInv
    OBVIOUS
  <1>1. TypeOK
    <2>1. erased \in [Image -> BOOLEAN] /\ flash \in [Pages -> SUBSET Nat]
      BY DEF Init
    <2>2. /\ queue \in Seq(Command) /\ Len(queue) <= QueueSize
          /\ pending \in Seq(Packet) /\ Len(pending) <= PendingCount
          /\ ctl \in Seq(Frames)
          /\ acc \in Seq(Contract!Request) /\ log \in Seq(Contract!Completion)
      BY PstorageConstants DEF Init
    <2>3. /\ access \in {"idle", "in_flight", "wait_busy"} /\ soc \in {"free", "ours", "foreign"}
          /\ round \in Nat /\ lazyPage \in Nat /\ foreign \in Nat
          /\ lazy \in BOOLEAN /\ processing \in BOOLEAN
      BY DEF Init
    <2> QED
      BY <2>1, <2>2, <2>3 DEF TypeOK
  <1>2. FlagsInv /\ FifoInv /\ AccessInv /\ AbortInv
    BY DEF Init, FlagsInv, FifoInv, AccessInv, AbortInv, Plain
  <1> QED
    BY <1>1, <1>2 DEF IInv

\* Requests have the pages the constants allow.
LEMMA RequestPages ==
    ASSUME NEW r \in Stores \cup Clears
    PROVE  r \in Contract!Request /\ r.first \in Pages /\ r.last \in Pages
  BY PstorageInputs DEF Contract!Request

\* Page numbers are natural numbers.
LEMMA PageIsNat == \A p \in Pages : p \in Nat
  BY PstorageConstants DEF Pages

\* The sizes the invariant talks about.
LEMMA Sizes ==
    ASSUME IInv
    PROVE  /\ Len(queue) \in Nat /\ Len(pending) \in Nat
           /\ Len(acc) \in Nat /\ Len(log) \in Nat /\ Plain \in Nat
           /\ queue \in Seq(Command) /\ pending \in Seq(Packet)
           /\ acc \in Seq(Contract!Request) /\ log \in Seq(Contract!Completion)
           /\ ctl \in Seq(Frames)
  <1>1. /\ queue \in Seq(Command) /\ pending \in Seq(Packet)
        /\ acc \in Seq(Contract!Request) /\ log \in Seq(Contract!Completion)
        /\ ctl \in Seq(Frames)
    BY DEF IInv, TypeOK
  <1>2. lazy \/ processing => queue # <<>>
    BY DEF IInv, FlagsInv
  <1>3. queue # <<>> => Len(queue) > 0
    BY <1>1
  <1> QED
    BY <1>1, <1>2, <1>3 DEF Plain

\* A store that joins the buffer.
LEMMA BufferStep ==
    ASSUME IInv, NEW r \in Stores, StoreBuffered(r)
    PROVE  IInv'
  <1>u. /\ UNCHANGED <<queue, access, round, lazy, lazyPage, processing, erased>>
        /\ UNCHANGED <<ctl, soc, foreign, log, flash>>
        /\ Buffering
    BY DEF StoreBuffered
  <1>0. CASE UNCHANGED <<pending, acc>>
    BY <1>0, <1>u DEF IInv, TypeOK, FlagsInv, FifoInv, AccessInv, AbortInv, Plain
  <1>1. CASE /\ Len(pending) < PendingCount /\ r.fits
             /\ pending' = Append(pending, PacketOf(r))
             /\ Accepted(r)
    <2>1. PacketOf(r) \in Packet /\ PacketOf(r).id = Len(acc) + 1
      BY RequestPages, Sizes DEF PacketOf, Packet, NewId
    <2>2. /\ pending' \in Seq(Packet) /\ pending' # <<>>
          /\ Len(pending') = Len(pending) + 1
          /\ pending'[Len(pending) + 1] = PacketOf(r)
          /\ \A j \in 1 .. Len(pending) : pending'[j] = pending[j]
      BY <1>1, <2>1, Sizes, Appended
    <2>3. acc' \in Seq(Contract!Request) /\ Len(acc') = Len(acc) + 1
      BY <1>1, Sizes, RequestPages, Appended DEF Accepted
    <2>4. Plain' = Plain
      BY <1>u DEF Plain
    <2>5. TypeOK'
      BY <1>u, <1>1, <2>2, <2>3, Sizes, PstorageConstants DEF IInv, TypeOK
    <2>6. FlagsInv'
      BY <1>u, <2>2, <2>4 DEF IInv, FlagsInv, Buffering
    <2>7. FifoInv'
      <3>1. /\ \A j \in 1 .. Len(pending) : pending[j].id = Len(log) + Plain + j
            /\ Len(acc) = Len(log) + Plain + Len(pending)
        BY DEF IInv, FifoInv
      <3>2. ASSUME NEW j \in 1 .. Len(pending')
            PROVE  pending'[j].id = Len(log) + Plain + j
        <4>1. CASE j = Len(pending) + 1
          BY <2>1, <2>2, <3>1, <4>1, Sizes
        <4>2. CASE j \in 1 .. Len(pending)
          BY <2>2, <3>1, <4>2
        <4> QED
          BY <2>2, <4>1, <4>2, Sizes
      <3>3. Len(acc') = Len(log) + Plain + Len(pending')
        BY <2>2, <2>3, <3>1, Sizes
      <3> QED
        BY <1>u, <2>4, <3>2, <3>3 DEF IInv, FifoInv
    <2>8. AccessInv'
      BY <1>u DEF IInv, AccessInv
    <2>9. AbortInv'
      <3>1. ASSUME NEW i \in 1 .. Len(ctl), ctl[i].n <= Len(pending)
            PROVE  ctl[i].n <= Len(pending')
        <4>1. ctl[i] \in Frames
          BY Sizes
        <4>2. ctl[i].n \in Nat
          BY <4>1 DEF Frames
        <4> QED
          BY <2>2, <3>1, <4>2, Sizes
      <3> QED
        BY <1>u, <3>1 DEF IInv, AbortInv
    <2> QED
      BY <2>5, <2>6, <2>7, <2>8, <2>9 DEF IInv
  <1> QED
    BY <1>0, <1>1 DEF StoreBuffered, pending_packet_add

\* A store or a clear that goes straight to the command queue.
LEMMA DirectStep ==
    ASSUME IInv, ~Buffering,
           NEW r \in Stores \cup Clears, NEW op \in {"store", "clear"}, NEW ret,
           cmd_queue_enqueue(Cmd(op, "none", r.first, r.last, NewId), ret),
           IF ret = "success" THEN Accepted(r) ELSE UNCHANGED acc,
           UNCHANGED <<pending, lazy, lazyPage, processing, erased, ctl, foreign, log, flash>>
    PROVE  IInv'
  <1> DEFINE c == Cmd(op, "none", r.first, r.last, NewId)
  <1>1. c \in Command /\ c.flags = "none" /\ c.id = Len(acc) + 1
    BY RequestPages, Sizes DEF Cmd, Command, NewId
  <1>2. /\ queue' = IF ret = "success" THEN Append(queue, c) ELSE queue
        /\ ret = "success" => Len(queue) < QueueSize
        /\ access' \in {"idle", "in_flight", "wait_busy"}
        /\ round' \in Nat
        /\ soc' \in {"free", "ours", "foreign"}
        /\ access' # "idle" => queue' # <<>>
    BY <1>1, EnqueueEffect DEF IInv
  <1>3. ~lazy /\ ~processing /\ pending = <<>> /\ Plain = Len(queue) /\ Plain' = Len(queue')
    BY DEF Buffering, Plain
  <1>4. NothingOwed(ctl)'
    BY <1>3, NoAbortWaiting
  <1>5. AbortInv' /\ AccessInv'
    BY <1>2, <1>4, StackInv DEF AccessInv
  <1>6. CASE ret # "success"
    <2>1. queue' = queue /\ acc' = acc /\ Plain' = Plain
      BY <1>2, <1>3, <1>6
    <2> QED
      BY <1>2, <1>5, <2>1 DEF IInv, TypeOK, FlagsInv, FifoInv
  <1>7. CASE ret = "success"
    <2>1. /\ queue' \in Seq(Command)
          /\ Len(queue') = Len(queue) + 1
          /\ queue'[Len(queue) + 1] = c
          /\ \A i \in 1 .. Len(queue) : queue'[i] = queue[i]
      BY <1>1, <1>2, <1>7, Sizes, Appended
    <2>0. acc' = Append(acc, r)
      BY <1>7 DEF Accepted
    <2>2. acc' \in Seq(Contract!Request) /\ Len(acc') = Len(acc) + 1
      BY <2>0, Sizes, RequestPages, Appended
    <2>3. Len(queue') <= QueueSize
      BY <1>2, <1>7, <2>1, Sizes, PstorageConstants
    <2>4. TypeOK'
      BY <1>2, <2>1, <2>2, <2>3 DEF IInv, TypeOK
    <2>5. /\ \A i \in 1 .. Len(queue) : queue[i].flags = "none" /\ queue[i].id = Len(log) + i
          /\ Len(acc) = Len(log) + Len(queue)
      BY <1>3, Sizes DEF IInv, FlagsInv, FifoInv
    <2>6. ASSUME NEW i \in 1 .. Len(queue')
          PROVE  queue'[i].flags = "none" /\ queue'[i].id = Len(log) + i
      <3>1. CASE i = Len(queue) + 1
        BY <1>1, <2>1, <2>5, <3>1, Sizes
      <3>2. CASE i \in 1 .. Len(queue)
        BY <2>1, <2>5, <3>2
      <3> QED
        BY <2>1, <3>1, <3>2, Sizes
    <2>7. FlagsInv'
      BY <1>3, <2>6 DEF FlagsInv
    <2>8. FifoInv'
      <3>1. Len(acc') = Len(log) + Len(queue') /\ Len(pending) = 0
        BY <1>3, <2>1, <2>2, <2>5, Sizes
      <3>2. Len(acc') = Len(log) + Len(queue') + Len(pending)
        BY <3>1, <2>1, Sizes
      <3>3. log' = log /\ pending' = pending /\ Plain' = Len(queue')
        BY <1>3
      <3>4. \A i \in 1 .. Plain' : queue'[i].id = Len(log') + i
        BY <2>6, <3>3
      <3>5. \A j \in 1 .. Len(pending') : pending'[j].id = Len(log') + Plain' + j
        BY <3>1, <3>3
      <3>6. Len(acc') = Len(log') + Plain' + Len(pending')
        BY <3>2, <3>3
      <3>7. \A i \in 1 .. Len(log') : log'[i].id = i
        BY <3>3 DEF IInv, FifoInv
      <3> QED
        BY <3>4, <3>5, <3>6, <3>7 DEF FifoInv
    <2> QED
      BY <1>5, <2>4, <2>7, <2>8 DEF IInv
  <1> QED
    BY <1>6, <1>7

\* A packet that finds a page of the old image.
LEMMA ErasePages ==
    ASSUME NEW pkt, pkt.first \in Pages, pkt.last \in Pages
    PROVE  /\ ErasePage(pkt) \in Nat
           /\ Cmd("clear", "lazy", ErasePage(pkt), ErasePage(pkt), 0) \in Command
           /\ Cmd("clear", "lazy", ErasePage(pkt), ErasePage(pkt), 0).flags = "lazy"
  <1>1. ErasePage(pkt) \in Pages
    BY DEF ErasePage
  <1> QED
    BY <1>1, PageIsNat DEF Cmd, Command

\* The lazy erase is queued last, behind the commands of clients, and the buffer keeps
\* its place behind them.
LEMMA EraseQueued ==
    ASSUME IInv, ~lazy, ~processing,
           NEW c \in Command,
           queue' = Append(queue, c),
           Len(queue) < QueueSize,
           lazy' \/ processing'
    PROVE  /\ queue' \in Seq(Command) /\ Len(queue') <= QueueSize
           /\ queue' # <<>>
           /\ queue'[Len(queue')] = c
           /\ Plain' = Len(queue)
           /\ Plain = Len(queue)
           /\ \A i \in 1 .. Len(queue) : queue'[i] = queue[i]
  <1>1. /\ queue' \in Seq(Command)
        /\ queue' # <<>>
        /\ Len(queue') = Len(queue) + 1
        /\ queue'[Len(queue) + 1] = c
        /\ \A i \in 1 .. Len(queue) : queue'[i] = queue[i]
    BY Sizes, Appended
  <1>2. Len(queue') <= QueueSize
    BY <1>1, Sizes, PstorageConstants
  <1>3. Plain' = Len(queue') - 1 /\ Plain = Len(queue)
    BY DEF Plain
  <1> QED
    BY <1>1, <1>2, <1>3, Sizes

\* pstorage_store that finds a page of the old image: it buffers the packet and queues the lazy erase.
LEMMA EraseStep ==
    ASSUME IInv, NEW r \in Stores, StoreStartsErase(r)
    PROVE  IInv'
  <1> DEFINE c == Cmd("clear", "lazy", ErasePage(r), ErasePage(r), 0)
  <1>1. PICK ret \in EnqueueReturns :
            /\ lazy_erase_trigger(r, ret)
            /\ IF ret = "success" THEN pending_packet_add(r) ELSE UNCHANGED <<pending, acc>>
    BY DEF StoreStartsErase
  <1>u. ~Buffering /\ UNCHANGED <<processing, erased, ctl, foreign, log, flash>>
    BY DEF StoreStartsErase
  <1>2. ~lazy /\ ~processing /\ pending = <<>> /\ Plain = Len(queue) /\ Len(pending) = 0
    BY <1>u DEF Buffering, Plain
  <1>3. c \in Command /\ c.flags = "lazy" /\ ErasePage(r) \in Nat
    BY RequestPages, ErasePages
  <1>4. /\ lazyPage' = ErasePage(r)
        /\ cmd_queue_enqueue(c, ret)
        /\ lazy' = (ret = "success")
    BY <1>1 DEF lazy_erase_trigger
  <1>5. /\ queue' = IF ret = "success" THEN Append(queue, c) ELSE queue
        /\ ret = "success" => Len(queue) < QueueSize
        /\ access' \in {"idle", "in_flight", "wait_busy"}
        /\ round' \in Nat
        /\ soc' \in {"free", "ours", "foreign"}
        /\ access' # "idle" => queue' # <<>>
    BY <1>3, <1>4, EnqueueEffect DEF IInv
  <1>6. AbortInv' /\ AccessInv'
    <2>1. NothingOwed(ctl)'
      BY <1>u, <1>2, NoAbortWaiting
    <2> QED
      BY <1>5, <2>1, StackInv DEF AccessInv
  <1>7. CASE ret # "success"
    <2>0. lazy' = lazy
      BY <1>2, <1>4, <1>7, Zenon DEF IInv, TypeOK
    <2>1. UNCHANGED <<queue, acc, pending, lazy>>
      BY <1>1, <1>5, <1>7, <2>0
    <2>2. lazyPage' \in Nat /\ Plain' = Plain
      BY <1>3, <1>4, <1>u, <2>1 DEF Plain
    <2> QED
      BY <1>5, <1>6, <1>u, <2>1, <2>2 DEF IInv, TypeOK, FlagsInv, FifoInv
  <1>8. CASE ret = "success"
    <2>1. /\ queue' \in Seq(Command) /\ Len(queue') <= QueueSize
          /\ queue' # <<>>
          /\ queue'[Len(queue')] = c
          /\ Plain' = Len(queue)
          /\ \A i \in 1 .. Len(queue) : queue'[i] = queue[i]
      <3>1. lazy' /\ queue' = Append(queue, c) /\ Len(queue) < QueueSize
        BY <1>4, <1>5, <1>8
      <3> QED
        BY <1>2, <1>3, <3>1, EraseQueued
    <2>2. /\ \A i \in 1 .. Len(queue) : queue[i].flags = "none" /\ queue[i].id = Len(log) + i
          /\ Len(acc) = Len(log) + Len(queue)
      BY <1>2, Sizes DEF IInv, FlagsInv, FifoInv
    <2>3. FlagsInv'
      BY <1>2, <1>3, <1>4, <1>8, <1>u, <2>1, <2>2 DEF FlagsInv
    <2>4. PacketOf(r) \in Packet /\ PacketOf(r).id = Len(acc) + 1
      BY RequestPages, Sizes DEF PacketOf, Packet, NewId
    <2>5. CASE UNCHANGED <<pending, acc>>
      <3>1. TypeOK'
        BY <1>3, <1>4, <1>5, <1>8, <1>u, <2>1, <2>5 DEF IInv, TypeOK
      <3>2. FifoInv'
        <4>1. Len(acc) = Len(log) + Len(queue) + Len(pending)
          BY <1>2, <2>2, Sizes
        <4>2. log' = log /\ pending' = pending /\ acc' = acc /\ Plain' = Len(queue)
          BY <1>u, <2>1, <2>5
        <4>3. \A i \in 1 .. Plain' : queue'[i].id = Len(log') + i
          BY <2>1, <2>2, <4>2
        <4>4. \A j \in 1 .. Len(pending') : pending'[j].id = Len(log') + Plain' + j
          BY <1>2, <4>2
        <4>5. Len(acc') = Len(log') + Plain' + Len(pending')
          BY <4>1, <4>2
        <4>6. \A i \in 1 .. Len(log') : log'[i].id = i
          BY <4>2 DEF IInv, FifoInv
        <4> QED
          BY <4>3, <4>4, <4>5, <4>6 DEF FifoInv
      <3> QED
        BY <1>6, <2>3, <3>1, <3>2 DEF IInv
    <2>6. CASE pending' = Append(pending, PacketOf(r)) /\ Accepted(r) /\ Len(pending) < PendingCount
      <3>1. /\ pending' \in Seq(Packet)
            /\ Len(pending') = 1
            /\ pending'[1] = PacketOf(r)
        BY <1>2, <2>4, <2>6, Sizes, Appended
      <3>2. acc' \in Seq(Contract!Request) /\ Len(acc') = Len(acc) + 1
        BY <2>6, Sizes, RequestPages, Appended DEF Accepted
      <3>3. Len(pending') <= PendingCount
        BY <3>1, PstorageConstants
      <3>4. TypeOK'
        BY <1>3, <1>4, <1>5, <1>8, <1>u, <2>1, <3>1, <3>2, <3>3 DEF IInv, TypeOK
      <3>5. pending'[1].id = Len(log) + Len(queue) + 1
        BY <2>2, <2>4, <3>1, Sizes
      <3>6. Len(acc') = Len(log) + Len(queue) + 1
        BY <2>2, <3>2, Sizes
      <3>7. FifoInv'
        <4>1. \A j \in 1 .. Len(pending') : j = 1
          BY <3>1
        <4>2. \A j \in 1 .. Len(pending') : pending'[j].id = Len(log) + Len(queue) + j
          BY <3>5, <4>1
        <4>3. log' = log /\ Plain' = Len(queue)
          BY <1>u, <2>1
        <4>4. \A i \in 1 .. Plain' : queue'[i].id = Len(log') + i
          BY <2>1, <2>2, <4>3
        <4>5. \A j \in 1 .. Len(pending') : pending'[j].id = Len(log') + Plain' + j
          BY <4>2, <4>3
        <4>6. Len(acc') = Len(log') + Plain' + Len(pending')
          BY <3>1, <3>6, <4>3
        <4>7. \A i \in 1 .. Len(log') : log'[i].id = i
          BY <4>3 DEF IInv, FifoInv
        <4> QED
          BY <4>4, <4>5, <4>6, <4>7 DEF FifoInv
      <3> QED
        BY <1>6, <2>3, <3>4, <3>7 DEF IInv
    <2> QED
      BY <1>1, <1>8, <2>5, <2>6 DEF pending_packet_add
  <1> QED
    BY <1>7, <1>8

-----------------------------------------------------------------------------
(* Completions.                                                             *)

\* The head of the queue is either the oldest request of all, or the only command: the
\* lazy erase or the buffered store that the flags announce.
LEMMA HeadOfQueue ==
    ASSUME IInv, queue # <<>>
    PROVE  /\ Head(queue) \in Command /\ Head(queue) = queue[1]
           /\ Head(queue).flags = "none" => Plain >= 1 /\ Head(queue).id = Len(log) + 1
           /\ Head(queue).flags # "none" =>
                 /\ Plain = 0 /\ Len(queue) = 1 /\ Tail(queue) = <<>>
                 /\ Head(queue).flags = "lazy" => lazy /\ ~processing
                 /\ Head(queue).flags = "pending" => processing /\ ~lazy /\ pending # <<>>
  <1>1. /\ Head(queue) \in Command /\ Head(queue) = queue[1] /\ Len(queue) >= 1
        /\ Tail(queue) \in Seq(Command) /\ Len(Tail(queue)) = Len(queue) - 1
    BY Sizes, Popped
  <1>2. CASE Plain >= 1
    <2>1. 1 \in 1 .. Plain
      BY <1>2, Sizes
    <2>2. queue[1].flags = "none" /\ queue[1].id = Len(log) + 1
      BY <2>1 DEF IInv, FlagsInv, FifoInv
    <2> QED
      BY <1>1, <1>2, <2>2
  <1>3. CASE Plain = 0
    <2>1. Len(queue) = 1 /\ (lazy \/ processing)
      BY <1>1, <1>3, Sizes DEF Plain
    <2>2. Tail(queue) = <<>>
      <3>1. Len(Tail(queue)) = 0
        BY <1>1, <2>1
      <3> QED
        BY <1>1, <3>1, EmptySeq
    <2>3. /\ ~(lazy /\ processing)
          /\ lazy => queue[1].flags = "lazy"
          /\ processing => queue[1].flags = "pending" /\ pending # <<>>
      BY <2>1 DEF IInv, FlagsInv
    <2> QED
      BY <1>1, <1>3, <2>1, <2>2, <2>3
  <1> QED
    BY <1>2, <1>3, Sizes

\* One more completion is logged, for the oldest request.
LEMMA Logged ==
    ASSUME IInv, NEW ok \in BOOLEAN, Notify(Len(log) + 1, ok)
    PROVE  /\ log' \in Seq(Contract!Completion)
           /\ Len(log') = Len(log) + 1
           /\ \A i \in 1 .. Len(log') : log'[i].id = i
  <1> DEFINE e == [id |-> Len(log) + 1, ok |-> ok]
  <1>1. e \in Contract!Completion /\ e.id = Len(log) + 1
    BY Sizes DEF Contract!Completion
  <1>2. log' = Append(log, e)
    BY DEF Notify
  <1>3. /\ log' \in Seq(Contract!Completion)
        /\ Len(log') = Len(log) + 1
        /\ log'[Len(log) + 1] = e
        /\ \A i \in 1 .. Len(log) : log'[i] = log[i]
    BY <1>1, <1>2, Sizes, Appended
  <1>4. \A i \in 1 .. Len(log) : log[i].id = i
    BY DEF IInv, FifoInv
  <1>5. ASSUME NEW i \in 1 .. Len(log')
        PROVE  log'[i].id = i
    <2>1. CASE i = Len(log) + 1
      BY <1>1, <1>3, <2>1
    <2>2. CASE i \in 1 .. Len(log)
      BY <1>3, <1>4, <2>2
    <2> QED
      BY <1>3, <2>1, <2>2, Sizes
  <1> QED
    BY <1>3, <1>5

\* The head of the queue belongs to a client, and the client is told how it ended.
LEMMA ReportHead ==
    ASSUME IInv, queue # <<>>, Head(queue).flags = "none",
           NEW ok \in BOOLEAN, Notify(Head(queue).id, ok),
           queue' = Tail(queue), round' = 0, access' = "idle",
           soc' \in {"free", "ours", "foreign"},
           flash' \in [Pages -> SUBSET Nat],
           UNCHANGED <<pending, lazy, lazyPage, processing, erased, foreign, acc>>,
           ctl' \in Seq(Frames), NothingOwed(ctl')
    PROVE  IInv'
  <1>1. Plain >= 1 /\ Head(queue).id = Len(log) + 1
    BY HeadOfQueue
  <1>2. /\ log' \in Seq(Contract!Completion)
        /\ Len(log') = Len(log) + 1
        /\ \A i \in 1 .. Len(log') : log'[i].id = i
    BY <1>1, Logged
  <1>3. /\ queue' \in Seq(Command)
        /\ Len(queue) >= 1 /\ Len(queue') = Len(queue) - 1
        /\ \A i \in 1 .. Len(queue) - 1 : queue'[i] = queue[i + 1]
    BY Sizes, Popped
  <1>4. Plain' = Plain - 1 /\ Plain <= Len(queue)
    BY <1>3, Sizes DEF Plain
  <1>5. TypeOK'
    <2>1. Len(queue') <= QueueSize /\ round' \in Nat /\ access' \in {"idle", "in_flight", "wait_busy"}
      BY <1>3, Sizes, PstorageConstants DEF IInv, TypeOK
    <2> QED
      BY <1>2, <1>3, <2>1 DEF IInv, TypeOK
  <1>6. ASSUME NEW i \in 1 .. Plain'
        PROVE  queue'[i].flags = "none" /\ queue'[i].id = Len(log') + i
    <2>1. i + 1 \in 1 .. Plain /\ i \in 1 .. Len(queue) - 1
      BY <1>3, <1>4, Sizes
    <2>2. queue[i + 1].flags = "none" /\ queue[i + 1].id = Len(log) + (i + 1)
      BY <2>1 DEF IInv, FlagsInv, FifoInv
    <2> QED
      BY <1>2, <1>3, <2>1, <2>2, Sizes
  <1>7. FlagsInv'
    <2>1. CASE ~lazy /\ ~processing
      <3>1. pending = <<>>
        BY <2>1 DEF IInv, FlagsInv
      <3> QED
        BY <1>6, <2>1, <3>1 DEF IInv, FlagsInv
    <2>2. CASE lazy \/ processing
      <3>1. Len(queue) > 1
        BY <1>1, <1>3, <2>2, Sizes DEF Plain
      <3>2. queue' # <<>> /\ queue'[Len(queue')] = queue[Len(queue)]
        BY <3>1, Sizes, LastStays
      <3> QED
        BY <1>6, <2>2, <3>2 DEF IInv, FlagsInv
    <2> QED
      BY <2>1, <2>2
  <1>8. FifoInv'
    <2>1. /\ \A j \in 1 .. Len(pending) : pending[j].id = Len(log) + Plain + j
          /\ Len(acc) = Len(log) + Plain + Len(pending)
      BY DEF IInv, FifoInv
    <2>2. Len(log') + Plain' = Len(log) + Plain
      BY <1>2, <1>4, Sizes
    <2> QED
      BY <1>2, <1>6, <2>1, <2>2 DEF FifoInv
  <1>9. AccessInv' /\ AbortInv'
    BY StackInv DEF AccessInv
  <1> QED
    BY <1>5, <1>7, <1>8, <1>9 DEF IInv

\* pending_packets_abort begins: the packets it will report are those in the buffer.
LEMMA AbortStep ==
    ASSUME IInv, Plain = 0,
           NEW frames \in Seq(Frames), NothingOwed(frames), AbortPending(frames),
           queue' = <<>>, round' \in Nat, access' = "idle",
           soc' \in {"free", "ours", "foreign"},
           flash' \in [Pages -> SUBSET Nat],
           UNCHANGED <<erased, foreign, acc>>
    PROVE  IInv'
  <1>1. /\ lazy' = FALSE /\ lazyPage' = 0 /\ processing' = FALSE
        /\ UNCHANGED <<pending, log>>
        /\ ctl' = <<AbortFrame(Len(pending))>> \o frames
    BY DEF AbortPending
  <1>2. /\ AbortFrame(Len(pending)) \in Frames
        /\ AbortFrame(Len(pending)).n = Len(pending)
    BY Sizes DEF AbortFrame, Frames
  <1>3. /\ ctl' \in Seq(Frames)
        /\ Len(ctl') = Len(frames) + 1
        /\ ctl'[1] = AbortFrame(Len(pending))
        /\ \A i \in 2 .. Len(frames) + 1 : ctl'[i] = frames[i - 1]
    BY <1>1, <1>2, Pushed
  <1>4. queue' \in Seq(Command) /\ Len(queue') = 0 /\ Len(queue') <= QueueSize /\ Plain' = 0
    BY <1>1, PstorageConstants DEF Plain
  <1>5. TypeOK'
    BY <1>1, <1>3, <1>4 DEF IInv, TypeOK
  <1>6. FlagsInv' /\ AccessInv'
    BY <1>1, <1>4 DEF FlagsInv, AccessInv
  <1>7. FifoInv'
    BY <1>1, <1>4 DEF IInv, FifoInv
  <1>8. AbortInv'
    <2>1. \A i \in 2 .. Len(ctl') : ~(ctl'[i].f = "abort" /\ ctl'[i].n > 0)
      BY <1>3 DEF NothingOwed
    <2>2. ctl'[1].n <= Len(pending')
      BY <1>1, <1>2, <1>3, Sizes
    <2> QED
      BY <1>1, <1>3, <2>1, <2>2 DEF AbortInv
  <1> QED
    BY <1>5, <1>6, <1>7, <1>8 DEF IInv

\* cmd_queue_fail_head.
LEMMA FailHead ==
    ASSUME IInv, queue # <<>>,
           NEW frames \in Seq(Frames), NothingOwed(frames), cmd_queue_fail_head(frames),
           access' = "idle",
           soc' \in {"free", "ours", "foreign"},
           flash' \in [Pages -> SUBSET Nat],
           UNCHANGED <<erased, foreign, acc>>
    PROVE  IInv'
  <1>1. queue' = Tail(queue) /\ round' = 0
    BY DEF cmd_queue_fail_head
  <1>2. CASE Head(queue).flags # "none"
    <2>1. AbortPending(frames)
      BY <1>2 DEF cmd_queue_fail_head
    <2>2. Plain = 0 /\ queue' = <<>> /\ round' \in Nat
      BY <1>1, <1>2, HeadOfQueue
    <2> QED
      BY <2>1, <2>2, AbortStep
  <1>3. CASE Head(queue).flags = "none"
    <2>1. /\ Notify(Head(queue).id, FALSE)
          /\ ctl' = <<Frame("callback")>> \o frames
          /\ UNCHANGED <<pending, lazy, lazyPage, processing>>
      BY <1>3 DEF cmd_queue_fail_head
    <2>2. ctl' \in Seq(Frames) /\ NothingOwed(ctl')
      BY <2>1, PushedPlain
    <2> QED
      BY <1>1, <1>3, <2>1, <2>2, ReportHead
  <1> QED
    BY <1>2, <1>3

\* A flash operation leaves a set of stores on every page.
LEMMA FlashTyped ==
    ASSUME IInv, queue # <<>>, NEW ok \in BOOLEAN, EventEffect(ok)
    PROVE  flash' \in [Pages -> SUBSET Nat]
  <1>1. flash \in [Pages -> SUBSET Nat] /\ Head(queue) \in Command
    BY HeadOfQueue DEF IInv, TypeOK
  <1>2. Head(queue).id \in Nat
    BY <1>1 DEF Command
  <1> QED
    BY <1>1, <1>2 DEF EventEffect, FlashAfter

\* Only the stack, the access state and the SoftDevice change.
LEMMA StackStep ==
    ASSUME IInv,
           UNCHANGED <<queue, round, pending, lazy, lazyPage, processing, erased>>,
           UNCHANGED <<foreign, acc, log, flash>>,
           access' \in {"idle", access},
           soc' \in {"free", "ours", "foreign"},
           ctl' \in Seq(Frames), AbortInv'
    PROVE  IInv'
  <1>1. access' \in {"idle", "in_flight", "wait_busy"}
    BY DEF IInv, TypeOK
  <1>2. TypeOK'
    BY <1>1 DEF IInv, TypeOK
  <1>3. Plain' = Plain
    BY DEF Plain
  <1> QED
    BY <1>2, <1>3 DEF IInv, FlagsInv, FifoInv, AccessInv

\* pstorage_sys_event_handler on NRF_EVT_FLASH_OPERATION_SUCCESS.
LEMMA SuccessStep ==
    ASSUME IInv, EventSuccess
    PROVE  IInv'
  <1>1. queue # <<>> /\ access' = "idle" /\ soc' = "free" /\ UNCHANGED <<foreign, acc>>
    BY DEF EventSuccess, IInv, AccessInv
  <1>2. NothingOwed(ctl) /\ ctl \in Seq(Frames)
    BY <1>1, NoAbortWaiting, Sizes
  <1>3. flash' \in [Pages -> SUBSET Nat]
    BY <1>1, FlashTyped DEF EventSuccess
  <1>4. /\ <<Frame("tail")>> \o ctl \in Seq(Frames)
        /\ NothingOwed(<<Frame("tail")>> \o ctl)
    BY <1>2, PushedPlain
  <1>5. /\ <<Frame("callback"), Frame("tail")>> \o ctl = <<Frame("callback")>> \o (<<Frame("tail")>> \o ctl)
        /\ <<Frame("pending"), Frame("tail")>> \o ctl = <<Frame("pending")>> \o (<<Frame("tail")>> \o ctl)
    BY <1>2
  <1>6. CASE round + 1 >= Rounds(Head(queue))
    <2>0. Finish
      BY <1>6 DEF EventSuccess
    <2>1. queue' = Tail(queue) /\ round' = 0 /\ lazyPage' = lazyPage
      BY <2>0 DEF Finish
    <2>2. CASE /\ Head(queue).flags = "lazy"
               /\ erased' = [p \in DOMAIN erased |-> erased[p] \/ p = lazyPage]
               /\ lazy' = FALSE
               /\ ctl' = <<Frame("pending"), Frame("tail")>> \o ctl
               /\ UNCHANGED <<pending, processing, log>>
      <3>1. Plain = 0 /\ Len(queue) = 1 /\ queue' = <<>> /\ ~processing
        BY <1>1, <2>1, <2>2, HeadOfQueue
      <3>2. erased' \in [Image -> BOOLEAN]
        BY <2>2 DEF IInv, TypeOK
      <3>3. ctl' \in Seq(Frames) /\ NothingOwed(ctl')
        BY <1>4, <1>5, <2>2, PushedPlain
      <3>4. queue' \in Seq(Command) /\ Len(queue') = 0 /\ Len(queue') <= QueueSize /\ Plain' = 0
        BY <2>2, <3>1, PstorageConstants DEF Plain
      <3>5. TypeOK'
        BY <1>1, <1>3, <2>1, <2>2, <3>2, <3>3, <3>4 DEF IInv, TypeOK
      <3>6. FlagsInv' /\ AccessInv' /\ AbortInv'
        BY <1>1, <2>2, <3>1, <3>3, <3>4, StackInv DEF FlagsInv, AccessInv
      <3>7. FifoInv'
        BY <1>1, <2>2, <3>1, <3>4 DEF IInv, FifoInv
      <3> QED
        BY <3>5, <3>6, <3>7 DEF IInv
    <2>3. CASE /\ Head(queue).flags = "pending"
               /\ processing' = FALSE
               /\ pending' = Tail(pending)
               /\ Notify(Head(pending).id, TRUE)
               /\ ctl' = <<Frame("callback"), Frame("tail")>> \o ctl
               /\ UNCHANGED <<lazy, erased>>
      <3>1. Plain = 0 /\ Len(queue) = 1 /\ queue' = <<>> /\ ~lazy /\ pending # <<>>
        BY <1>1, <2>1, <2>3, HeadOfQueue
      <3>2. /\ Head(pending) = pending[1] /\ Len(pending) >= 1
            /\ pending' \in Seq(Packet) /\ Len(pending') = Len(pending) - 1
            /\ \A j \in 1 .. Len(pending) - 1 : pending'[j] = pending[j + 1]
        BY <2>3, <3>1, Sizes, Popped
      <3>3. /\ \A j \in 1 .. Len(pending) : pending[j].id = Len(log) + j
            /\ Len(acc) = Len(log) + Len(pending)
        BY <3>1, Sizes DEF IInv, FifoInv
      <3>4. Head(pending).id = Len(log) + 1
        BY <3>2, <3>3, Sizes
      <3>5. /\ log' \in Seq(Contract!Completion)
            /\ Len(log') = Len(log) + 1
            /\ \A i \in 1 .. Len(log') : log'[i].id = i
        BY <2>3, <3>4, Logged
      <3>6. ctl' \in Seq(Frames) /\ NothingOwed(ctl')
        BY <1>4, <1>5, <2>3, PushedPlain
      <3>7. queue' \in Seq(Command) /\ Len(queue') = 0 /\ Len(queue') <= QueueSize /\ Plain' = 0
        BY <2>3, <3>1, PstorageConstants DEF Plain
      <3>8. Len(pending') <= PendingCount
        BY <3>2, Sizes, PstorageConstants DEF IInv, TypeOK
      <3>9. TypeOK'
        BY <1>1, <1>3, <2>1, <2>3, <3>2, <3>5, <3>6, <3>7, <3>8 DEF IInv, TypeOK
      <3>10. FlagsInv' /\ AccessInv' /\ AbortInv'
        BY <1>1, <2>3, <3>1, <3>6, <3>7, StackInv DEF FlagsInv, AccessInv
      <3>11. FifoInv'
        <4>1. ASSUME NEW j \in 1 .. Len(pending')
              PROVE  pending'[j].id = Len(log') + j
          <5>1. j \in 1 .. Len(pending) - 1 /\ j + 1 \in 1 .. Len(pending)
            BY <3>2, Sizes
          <5>2. pending'[j] = pending[j + 1] /\ pending[j + 1].id = Len(log) + (j + 1)
            BY <3>2, <3>3, <5>1
          <5> QED
            BY <3>5, <5>1, <5>2, Sizes
        <4>2. Len(acc') = Len(log') + Len(pending')
          BY <1>1, <3>2, <3>3, <3>5, Sizes
        <4>3. Len(log') \in Nat /\ Len(pending') \in Nat
          BY <3>2, <3>5
        <4>4. \A j \in 1 .. Len(pending') : Len(log') + Plain' + j = Len(log') + j
          BY <3>7, <4>3
        <4>5. Len(acc') = Len(log') + Plain' + Len(pending')
          BY <3>7, <4>2, <4>3
        <4> QED
          BY <3>5, <3>7, <4>1, <4>4, <4>5 DEF FifoInv
      <3> QED
        BY <3>9, <3>10, <3>11 DEF IInv
    <2>4. CASE /\ Head(queue).flags = "none"
               /\ Notify(Head(queue).id, TRUE)
               /\ ctl' = <<Frame("callback"), Frame("tail")>> \o ctl
               /\ UNCHANGED <<pending, lazy, processing, erased>>
      <3>1. ctl' \in Seq(Frames) /\ NothingOwed(ctl')
        BY <1>4, <1>5, <2>4, PushedPlain
      <3> QED
        BY <1>1, <1>3, <2>1, <2>4, <3>1, ReportHead
    <2>5. Head(queue).flags = "pending" => pending # <<>>
      BY <1>1, HeadOfQueue
    <2> QED
      BY <2>0, <2>2, <2>3, <2>4, <2>5 DEF Finish
  <1>7. CASE ~(round + 1 >= Rounds(Head(queue)))
    <2>1. /\ round' = round + 1
          /\ ctl' = <<Frame("tail")>> \o ctl
          /\ UNCHANGED <<queue, pending, lazy, lazyPage, processing, erased, log>>
      BY <1>7 DEF EventSuccess
    <2>2. round' \in Nat
      BY <2>1 DEF IInv, TypeOK
    <2>3. TypeOK'
      BY <1>1, <1>3, <1>4, <2>1, <2>2 DEF IInv, TypeOK
    <2>4. AbortInv' /\ AccessInv'
      BY <1>1, <1>4, <2>1, StackInv DEF AccessInv
    <2>5. Plain' = Plain
      BY <2>1 DEF Plain
    <2> QED
      BY <1>1, <2>1, <2>3, <2>4, <2>5 DEF IInv, FlagsInv, FifoInv
  <1> QED
    BY <1>6, <1>7

\* pstorage_sys_event_handler on NRF_EVT_FLASH_OPERATION_ERROR.
LEMMA ErrorStep ==
    ASSUME IInv, EventError
    PROVE  IInv'
  <1>1. queue # <<>> /\ access' = "idle" /\ soc' = "free" /\ UNCHANGED <<erased, foreign, acc>>
    BY DEF EventError, IInv, AccessInv
  <1>2. NothingOwed(ctl) /\ ctl \in Seq(Frames)
    BY <1>1, NoAbortWaiting, Sizes
  <1>3. flash' \in [Pages -> SUBSET Nat]
    BY <1>1, FlashTyped DEF EventError
  <1>4. /\ <<Frame("dequeue")>> \o ctl \in Seq(Frames)
        /\ NothingOwed(<<Frame("dequeue")>> \o ctl)
    BY <1>2, PushedPlain
  <1>5. cmd_queue_fail_head(<<Frame("dequeue")>> \o ctl)
    BY DEF EventError
  <1> QED
    BY <1>1, <1>3, <1>4, <1>5, FailHead

-----------------------------------------------------------------------------
(* The frames. *)

\* pstorage_sys_event_handler after BUSY: the head of the queue is tried again.
LEMMA RetryStep ==
    ASSUME IInv, EventRetry
    PROVE  IInv'
  <1>1. queue # <<>>
    BY DEF EventRetry, IInv, AccessInv
  <1>2. NothingOwed(ctl) /\ ctl \in Seq(Frames)
    BY <1>1, NoAbortWaiting, Sizes
  <1>3. ctl' \in Seq(Frames) /\ NothingOwed(ctl')
    BY <1>2, PushedPlain DEF EventRetry
  <1>4. AbortInv'
    BY <1>3, StackInv
  <1> QED
    BY <1>3, <1>4, StackStep DEF EventRetry

\* Events and flash operations of others change nothing of the driver.
LEMMA IgnoredStep ==
    ASSUME IInv, EventIgnored \/ ForeignStart
    PROVE  IInv'
  <1>1. /\ UNCHANGED <<driver, ctl, acc, log, flash>>
        /\ soc' \in {"free", "ours", "foreign"} /\ foreign' \in Nat
    BY DEF EventIgnored, ForeignStart, IInv, TypeOK
  <1>2. Plain' = Plain
    BY <1>1 DEF driver, Plain
  <1> QED
    BY <1>1, <1>2 DEF driver, IInv, TypeOK, FlagsInv, FifoInv, AccessInv, AbortInv

\* A client's completion callback returns.
LEMMA CallbackStep ==
    ASSUME IInv, CallbackReturn
    PROVE  IInv'
  <1>1. ctl # <<>> /\ ctl \in Seq(Frames) /\ ctl' = Tail(ctl) /\ ctl[1].f = "callback"
    BY Sizes, Popped DEF CallbackReturn, Running
  <1>2. /\ ctl' \in Seq(Frames)
        /\ Len(ctl) \in Nat \ {0} /\ Len(ctl') = Len(ctl) - 1
        /\ \A i \in 1 .. Len(ctl) - 1 : ctl'[i] = ctl[i + 1]
    BY <1>1, Popped
  <1>3. AbortInv'
    <2> SUFFICES ASSUME NEW i \in 1 .. Len(ctl'), ctl'[i].f = "abort", ctl'[i].n > 0
                 PROVE  /\ i = 1
                        /\ ctl'[i].n <= Len(pending')
                        /\ ~lazy' /\ ~processing'
      BY DEF AbortInv
    <2>1. i + 1 \in 1 .. Len(ctl) /\ ctl'[i] = ctl[i + 1] /\ i \in Nat
      BY <1>2
    <2>2. /\ i + 1 = 1 \/ i + 1 = 2
          /\ ctl[i + 1].n <= Len(pending)
          /\ ~lazy /\ ~processing
      BY <2>1 DEF IInv, AbortInv
    <2>3. UNCHANGED <<pending, lazy, processing>>
      BY DEF CallbackReturn, driver
    <2>4. i = 1
      BY <2>1, <2>2
    <2> QED
      BY <2>1, <2>2, <2>3, <2>4
  <1> QED
    BY <1>2, <1>3, StackStep DEF CallbackReturn, driver, IInv, TypeOK

\* A frame other than a callback ends, perhaps calling dequeue or process_pending_packets.
LEMMA FrameStep ==
    ASSUME IInv, EventTail \/ DequeueReturn \/ PendingReturn \/ AbortReturn
    PROVE  IInv'
  <1>1. /\ UNCHANGED <<driver, soc, foreign, acc, log, flash>>
        /\ ctl # <<>>
        /\ Head(ctl).f # "callback"
        /\ Head(ctl).f = "abort" => ~(Head(ctl).n > 0) \/ pending = <<>>
        /\ \/ ctl' = Tail(ctl)
           \/ ctl' = <<Frame("dequeue")>> \o Tail(ctl)
           \/ ctl' = <<Frame("pending")>> \o Tail(ctl)
    BY DEF EventTail, DequeueReturn, PendingReturn, AbortReturn, Running
  <1>2. NothingOwed(ctl) /\ ctl \in Seq(Frames)
    BY <1>1, NoAbortWaiting, Sizes
  <1>3. Tail(ctl) \in Seq(Frames) /\ NothingOwed(Tail(ctl))
    BY <1>1, <1>2, PoppedPlain
  <1>4. ctl' \in Seq(Frames) /\ NothingOwed(ctl')
    BY <1>1, <1>3, PushedPlain
  <1>5. AbortInv'
    BY <1>4, StackInv
  <1> QED
    BY <1>1, <1>4, <1>5, StackStep DEF driver, IInv, TypeOK

\* cmd_queue_dequeue starts the next command.
LEMMA DequeueStep ==
    ASSUME IInv, DequeueStart
    PROVE  IInv'
  <1>1. /\ queue # <<>> /\ UNCHANGED <<erased, foreign, acc, flash>>
        /\ ctl # <<>>
    BY DEF DequeueStart, Running
  <1>2. NothingOwed(ctl) /\ ctl \in Seq(Frames)
    BY <1>1, NoAbortWaiting, Sizes
  <1>3. PICK rc \in SocReturns :
            /\ cmd_process(rc)
            /\ IF rc = "fatal"
               THEN cmd_queue_fail_head(ctl)
               ELSE /\ ctl' = Tail(ctl)
                    /\ UNCHANGED <<queue, round, pending, lazy, lazyPage, processing, log>>
    BY DEF DequeueStart
  <1>4. /\ access' \in {"idle", "in_flight", "wait_busy"} /\ soc' \in {"free", "ours", "foreign"}
        /\ rc = "fatal" => access' = "idle"
    BY <1>3 DEF cmd_process, SocReturns, AccessAfter, SocAfter, IInv, TypeOK
  <1>5. CASE rc = "fatal"
    <2>1. flash' \in [Pages -> SUBSET Nat]
      BY <1>1 DEF IInv, TypeOK
    <2> QED
      BY <1>1, <1>2, <1>3, <1>4, <1>5, <2>1, FailHead
  <1>6. CASE rc # "fatal"
    <2>1. /\ ctl' = Tail(ctl)
          /\ UNCHANGED <<queue, round, pending, lazy, lazyPage, processing, log>>
      BY <1>3, <1>6
    <2>2. ctl' \in Seq(Frames) /\ NothingOwed(ctl')
      BY <1>1, <1>2, <2>1, PoppedPlain
    <2>3. TypeOK'
      BY <1>1, <1>4, <2>1, <2>2 DEF IInv, TypeOK
    <2>4. AbortInv' /\ AccessInv'
      BY <1>1, <2>1, <2>2, StackInv DEF AccessInv
    <2>5. Plain' = Plain
      BY <2>1 DEF Plain
    <2> QED
      BY <1>1, <2>1, <2>3, <2>4, <2>5 DEF IInv, FlagsInv, FifoInv
  <1> QED
    BY <1>5, <1>6

\* A flagged command for the oldest buffered packet enters the empty queue.
LEMMA FlaggedQueued ==
    ASSUME IInv, queue = <<>>, ~lazy, ~processing, pending # <<>>,
           NEW c \in Command,
           queue' = Append(queue, c), Len(queue) < QueueSize,
           access' \in {"idle", "in_flight", "wait_busy"},
           round' \in Nat, lazyPage' \in Nat,
           soc' \in {"free", "ours", "foreign"},
           \/ lazy' = TRUE /\ processing' = FALSE /\ c.flags = "lazy"
           \/ lazy' = FALSE /\ processing' = TRUE /\ c.flags = "pending",
           UNCHANGED <<pending, log, erased, foreign, acc, flash>>,
           ctl' \in Seq(Frames), NothingOwed(ctl')
    PROVE  IInv'
  <1>1. /\ queue' \in Seq(Command) /\ Len(queue') <= QueueSize
        /\ queue' # <<>>
        /\ queue'[Len(queue')] = c
        /\ Plain' = Len(queue)
        /\ Plain = Len(queue)
    BY EraseQueued
  <1>2. Plain' = 0 /\ Plain = 0
    BY <1>1
  <1>3. TypeOK'
    <2>1. lazy' \in BOOLEAN /\ processing' \in BOOLEAN
      OBVIOUS
    <2> QED
      BY <1>1, <2>1 DEF IInv, TypeOK
  <1>4. FlagsInv' /\ AccessInv' /\ AbortInv'
    BY <1>1, <1>2, StackInv DEF FlagsInv, AccessInv
  <1>5. FifoInv'
    BY <1>2 DEF IInv, FifoInv
  <1> QED
    BY <1>3, <1>4, <1>5 DEF IInv

\* What process_pending_packets finds when it has something to do.
LEMMA PendingFrame ==
    ASSUME IInv, Running("pending"),
           ~(processing \/ lazy \/ queue # <<>> \/ pending = <<>>)
    PROVE  /\ ~lazy /\ ~processing /\ queue = <<>> /\ pending # <<>> /\ Plain = 0
           /\ Tail(ctl) \in Seq(Frames) /\ NothingOwed(Tail(ctl))
           /\ <<Frame("dequeue")>> \o Tail(ctl) \in Seq(Frames)
           /\ NothingOwed(<<Frame("dequeue")>> \o Tail(ctl))
           /\ Head(pending) \in Packet
           /\ Head(pending).first \in Pages /\ Head(pending).last \in Pages
  <1>1. ctl # <<>> /\ Head(ctl).f = "pending"
    BY DEF Running
  <1>2. NothingOwed(ctl) /\ ctl \in Seq(Frames)
    BY <1>1, NoAbortWaiting, Sizes
  <1>3. Tail(ctl) \in Seq(Frames) /\ NothingOwed(Tail(ctl))
    BY <1>1, <1>2, PoppedPlain
  <1>4. /\ <<Frame("dequeue")>> \o Tail(ctl) \in Seq(Frames)
        /\ NothingOwed(<<Frame("dequeue")>> \o Tail(ctl))
    BY <1>3, PushedPlain
  <1>5. Head(pending) \in Packet
    BY Sizes, Popped
  <1> QED
    BY <1>3, <1>4, <1>5 DEF Plain, Packet

\* process_pending_packets queues the lazy erase for the oldest packet.
LEMMA PendingEraseStep ==
    ASSUME IInv, PendingErase
    PROVE  IInv'
  <1> DEFINE p == Head(pending)
             c == Cmd("clear", "lazy", ErasePage(p), ErasePage(p), 0)
  <1>1. /\ ~lazy /\ ~processing /\ queue = <<>> /\ pending # <<>> /\ Plain = 0
        /\ Tail(ctl) \in Seq(Frames) /\ NothingOwed(Tail(ctl))
        /\ <<Frame("dequeue")>> \o Tail(ctl) \in Seq(Frames)
        /\ NothingOwed(<<Frame("dequeue")>> \o Tail(ctl))
        /\ p.first \in Pages /\ p.last \in Pages
    BY PendingFrame DEF PendingErase
  <1>2. c \in Command /\ c.flags = "lazy" /\ ErasePage(p) \in Nat
    BY <1>1, ErasePages
  <1>3. UNCHANGED <<erased, foreign, acc, flash>>
    BY DEF PendingErase
  <1>4. PICK ret \in EnqueueReturns :
          \/ /\ ret = "success"
             /\ lazy_erase_trigger(p, ret)
             /\ ctl' = Tail(ctl)
             /\ UNCHANGED <<pending, processing, log>>
          \/ /\ ret # "success"
             /\ Unerased(p) # {}
             /\ cmd_queue_enqueue(c, ret)
             /\ AbortPending(<<Frame("dequeue")>> \o Tail(ctl))
    BY DEF PendingErase
  <1>5. cmd_queue_enqueue(c, ret)
    BY <1>4 DEF lazy_erase_trigger
  <1>6. /\ queue' = IF ret = "success" THEN Append(queue, c) ELSE queue
        /\ ret = "success" => Len(queue) < QueueSize
        /\ access' \in {"idle", "in_flight", "wait_busy"}
        /\ round' \in Nat
        /\ soc' \in {"free", "ours", "foreign"}
        /\ access' # "idle" => queue' # <<>>
    BY <1>2, <1>5, EnqueueEffect DEF IInv
  <1>7. CASE ret = "success"
    <2>1. lazy_erase_trigger(p, ret) /\ ctl' = Tail(ctl) /\ UNCHANGED <<pending, processing, log>>
      BY <1>4, <1>7
    <2>2. lazyPage' \in Nat
      BY <1>2, <2>1 DEF lazy_erase_trigger
    <2>3. lazy' = TRUE /\ processing' = FALSE
      BY <1>1, <1>7, <2>1, Zenon DEF lazy_erase_trigger, IInv, TypeOK
    <2>4. queue' = Append(queue, c) /\ Len(queue) < QueueSize
      BY <1>6, <1>7
    <2> QED
      BY <1>1, <1>2, <1>3, <1>6, <2>1, <2>2, <2>3, <2>4, FlaggedQueued
  <1>8. CASE ret # "success"
    <2>1. AbortPending(<<Frame("dequeue")>> \o Tail(ctl))
      BY <1>4, <1>8
    <2>2. queue' = <<>> /\ access' = "idle"
      BY <1>1, <1>6, <1>8
    <2>3. flash' \in [Pages -> SUBSET Nat]
      BY <1>3 DEF IInv, TypeOK
    <2> QED
      BY <1>1, <1>3, <1>6, <2>1, <2>2, <2>3, AbortStep
  <1> QED
    BY <1>7, <1>8

\* process_pending_packets queues the oldest packet's own store.
LEMMA PendingStoreStep ==
    ASSUME IInv, PendingStore
    PROVE  IInv'
  <1> DEFINE p == Head(pending)
             c == Cmd("store", "pending", p.first, p.last, p.id)
  <1>1. /\ ~lazy /\ ~processing /\ queue = <<>> /\ pending # <<>> /\ Plain = 0
        /\ Tail(ctl) \in Seq(Frames) /\ NothingOwed(Tail(ctl))
        /\ <<Frame("dequeue")>> \o Tail(ctl) \in Seq(Frames)
        /\ NothingOwed(<<Frame("dequeue")>> \o Tail(ctl))
        /\ p \in Packet
    BY PendingFrame DEF PendingStore
  <1>2. c \in Command /\ c.flags = "pending"
    BY <1>1 DEF Packet, Cmd, Command
  <1>3. UNCHANGED <<erased, foreign, acc, flash>>
    BY DEF PendingStore
  <1>4. PICK ret \in EnqueueReturns :
          /\ cmd_queue_enqueue(c, ret)
          /\ IF ret = "success"
             THEN /\ processing' = TRUE
                  /\ ctl' = Tail(ctl)
                  /\ UNCHANGED <<pending, lazy, lazyPage, log>>
             ELSE AbortPending(<<Frame("dequeue")>> \o Tail(ctl))
    BY DEF PendingStore
  <1>5. /\ queue' = IF ret = "success" THEN Append(queue, c) ELSE queue
        /\ ret = "success" => Len(queue) < QueueSize
        /\ access' \in {"idle", "in_flight", "wait_busy"}
        /\ round' \in Nat
        /\ soc' \in {"free", "ours", "foreign"}
        /\ access' # "idle" => queue' # <<>>
    BY <1>2, <1>4, EnqueueEffect DEF IInv
  <1>6. CASE ret = "success"
    <2>1. processing' = TRUE /\ ctl' = Tail(ctl) /\ UNCHANGED <<pending, lazy, lazyPage, log>>
      BY <1>4, <1>6
    <2>2. lazyPage' \in Nat
      BY <2>1 DEF IInv, TypeOK
    <2>3. lazy' = FALSE
      BY <1>1, <2>1, Zenon DEF IInv, TypeOK
    <2>4. queue' = Append(queue, c) /\ Len(queue) < QueueSize
      BY <1>5, <1>6
    <2> QED
      BY <1>1, <1>2, <1>3, <1>5, <2>1, <2>2, <2>3, <2>4, FlaggedQueued
  <1>7. CASE ret # "success"
    <2>1. AbortPending(<<Frame("dequeue")>> \o Tail(ctl))
      BY <1>4, <1>7
    <2>2. queue' = <<>> /\ access' = "idle"
      BY <1>1, <1>5, <1>7
    <2>3. flash' \in [Pages -> SUBSET Nat]
      BY <1>3 DEF IInv, TypeOK
    <2> QED
      BY <1>1, <1>3, <1>5, <2>1, <2>2, <2>3, AbortStep
  <1> QED
    BY <1>6, <1>7

\* The loop of pending_packets_abort reports one packet.
LEMMA AbortOneStep ==
    ASSUME IInv, AbortOne
    PROVE  IInv'
  <1> DEFINE n == Head(ctl).n
  <1>1. /\ ctl # <<>> /\ Head(ctl).f = "abort" /\ n > 0 /\ pending # <<>>
        /\ pending' = Tail(pending)
        /\ Notify(Head(pending).id, FALSE)
        /\ ctl' = <<Frame("callback"), AbortFrame(n - 1)>> \o Tail(ctl)
        /\ UNCHANGED <<queue, access, round, lazy, lazyPage, processing, erased>>
        /\ UNCHANGED <<soc, foreign, acc, flash>>
    BY DEF AbortOne, Running
  <1>2. /\ ctl \in Seq(Frames) /\ Head(ctl) \in Frames /\ Head(ctl) = ctl[1]
        /\ Len(ctl) \in Nat \ {0}
        /\ Tail(ctl) \in Seq(Frames) /\ Len(Tail(ctl)) = Len(ctl) - 1
        /\ \A i \in 1 .. Len(ctl) - 1 : Tail(ctl)[i] = ctl[i + 1]
    BY <1>1, Sizes, Popped
  <1>3. n \in Nat
    BY <1>2 DEF Frames
  <1>4. n <= Len(pending) /\ ~lazy /\ ~processing
    <2>1. 1 \in 1 .. Len(ctl)
      BY <1>2
    <2> QED
      BY <1>1, <1>2, <2>1 DEF IInv, AbortInv
  <1>5. queue = <<>> /\ Plain = 0 /\ Plain' = 0
    BY <1>1, <1>4 DEF IInv, FlagsInv, Plain
  <1>6. /\ Head(pending) = pending[1] /\ Len(pending) >= 1
        /\ pending' \in Seq(Packet) /\ Len(pending') = Len(pending) - 1
        /\ \A j \in 1 .. Len(pending) - 1 : pending'[j] = pending[j + 1]
    BY <1>1, Sizes, Popped
  <1>7. /\ \A j \in 1 .. Len(pending) : pending[j].id = Len(log) + j
        /\ Len(acc) = Len(log) + Len(pending)
    BY <1>5, Sizes DEF IInv, FifoInv
  <1>8. Head(pending).id = Len(log) + 1
    BY <1>6, <1>7, Sizes
  <1>9. /\ log' \in Seq(Contract!Completion)
        /\ Len(log') = Len(log) + 1
        /\ \A i \in 1 .. Len(log') : log'[i].id = i
    BY <1>1, <1>8, Logged
  <1>10. /\ ctl' \in Seq(Frames)
         /\ Len(ctl') = Len(ctl) + 1
         /\ ctl'[1].f = "callback"
         /\ ctl'[2].n = n - 1
         /\ \A i \in 3 .. Len(ctl') : ~(ctl'[i].f = "abort" /\ ctl'[i].n > 0)
    <2>1. AbortFrame(n - 1) \in Frames /\ AbortFrame(n - 1).n = n - 1
      BY <1>1, <1>3 DEF AbortFrame, Frames
    <2>2. Frame("callback") \in Frames /\ Frame("callback").f = "callback"
      BY DEF Frame, Frames
    <2> DEFINE s == <<AbortFrame(n - 1)>> \o Tail(ctl)
    <2>3. /\ s \in Seq(Frames) /\ Len(s) = Len(ctl) /\ s[1] = AbortFrame(n - 1)
          /\ \A i \in 2 .. Len(ctl) : s[i] = Tail(ctl)[i - 1]
      <3>1. /\ s \in Seq(Frames) /\ Len(s) = Len(Tail(ctl)) + 1 /\ s[1] = AbortFrame(n - 1)
            /\ \A i \in 2 .. Len(Tail(ctl)) + 1 : s[i] = Tail(ctl)[i - 1]
        BY <1>2, <2>1, Pushed
      <3>2. Len(Tail(ctl)) + 1 = Len(ctl)
        BY <1>2
      <3> QED
        BY <3>1, <3>2
    <2>4. ctl' = <<Frame("callback")>> \o s
      BY <1>1, <1>2
    <2> HIDE DEF s
    <2>5. /\ ctl' \in Seq(Frames) /\ Len(ctl') = Len(s) + 1
          /\ ctl'[1] = Frame("callback")
          /\ \A i \in 2 .. Len(s) + 1 : ctl'[i] = s[i - 1]
      BY <2>2, <2>3, <2>4, Pushed
    <2>6. ctl'[2] = AbortFrame(n - 1)
      BY <1>2, <2>3, <2>5
    <2>7. ASSUME NEW i \in 3 .. Len(ctl')
          PROVE  ~(ctl'[i].f = "abort" /\ ctl'[i].n > 0)
      <3>1. i - 1 \in 2 .. Len(ctl) /\ i \in 2 .. Len(s) + 1 /\ i - 2 \in 1 .. Len(ctl) - 1
        BY <1>2, <2>3, <2>5
      <3>2. ctl'[i] = s[i - 1]
        BY <2>5, <3>1
      <3>3. s[i - 1] = Tail(ctl)[(i - 1) - 1]
        BY <2>3, <3>1
      <3>4. Tail(ctl)[i - 2] = ctl[(i - 2) + 1]
        BY <1>2, <3>1
      <3>5. (i - 1) - 1 = i - 2 /\ (i - 2) + 1 = i - 1 /\ i - 1 # 1
        BY <3>1
      <3>6. ctl'[i] = ctl[i - 1]
        BY <3>2, <3>3, <3>4, <3>5
      <3>7. ~(i - 1 = 2 /\ ctl[1].f = "callback")
        BY <1>1, <1>2
      <3> QED
        BY <3>1, <3>5, <3>6, <3>7 DEF IInv, AbortInv
    <2> QED
      BY <2>1, <2>2, <2>3, <2>5, <2>6, <2>7
  <1>11. TypeOK'
    <2>1. Len(pending') <= PendingCount
      BY <1>6, Sizes, PstorageConstants DEF IInv, TypeOK
    <2> QED
      BY <1>1, <1>6, <1>9, <1>10, <2>1 DEF IInv, TypeOK
  <1>12. FlagsInv' /\ AccessInv'
    BY <1>1, <1>4, <1>5 DEF IInv, FlagsInv, AccessInv
  <1>13. FifoInv'
    <2>1. ASSUME NEW j \in 1 .. Len(pending')
          PROVE  pending'[j].id = Len(log') + j
      <3>1. j \in 1 .. Len(pending) - 1 /\ j + 1 \in 1 .. Len(pending)
        BY <1>6, Sizes
      <3>2. pending'[j] = pending[j + 1] /\ pending[j + 1].id = Len(log) + (j + 1)
        BY <1>6, <1>7, <3>1
      <3> QED
        BY <1>9, <3>1, <3>2, Sizes
    <2>2. Len(acc') = Len(log') + Len(pending')
      BY <1>1, <1>6, <1>7, <1>9, Sizes
    <2>3. Len(log') \in Nat /\ Len(pending') \in Nat
      BY <1>6, <1>9
    <2>4. \A j \in 1 .. Len(pending') : Len(log') + Plain' + j = Len(log') + j
      BY <1>5, <2>3
    <2>5. Len(acc') = Len(log') + Plain' + Len(pending')
      BY <1>5, <2>2, <2>3
    <2> QED
      BY <1>5, <1>9, <2>1, <2>4, <2>5 DEF FifoInv
  <1>14. AbortInv'
    <2>1. n - 1 <= Len(pending')
      BY <1>3, <1>4, <1>6, Sizes
    <2>2. \A i \in 1 .. Len(ctl') : i = 1 \/ i = 2 \/ i \in 3 .. Len(ctl')
      BY <1>2, <1>10
    <2> QED
      BY <1>1, <1>4, <1>10, <2>1, <2>2 DEF AbortInv
  <1> QED
    BY <1>11, <1>12, <1>13, <1>14 DEF IInv

-----------------------------------------------------------------------------
(* The theorems. *)

\* Every step of the storage module preserves the inductive invariant.
LEMMA NextIInv == IInv /\ [Next]_vars => IInv'
  <1> SUFFICES ASSUME IInv, [Next]_vars PROVE IInv'
    OBVIOUS
  <1>1. ASSUME NEW r \in Stores, pstorage_store(r)
        PROVE  IInv'
    <2>1. CASE StoreBuffered(r)
      BY <2>1, BufferStep
    <2>2. CASE StoreStartsErase(r)
      BY <2>2, EraseStep
    <2>3. CASE StoreDirect(r)
      <3>1. PICK ret \in EnqueueReturns :
              /\ cmd_queue_enqueue(Cmd("store", "none", r.first, r.last, NewId), ret)
              /\ IF ret = "success" THEN Accepted(r) ELSE UNCHANGED acc
        BY <2>3 DEF StoreDirect
      <3> QED
        BY <2>3, <3>1, DirectStep DEF StoreDirect
    <2> QED
      BY <1>1, <2>1, <2>2, <2>3 DEF pstorage_store
  <1>2. ASSUME NEW r \in Clears, pstorage_clear(r)
        PROVE  IInv'
    <2>1. PICK ret \in EnqueueReturns :
            /\ cmd_queue_enqueue(Cmd("clear", "none", r.first, r.last, NewId), ret)
            /\ IF ret = "success" THEN Accepted(r) ELSE UNCHANGED acc
      BY <1>2 DEF pstorage_clear
    <2> QED
      BY <1>2, <2>1, DirectStep DEF pstorage_clear
  <1>3. CASE proc_soc
    BY <1>3, SuccessStep, ErrorStep, RetryStep, IgnoredStep DEF proc_soc
  <1>4. CASE ForeignStart
    BY <1>4, IgnoredStep
  <1>5. CASE CallbackReturn
    BY <1>5, CallbackStep
  <1>6. CASE Internal
    BY <1>6, FrameStep, DequeueStep, PendingEraseStep, PendingStoreStep, AbortOneStep DEF Internal
  <1>7. CASE UNCHANGED vars
    <2>1. UNCHANGED <<queue, access, round, pending, lazy, lazyPage, processing, erased>>
      BY <1>7 DEF vars, driver
    <2>2. UNCHANGED <<ctl, soc, foreign, acc, log, flash>>
      BY <1>7 DEF vars
    <2> QED
      BY <2>1, <2>2 DEF IInv, TypeOK, FlagsInv, FifoInv, AccessInv, AbortInv, Plain
  <1> QED
    BY <1>1, <1>2, <1>3, <1>4, <1>5, <1>6, <1>7 DEF Next, Drained

\* The inductive invariant holds in every reachable state.
LEMMA Invariance == Spec => []IInv
  BY InitIInv, NextIInv, PTL DEF Spec

\* The queue and the buffer never exceed their arrays (PSTORAGE_CMD_QUEUE_SIZE,
\* PENDING_PACKET_COUNT), and every command in them is one that cmd_process and
\* process_pending_packets know.
THEOREM TypeCorrect == Spec => []TypeOK
  BY Invariance, PTL DEF IInv

\* Every completion callback of pstorage_raw.c reports the oldest accepted request that
\* was not reported yet, for every queue size, buffer size and number of pages, and for
\* every way the SoftDevice accepts, refuses, fails or delays the flash operations.
THEOREM Fifo == Spec => []SettledInOrder
  <1>1. IInv => SettledInOrder
    <2> SUFFICES ASSUME IInv PROVE SettledInOrder
      OBVIOUS
    <2>1. Len(log) <= Len(acc)
      BY Sizes DEF IInv, FifoInv
    <2> QED
      BY <2>1 DEF IInv, FifoInv, SettledInOrder
  <1> QED
    BY <1>1, Invariance, PTL

-----------------------------------------------------------------------------
(* The inductive invariant, on top of IInv.  Its parts that a step changes  *)
(* in several variables at once are operators of the values they relate.    *)

\* flash_access says whose operation the SoftDevice runs: the event of an operation in
\* flight is never somebody else's, and the one awaited after BUSY never ours.
SocInv ==
    /\ access = "in_flight" <=> soc = "ours"
    /\ access = "wait_busy" => soc = "foreign"

\* Command c, queued while e are the erased image pages, lp the page of the lazy erase,
\* buf the buffer and a the accepted requests: a store finds its pages erased, a lazy
\* erase is that of lp, a buffered store is the packet at the head of the buffer, and
\* any other command is what its client asked for.
Sound(c, e, lp, buf, a) ==
    /\ c.op = "clear" => c.first <= c.last
    /\ c.op = "store" => \A p \in {c.first, c.last} : p \in Image => e[p]
    /\ c.flags = "lazy" => c.op = "clear" /\ c.first = lp /\ c.last = lp
    /\ c.flags = "pending" =>
          /\ c.op = "store"
          /\ c.first = buf[1].first /\ c.last = buf[1].last /\ c.id = buf[1].id
    /\ c.flags = "none" =>
          /\ a[c.id].op = c.op
          /\ a[c.id].first = c.first /\ a[c.id].last = c.last

QueueInv == \A i \in 1 .. Len(queue) : Sound(queue[i], erased, lazyPage, pending, acc)

\* A buffered packet is the store its client asked for.
Kept(k, a) ==
    a[k.id].op = "store" /\ a[k.id].first = k.first /\ a[k.id].last = k.last

BufferInv == \A j \in 1 .. Len(pending) : Kept(pending[j], acc)

RequestInv == \A i \in 1 .. Len(acc) : acc[i] \in Stores \cup Clears

\* The page being erased lazily still holds the old image.
LazyInv == lazy => lazyPage \in Image /\ ~erased[lazyPage]

\* dfu_page_erased tells the truth: an erased page holds nothing of the old image, and
\* one not erased holds nothing else.
Truthful(e, f) ==
    \A p \in Image : IF e[p] THEN 0 \notin f[p] ELSE f[p] \subseteq {0}

ErasedInv == Truthful(erased, flash)

\* Command c, n of whose flash operations are done, has one left to do, and a clear has
\* wiped the pages of those done.
Underway(c, n, f) ==
    /\ n < Rounds(c)
    /\ c.op = "clear" => \A p \in Pages : c.first <= p /\ p < c.first + n => f[p] = {}

RoundInv ==
    /\ queue = <<>> => round = 0
    /\ queue # <<>> => Underway(queue[1], round, flash)

FInv == SocInv /\ QueueInv /\ BufferInv /\ RequestInv /\ LazyInv /\ ErasedInv /\ RoundInv

-----------------------------------------------------------------------------
(* The queue and the buffer.                                                *)

\* What the flags of a queued command say of the driver, and that a client's command
\* names a request that was accepted.
LEMMA QueuedCommand ==
    ASSUME IInv, NEW i \in 1 .. Len(queue)
    PROVE  /\ queue[i] \in Command
           /\ queue[i].flags = "lazy" => lazy
           /\ queue[i].flags = "pending" => processing
           /\ queue[i].flags = "none" => queue[i].id \in 1 .. Len(acc)
  <1>1. queue[i] \in Command
    BY Sizes
  <1>2. CASE i \in 1 .. Plain
    <2>1. queue[i].flags = "none" /\ queue[i].id = Len(log) + i
      BY <1>2 DEF IInv, FlagsInv, FifoInv
    <2>2. Len(acc) = Len(log) + Plain + Len(pending)
      BY DEF IInv, FifoInv
    <2>3. queue[i].id \in 1 .. Len(acc)
      BY <1>2, <2>1, <2>2, Sizes
    <2> QED
      BY <1>1, <2>1, <2>3
  <1>3. CASE i \notin 1 .. Plain
    <2>1. (lazy \/ processing) /\ i = Len(queue)
      BY <1>3, Sizes DEF Plain
    <2>2. lazy => queue[i].flags = "lazy"
      BY <2>1 DEF IInv, FlagsInv
    <2>3. processing => queue[i].flags = "pending"
      BY <2>1 DEF IInv, FlagsInv
    <2> QED
      BY <1>1, <2>1, <2>2, <2>3
  <1> QED
    BY <1>2, <1>3

\* A buffered packet names a request that was accepted.
LEMMA BufferedPacket ==
    ASSUME IInv, NEW j \in 1 .. Len(pending)
    PROVE  pending[j] \in Packet /\ pending[j].id \in 1 .. Len(acc)
  <1>1. pending[j] \in Packet
    BY Sizes
  <1>2. pending[j].id = Len(log) + Plain + j /\ Len(acc) = Len(log) + Plain + Len(pending)
    BY DEF IInv, FifoInv
  <1>3. pending[j].id \in 1 .. Len(acc)
    BY <1>2, Sizes
  <1> QED
    BY <1>1, <1>3

\* A command stays sound when pages are only added to the erased ones, and what its flag
\* refers to stays as it is.
LEMMA SoundKept ==
    ASSUME NEW c, NEW e, NEW lp, NEW buf, NEW a, NEW e2, NEW lp2, NEW buf2, NEW a2,
           Sound(c, e, lp, buf, a),
           \A p \in Image : e[p] => e2[p],
           c.flags = "lazy" => lp2 = lp,
           c.flags = "pending" => buf2[1] = buf[1],
           c.flags = "none" => a2[c.id] = a[c.id]
    PROVE  Sound(c, e2, lp2, buf2, a2)
  BY DEF Sound

\* The commands queued before a step are sound after it.
LEMMA QueueKept ==
    ASSUME IInv, QueueInv,
           \A p \in Image : erased[p] => erased'[p],
           lazy => lazyPage' = lazyPage,
           processing => pending'[1] = pending[1],
           \A k \in 1 .. Len(acc) : acc'[k] = acc[k],
           NEW i \in 1 .. Len(queue)
    PROVE  Sound(queue[i], erased', lazyPage', pending', acc')
  <1>1. /\ queue[i].flags = "lazy" => lazyPage' = lazyPage
        /\ queue[i].flags = "pending" => pending'[1] = pending[1]
        /\ queue[i].flags = "none" => acc'[queue[i].id] = acc[queue[i].id]
    BY QueuedCommand
  <1>2. Sound(queue[i], erased, lazyPage, pending, acc)
    BY DEF QueueInv
  <1> QED
    BY <1>1, <1>2, SoundKept

\* ... and so is the queue, when the step adds a sound command or none.
LEMMA QueueGrows ==
    ASSUME IInv, QueueInv,
           \A p \in Image : erased[p] => erased'[p],
           lazy => lazyPage' = lazyPage,
           processing => pending'[1] = pending[1],
           \A k \in 1 .. Len(acc) : acc'[k] = acc[k],
           NEW c \in Command,
           \/ queue' = queue
           \/ queue' = Append(queue, c) /\ Sound(c, erased', lazyPage', pending', acc')
    PROVE  QueueInv'
  <1>0. \A i \in 1 .. Len(queue) : Sound(queue[i], erased', lazyPage', pending', acc')
    BY QueueKept
  <1>1. CASE queue' = queue
    BY <1>0, <1>1 DEF QueueInv
  <1>2. CASE queue' = Append(queue, c) /\ Sound(c, erased', lazyPage', pending', acc')
    <2>1. /\ Len(queue') = Len(queue) + 1
          /\ queue'[Len(queue) + 1] = c
          /\ \A i \in 1 .. Len(queue) : queue'[i] = queue[i]
      BY <1>2, Sizes, Appended
    <2>2. ASSUME NEW i \in 1 .. Len(queue')
          PROVE  Sound(queue'[i], erased', lazyPage', pending', acc')
      <3>1. CASE i = Len(queue) + 1
        BY <1>2, <2>1, <3>1
      <3>2. CASE i \in 1 .. Len(queue)
        BY <1>0, <2>1, <3>2
      <3> QED
        BY <2>1, <3>1, <3>2, Sizes
    <2> QED
      BY <2>2 DEF QueueInv
  <1> QED
    BY <1>1, <1>2

\* ... and when the step removes the head.
LEMMA QueueShrinks ==
    ASSUME IInv, QueueInv, queue # <<>>,
           \A p \in Image : erased[p] => erased'[p],
           lazy /\ Tail(queue) # <<>> => lazyPage' = lazyPage,
           processing /\ Tail(queue) # <<>> => pending'[1] = pending[1],
           \A k \in 1 .. Len(acc) : acc'[k] = acc[k],
           queue' = Tail(queue)
    PROVE  QueueInv'
  <1>1. /\ Tail(queue) \in Seq(Command)
        /\ Len(queue') = Len(queue) - 1 /\ Len(queue) \in Nat \ {0}
        /\ \A i \in 1 .. Len(queue) - 1 : queue'[i] = queue[i + 1]
    BY Sizes, Popped
  <1>2. CASE Tail(queue) = <<>>
    BY <1>1, <1>2 DEF QueueInv
  <1>3. CASE Tail(queue) # <<>>
    <2>1. \A i \in 1 .. Len(queue) : Sound(queue[i], erased', lazyPage', pending', acc')
      BY <1>3, QueueKept
    <2>2. ASSUME NEW i \in 1 .. Len(queue')
          PROVE  Sound(queue'[i], erased', lazyPage', pending', acc')
      <3>1. i + 1 \in 1 .. Len(queue) /\ i \in 1 .. Len(queue) - 1
        BY <1>1
      <3> QED
        BY <1>1, <2>1, <3>1
    <2> QED
      BY <2>2 DEF QueueInv
  <1> QED
    BY <1>2, <1>3

\* A request joins the accepted ones, which stay as they are.
LEMMA Accepting ==
    ASSUME IInv, RequestInv, NEW r \in Stores \cup Clears, acc' = Append(acc, r)
    PROVE  /\ RequestInv'
           /\ acc'[Len(acc) + 1] = r
           /\ \A k \in 1 .. Len(acc) : acc'[k] = acc[k]
  <1>1. /\ Len(acc') = Len(acc) + 1
        /\ acc'[Len(acc) + 1] = r
        /\ \A k \in 1 .. Len(acc) : acc'[k] = acc[k]
    BY Sizes, RequestPages, Appended
  <1>2. ASSUME NEW k \in 1 .. Len(acc')
        PROVE  acc'[k] \in Stores \cup Clears
    <2>1. CASE k = Len(acc) + 1
      BY <1>1, <2>1
    <2>2. CASE k \in 1 .. Len(acc)
      BY <1>1, <2>2 DEF RequestInv
    <2> QED
      BY <1>1, <2>1, <2>2, Sizes
  <1> QED
    BY <1>1, <1>2 DEF RequestInv

\* The buffered packets stay what their clients asked for.
LEMMA BufferKept ==
    ASSUME IInv, BufferInv, \A k \in 1 .. Len(acc) : acc'[k] = acc[k]
    PROVE  \A j \in 1 .. Len(pending) : Kept(pending[j], acc')
  BY BufferedPacket DEF BufferInv, Kept

\* A packet joins the buffer.
LEMMA BufferGrows ==
    ASSUME IInv, BufferInv, RequestInv, NEW r \in Stores,
           acc' = Append(acc, r), pending' = Append(pending, PacketOf(r))
    PROVE  /\ BufferInv'
           /\ pending # <<>> => pending'[1] = pending[1]
  <1>1. /\ acc'[Len(acc) + 1] = r
        /\ \A k \in 1 .. Len(acc) : acc'[k] = acc[k]
    BY Accepting
  <1>2. PacketOf(r) \in Packet /\ Kept(PacketOf(r), acc')
    BY <1>1, RequestPages, Sizes, PstorageInputs DEF PacketOf, Packet, NewId, Kept
  <1>3. /\ Len(pending') = Len(pending) + 1
        /\ pending'[Len(pending) + 1] = PacketOf(r)
        /\ \A j \in 1 .. Len(pending) : pending'[j] = pending[j]
    BY <1>2, Sizes, Appended
  <1>4. ASSUME NEW j \in 1 .. Len(pending')
        PROVE  Kept(pending'[j], acc')
    <2>1. CASE j = Len(pending) + 1
      BY <1>2, <1>3, <2>1
    <2>2. CASE j \in 1 .. Len(pending)
      BY <1>1, <1>3, <2>2, BufferKept
    <2> QED
      BY <1>3, <2>1, <2>2, Sizes
  <1>5. pending # <<>> => 1 \in 1 .. Len(pending)
    BY Sizes
  <1> QED
    BY <1>3, <1>4, <1>5 DEF BufferInv

\* The oldest packet leaves the buffer.
LEMMA BufferShrinks ==
    ASSUME IInv, BufferInv, pending # <<>>, pending' = Tail(pending), acc' = acc
    PROVE  BufferInv'
  <1>1. /\ Len(pending') = Len(pending) - 1 /\ Len(pending) \in Nat \ {0}
        /\ \A j \in 1 .. Len(pending) - 1 : pending'[j] = pending[j + 1]
    BY Sizes, Popped
  <1>2. ASSUME NEW j \in 1 .. Len(pending')
        PROVE  Kept(pending'[j], acc')
    <2>1. j + 1 \in 1 .. Len(pending) /\ j \in 1 .. Len(pending) - 1
      BY <1>1
    <2> QED
      BY <1>1, <2>1 DEF BufferInv
  <1> QED
    BY <1>2 DEF BufferInv

\* A command that was not started yet has all its flash operations to do.
LEMMA NotStarted ==
    ASSUME NEW c \in Command, NEW f, c.op = "clear" => c.first <= c.last
    PROVE  Underway(c, 0, f)
  <1>1. c.first \in Nat /\ c.last \in Nat /\ c.op \in {"store", "clear"}
    BY PageIsNat DEF Command
  <1>2. \A p \in Pages : p \in Nat
    BY PageIsNat
  <1> QED
    BY <1>1, <1>2 DEF Underway, Rounds

\* cmd_queue_enqueue keeps flash_access true to the SoftDevice and the rounds of the head.
LEMMA Enqueueing ==
    ASSUME IInv, SocInv, RoundInv,
           NEW c \in Command, c.op = "clear" => c.first <= c.last,
           NEW ret, cmd_queue_enqueue(c, ret), flash' = flash
    PROVE  SocInv' /\ RoundInv'
  <1>0. Underway(c, 0, flash)
    BY NotStarted
  <1>1. CASE Len(queue) = QueueSize /\ ret = "no_mem" /\ UNCHANGED <<queue, access, round, soc>>
    BY <1>1 DEF SocInv, RoundInv
  <1>2. CASE /\ queue = <<>> /\ access = "idle"
             /\ \E rc \in SocReturns :
                   /\ cmd_process(rc)
                   /\ queue' = IF rc = "fatal" THEN <<>> ELSE <<c>>
                   /\ round' = IF rc = "fatal" THEN 0 ELSE round
    <2>1. SocInv'
      BY <1>2 DEF SocInv, SocReturns, cmd_process, AccessAfter, SocAfter, IInv, TypeOK
    <2>2. round = 0
      BY <1>2 DEF RoundInv
    <2>3. <<c>>[1] = c
      OBVIOUS
    <2>4. RoundInv'
      BY <1>0, <1>2, <2>2, <2>3 DEF RoundInv
    <2> QED
      BY <2>1, <2>4
  <1>3. CASE ~(queue = <<>> /\ access = "idle") /\ queue' = Append(queue, c) /\ UNCHANGED <<access, round, soc>>
    <2>1. queue # <<>>
      BY <1>3 DEF IInv, AccessInv
    <2>2. 1 \in 1 .. Len(queue)
      BY <2>1, Sizes
    <2>3. queue'[1] = queue[1] /\ queue' # <<>>
      BY <1>3, <2>2, Sizes, Appended
    <2> QED
      BY <1>3, <2>1, <2>3 DEF SocInv, RoundInv
  <1> QED
    BY <1>1, <1>2, <1>3 DEF cmd_queue_enqueue

-----------------------------------------------------------------------------
(* Requests.                                                                *)

\* pstorage_init: nothing is queued and the image pages hold the old image.
LEMMA InitFInv == Init => FInv
  <1> SUFFICES ASSUME Init PROVE FInv
    OBVIOUS
  <1>1. SocInv /\ LazyInv /\ RoundInv
    BY DEF Init, SocInv, LazyInv, RoundInv
  <1>2. QueueInv /\ BufferInv /\ RequestInv
    BY DEF Init, QueueInv, BufferInv, RequestInv
  <1>3. Image \subseteq Pages
    BY PstorageConstants DEF Image, Pages
  <1>4. ErasedInv
    BY <1>3 DEF Init, ErasedInv, Truthful
  <1> QED
    BY <1>1, <1>2, <1>4 DEF FInv

\* A step that leaves the flash, the requests and what is queued and buffered alone.
LEMMA QuietStep ==
    ASSUME IInv, FInv, SocInv',
           UNCHANGED <<queue, round, pending, lazy, lazyPage, erased, acc, flash>>
    PROVE  FInv'
  BY DEF FInv, QueueInv, BufferInv, RequestInv, LazyInv, ErasedInv, RoundInv

\* A store that joins the buffer.
LEMMA BufferFlash ==
    ASSUME IInv, FInv, NEW r \in Stores, StoreBuffered(r)
    PROVE  FInv'
  <1>u. /\ UNCHANGED <<queue, access, round, lazy, lazyPage, processing, erased>>
        /\ UNCHANGED <<ctl, soc, foreign, log, flash>>
    BY DEF StoreBuffered
  <1>0. SocInv' /\ LazyInv' /\ ErasedInv' /\ RoundInv'
    BY <1>u DEF FInv, SocInv, LazyInv, ErasedInv, RoundInv
  <1>1. CASE UNCHANGED <<pending, acc>>
    BY <1>u, <1>0, <1>1, QuietStep
  <1>2. CASE pending' = Append(pending, PacketOf(r)) /\ Accepted(r)
    <2>1. acc' = Append(acc, r)
      BY <1>2 DEF Accepted
    <2>2. BufferInv' /\ (pending # <<>> => pending'[1] = pending[1])
      BY <1>2, <2>1, BufferGrows DEF FInv
    <2>3. RequestInv' /\ \A k \in 1 .. Len(acc) : acc'[k] = acc[k]
      BY <2>1, Accepting DEF FInv
    <2>4. processing => pending # <<>>
      BY DEF IInv, FlagsInv
    <2>5. ASSUME NEW i \in 1 .. Len(queue)
          PROVE  Sound(queue[i], erased', lazyPage', pending', acc')
      BY <1>u, <2>2, <2>3, <2>4, QueueKept DEF FInv
    <2>6. QueueInv'
      BY <1>u, <2>5 DEF QueueInv
    <2> QED
      BY <1>0, <2>2, <2>3, <2>6 DEF FInv
  <1> QED
    BY <1>1, <1>2 DEF StoreBuffered, pending_packet_add

\* A store or a clear that goes straight to the command queue.
LEMMA DirectFlash ==
    ASSUME IInv, FInv, ~Buffering,
           NEW r \in Stores \cup Clears, NEW op \in {"store", "clear"}, r.op = op,
           op = "store" => Unerased(r) = {},
           NEW ret,
           cmd_queue_enqueue(Cmd(op, "none", r.first, r.last, NewId), ret),
           IF ret = "success" THEN Accepted(r) ELSE UNCHANGED acc,
           UNCHANGED <<pending, lazy, lazyPage, processing, erased, ctl, foreign, log, flash>>
    PROVE  FInv'
  <1> DEFINE c == Cmd(op, "none", r.first, r.last, NewId)
  <1>1. /\ c \in Command /\ c.flags = "none" /\ c.id = Len(acc) + 1
        /\ c.op = op /\ c.first = r.first /\ c.last = r.last
    BY RequestPages, Sizes DEF Cmd, Command, NewId
  <1>2. queue' = IF ret = "success" THEN Append(queue, c) ELSE queue
    BY <1>1, EnqueueEffect DEF IInv
  <1>3. op = "clear" => r.first <= r.last
    BY PstorageInputs
  <1>4. SocInv' /\ RoundInv'
    BY <1>1, <1>3, Enqueueing DEF FInv
  <1>5. LazyInv' /\ ErasedInv'
    BY DEF FInv, LazyInv, ErasedInv
  <1>6. CASE ret # "success"
    <2>1. acc' = acc /\ queue' = queue
      BY <1>2, <1>6
    <2> QED
      BY <1>4, <1>5, <2>1 DEF FInv, QueueInv, BufferInv, RequestInv
  <1>7. CASE ret = "success"
    <2>1. acc' = Append(acc, r)
      BY <1>7 DEF Accepted
    <2>2. RequestInv' /\ acc'[Len(acc) + 1] = r /\ \A k \in 1 .. Len(acc) : acc'[k] = acc[k]
      BY <2>1, Accepting DEF FInv
    <2>3. BufferInv'
      BY <2>2, BufferKept DEF FInv, BufferInv
    <2>4. op = "store" => \A p \in {r.first, r.last} : p \in Image => erased[p]
      BY PstorageConstants DEF Unerased, Image
    <2>5. Sound(c, erased', lazyPage', pending', acc')
      BY <1>1, <1>3, <2>2, <2>4 DEF Sound
    <2>6. QueueInv'
      BY <1>1, <1>2, <1>7, <2>2, <2>5, QueueGrows DEF FInv
    <2> QED
      BY <1>4, <1>5, <2>2, <2>3, <2>6 DEF FInv
  <1> QED
    BY <1>6, <1>7

\* The page a lazy erase is triggered for is an image page that is not erased yet.
LEMMA ErasesOld ==
    ASSUME NEW pkt, pkt.first \in Pages, pkt.last \in Pages, Unerased(pkt) # {}
    PROVE  ErasePage(pkt) \in Image /\ ~erased[ErasePage(pkt)]
  <1>1. ErasePage(pkt) \in Unerased(pkt)
    BY DEF ErasePage, Unerased
  <1>2. ErasePage(pkt) \in Nat
    BY <1>1, PageIsNat DEF Unerased
  <1> QED
    BY <1>1, <1>2, PstorageConstants DEF Unerased, Image

\* A lazy erase that is triggered: for the first packet of a page, or the next one buffered.
LEMMA TriggerFlash ==
    ASSUME IInv, FInv, ~lazy, ~processing,
           NEW pkt, pkt.first \in Pages, pkt.last \in Pages, NEW ret,
           Unerased(pkt) # {},
           cmd_queue_enqueue(Cmd("clear", "lazy", ErasePage(pkt), ErasePage(pkt), 0), ret),
           lazy' => ret = "success" /\ lazyPage' = ErasePage(pkt),
           ret = "success" => lazyPage' = ErasePage(pkt),
           \A k \in 1 .. Len(acc) : acc'[k] = acc[k],
           UNCHANGED <<erased, flash>>
    PROVE  SocInv' /\ QueueInv' /\ LazyInv' /\ ErasedInv' /\ RoundInv'
  <1> DEFINE c == Cmd("clear", "lazy", ErasePage(pkt), ErasePage(pkt), 0)
  <1>1. c \in Command
    BY ErasePages
  <1>2. /\ c.flags = "lazy" /\ c.op = "clear"
        /\ c.first = ErasePage(pkt) /\ c.last = ErasePage(pkt)
    BY DEF Cmd
  <1>3. queue' = IF ret = "success" THEN Append(queue, c) ELSE queue
    BY <1>1, EnqueueEffect DEF IInv
  <1>4. ErasePage(pkt) \in Image /\ ~erased[ErasePage(pkt)] /\ ErasePage(pkt) \in Nat
    BY ErasesOld, ErasePages
  <1>5. SocInv' /\ RoundInv'
    BY <1>1, <1>2, <1>4, Enqueueing DEF FInv
  <1>6. LazyInv' /\ ErasedInv'
    BY <1>4 DEF FInv, LazyInv, ErasedInv
  <1>7. ret = "success" => Sound(c, erased', lazyPage', pending', acc')
    BY <1>2, <1>4 DEF Sound
  <1>8. QueueInv'
    BY <1>1, <1>3, <1>7, QueueGrows DEF FInv
  <1> QED
    BY <1>5, <1>6, <1>8

\* pstorage_store that finds a page of the old image.
LEMMA EraseFlash ==
    ASSUME IInv, FInv, NEW r \in Stores, StoreStartsErase(r)
    PROVE  FInv'
  <1>1. PICK ret \in EnqueueReturns :
            /\ lazy_erase_trigger(r, ret)
            /\ IF ret = "success" THEN pending_packet_add(r) ELSE UNCHANGED <<pending, acc>>
    BY DEF StoreStartsErase
  <1>u. ~Buffering /\ UNCHANGED <<processing, erased, ctl, foreign, log, flash>>
    BY DEF StoreStartsErase
  <1>2. ~lazy /\ ~processing
    BY <1>u DEF Buffering
  <1>3. \/ UNCHANGED <<pending, acc>>
        \/ pending' = Append(pending, PacketOf(r)) /\ acc' = Append(acc, r)
    BY <1>1 DEF pending_packet_add, Accepted
  <1>4. BufferInv' /\ RequestInv' /\ \A k \in 1 .. Len(acc) : acc'[k] = acc[k]
    <2>1. CASE UNCHANGED <<pending, acc>>
      BY <2>1 DEF FInv, BufferInv, RequestInv
    <2>2. CASE pending' = Append(pending, PacketOf(r)) /\ acc' = Append(acc, r)
      BY <2>2, BufferGrows, Accepting DEF FInv
    <2> QED
      BY <1>3, <2>1, <2>2
  <1>5. r.first \in Pages /\ r.last \in Pages
    BY RequestPages
  <1>6. /\ Unerased(r) # {}
        /\ lazyPage' = ErasePage(r)
        /\ cmd_queue_enqueue(Cmd("clear", "lazy", ErasePage(r), ErasePage(r), 0), ret)
    BY <1>1 DEF lazy_erase_trigger
  <1>7. lazy' => ret = "success"
    BY <1>1 DEF lazy_erase_trigger
  <1>8. SocInv' /\ QueueInv' /\ LazyInv' /\ ErasedInv' /\ RoundInv'
    BY <1>u, <1>2, <1>4, <1>5, <1>6, <1>7, TriggerFlash
  <1> QED
    BY <1>4, <1>8 DEF FInv

-----------------------------------------------------------------------------
(* Completions.                                                             *)

\* The command at the head of the queue: what it is, and which page its next flash
\* operation works on.
LEMMA HeadCommand ==
    ASSUME IInv, FInv, queue # <<>>
    PROVE  /\ Head(queue) = queue[1] /\ queue[1] \in Command
           /\ queue[1].first \in Nat /\ queue[1].last \in Nat /\ round \in Nat
           /\ queue[1].first \in Pages /\ queue[1].last \in Pages
           /\ Sound(queue[1], erased, lazyPage, pending, acc)
           /\ Underway(queue[1], round, flash)
           /\ queue[1].op = "clear" =>
                 /\ queue[1].first + round \in Pages
                 /\ queue[1].first + round <= queue[1].last
           /\ queue[1].flags = "lazy" =>
                 /\ queue[1].op = "clear" /\ round = 0
                 /\ queue[1].first = lazyPage /\ Rounds(queue[1]) = 1
           /\ queue[1].op = "store" => queue[1].id \in Nat \ {0}
  <1>1. /\ Head(queue) = queue[1] /\ queue[1] \in Command /\ 1 \in 1 .. Len(queue)
    BY Sizes, Popped
  <1>2. /\ queue[1].first \in Pages /\ queue[1].last \in Pages /\ round \in Nat
        /\ queue[1].op \in {"store", "clear"} /\ queue[1].flags \in {"none", "lazy", "pending"}
    BY <1>1 DEF IInv, TypeOK, Command
  <1>3. queue[1].first \in Nat /\ queue[1].last \in Nat
    BY <1>2, PageIsNat
  <1>4. /\ Sound(queue[1], erased, lazyPage, pending, acc)
        /\ Underway(queue[1], round, flash)
    BY <1>1 DEF FInv, QueueInv, RoundInv
  <1>5. queue[1].op = "clear" =>
            /\ queue[1].first + round \in Pages
            /\ queue[1].first + round <= queue[1].last
    BY <1>2, <1>3, <1>4, PstorageConstants DEF Underway, Rounds, Pages
  <1>6. queue[1].flags = "lazy" =>
            /\ queue[1].op = "clear" /\ round = 0
            /\ queue[1].first = lazyPage /\ Rounds(queue[1]) = 1
    BY <1>2, <1>3, <1>4 DEF Underway, Rounds, Sound
  <1>7. queue[1].op = "store" => queue[1].id \in Nat \ {0}
    <2>1. CASE queue[1].flags = "none"
      BY <2>1, <1>1, QueuedCommand
    <2>2. CASE queue[1].flags = "pending"
      <3>1. pending # <<>>
        BY <2>2, <1>1, HeadOfQueue
      <3>2. 1 \in 1 .. Len(pending)
        BY <3>1, Sizes
      <3>3. pending[1].id \in Nat \ {0}
        BY <3>2, BufferedPacket
      <3> QED
        BY <1>4, <2>2, <3>3 DEF Sound
    <2> QED
      BY <1>2, <1>6, <2>1, <2>2
  <1> QED
    BY <1>1, <1>2, <1>3, <1>4, <1>5, <1>6, <1>7

\* No flash operation of the head makes dfu_page_erased untrue: a store only goes to
\* pages that are erased.
LEMMA StaysTruthful ==
    ASSUME IInv, FInv, queue # <<>>, NEW ok \in BOOLEAN,
           NEW f \in FlashAfter(Head(queue), ok)
    PROVE  Truthful(erased, f)
  <1> DEFINE c == queue[1]
  <1>0. Image \subseteq Pages /\ flash \in [Pages -> SUBSET Nat]
    BY PstorageConstants DEF Image, Pages, IInv, TypeOK
  <1>1. ErasedInv
    BY DEF FInv
  <1>2. CASE c.op = "store"
    <2>1. f = [p \in Pages |-> IF ok /\ p \in {c.first, c.last}
                               THEN flash[p] \cup {c.id} ELSE flash[p]]
      BY <1>2, HeadCommand DEF FlashAfter
    <2>2. c.id # 0 /\ \A p \in {c.first, c.last} : p \in Image => erased[p]
      BY <1>2, HeadCommand DEF Sound
    <2> QED
      BY <1>0, <1>1, <2>1, <2>2 DEF ErasedInv, Truthful
  <1>3. CASE c.op # "store"
    <2>1. \/ f = flash
          \/ f = [flash EXCEPT ![c.first + round] = {}]
          \/ f = [flash EXCEPT ![c.first + round] = @ \cap {0}]
      BY <1>3, HeadCommand DEF FlashAfter
    <2> QED
      BY <1>0, <1>1, <2>1 DEF ErasedInv, Truthful
  <1> QED
    BY <1>2, <1>3

\* A queue whose head was not started yet.
LEMMA FreshHead ==
    ASSUME queue' \in Seq(Command), QueueInv', round' = 0
    PROVE  RoundInv'
  <1>1. CASE queue' = <<>>
    BY <1>1 DEF RoundInv
  <1>2. CASE queue' # <<>>
    <2>1. queue'[1] \in Command /\ 1 \in 1 .. Len(queue')
      BY <1>2
    <2>2. queue'[1].op = "clear" => queue'[1].first <= queue'[1].last
      BY <2>1 DEF QueueInv, Sound
    <2>3. Underway(queue'[1], 0, flash')
      BY <2>1, <2>2, NotStarted
    <2> QED
      BY <1>2, <2>3 DEF RoundInv
  <1> QED
    BY <1>1, <1>2

\* A clear has erased one more of its pages and goes on.
LEMMA NextRound ==
    ASSUME IInv, FInv, queue # <<>>,
           flash' \in FlashAfter(Head(queue), TRUE),
           ~(round + 1 >= Rounds(Head(queue))),
           round' = round + 1, queue' = queue
    PROVE  /\ queue[1].op = "clear"
           /\ flash' = [flash EXCEPT ![queue[1].first + round] = {}]
           /\ RoundInv'
  <1> DEFINE c == queue[1]
  <1>1. c.op = "clear" /\ round + 1 < Rounds(c)
    BY HeadCommand DEF Rounds, Command
  <1>2. flash' = [flash EXCEPT ![c.first + round] = {}]
    BY <1>1, HeadCommand DEF FlashAfter
  <1>3. flash \in [Pages -> SUBSET Nat]
    BY DEF IInv, TypeOK
  <1>4. ASSUME NEW p \in Pages, c.first <= p, p < c.first + (round + 1)
        PROVE  flash'[p] = {}
    <2>1. p \in Nat /\ round \in Nat /\ c.first \in Nat
      BY PageIsNat, HeadCommand
    <2>2. p = c.first + round \/ p < c.first + round
      BY <1>4, <2>1
    <2>3. p < c.first + round => flash[p] = {}
      BY <1>1, <1>4, HeadCommand DEF Underway
    <2> QED
      BY <1>2, <1>3, <2>2, <2>3
  <1>5. Underway(c, round + 1, flash')
    BY <1>1, <1>4 DEF Underway
  <1> QED
    BY <1>1, <1>2, <1>5 DEF RoundInv

\* EventSuccess: the head's flash operation is done.
LEMMA SuccessFlash ==
    ASSUME IInv, IInv', FInv, EventSuccess
    PROVE  FInv'
  <1> DEFINE c == queue[1]
  <1>u. /\ access = "in_flight" /\ soc' = "free" /\ access' = "idle"
        /\ EventEffect(TRUE)
        /\ UNCHANGED <<foreign, acc>>
    BY DEF EventSuccess
  <1>0. queue # <<>> /\ soc = "ours"
    BY <1>u DEF IInv, AccessInv, FInv, SocInv
  <1>1. flash' \in FlashAfter(Head(queue), TRUE)
    BY <1>u, <1>0 DEF EventEffect
  <1>2. Truthful(erased, flash')
    BY <1>0, <1>1, StaysTruthful
  <1>3. SocInv' /\ RequestInv'
    BY <1>u DEF FInv, SocInv, RequestInv
  <1>4. Head(queue) = c /\ c \in Command
    BY <1>0, HeadCommand
  <1>5. queue' \in Seq(Command)
    BY DEF IInv, TypeOK
  <1>6. CASE /\ ~(round + 1 >= Rounds(Head(queue)))
             /\ round' = round + 1
             /\ UNCHANGED <<queue, pending, lazy, lazyPage, processing, erased, log>>
    <2>1. RoundInv'
      BY <1>0, <1>1, <1>6, NextRound
    <2>2. ErasedInv'
      BY <1>2, <1>6 DEF ErasedInv
    <2> QED
      BY <1>u, <1>3, <1>6, <2>1, <2>2 DEF FInv, QueueInv, BufferInv, LazyInv
  <1>7. CASE /\ c.flags = "lazy"
             /\ queue' = Tail(queue) /\ round' = 0
             /\ erased' = [p \in DOMAIN erased |-> erased[p] \/ p = lazyPage]
             /\ lazy' = FALSE
             /\ UNCHANGED <<pending, processing, lazyPage>>
    <2>1. erased \in [Image -> BOOLEAN] /\ flash \in [Pages -> SUBSET Nat]
      BY DEF IInv, TypeOK
    <2>2. Tail(queue) = <<>>
      BY <1>0, <1>4, <1>7, HeadOfQueue
    <2>3. QueueInv'
      <3>1. \A p \in Image : erased[p] => erased'[p]
        BY <1>7, <2>1
      <3>2. \A k \in 1 .. Len(acc) : acc'[k] = acc[k]
        BY <1>u
      <3> QED
        BY <1>0, <1>7, <2>2, <3>1, <3>2, QueueShrinks DEF FInv
    <2>4. BufferInv' /\ LazyInv' /\ RoundInv'
      BY <1>u, <1>5, <1>7, <2>3, FreshHead DEF FInv, BufferInv, LazyInv
    <2>5. lazyPage \in Pages /\ flash' = [flash EXCEPT ![lazyPage] = {}]
      BY <1>0, <1>1, <1>4, <1>7, HeadCommand DEF FlashAfter
    <2>6. ErasedInv'
      BY <1>2, <1>7, <2>1, <2>5 DEF ErasedInv, Truthful
    <2> QED
      BY <1>3, <2>3, <2>4, <2>6 DEF FInv
  <1>8. CASE /\ c.flags = "pending"
             /\ queue' = Tail(queue) /\ round' = 0
             /\ pending # <<>> => pending' = Tail(pending)
             /\ UNCHANGED <<lazy, lazyPage, erased>>
    <2>1. Tail(queue) = <<>> /\ pending # <<>>
      BY <1>0, <1>4, <1>8, HeadOfQueue
    <2>2. QueueInv'
      BY <1>0, <1>u, <1>8, <2>1, QueueShrinks DEF FInv
    <2>3. BufferInv'
      BY <1>u, <1>8, <2>1, BufferShrinks DEF FInv
    <2>4. LazyInv' /\ RoundInv' /\ ErasedInv'
      BY <1>2, <1>5, <1>8, <2>2, FreshHead DEF FInv, LazyInv, ErasedInv
    <2> QED
      BY <1>3, <2>2, <2>3, <2>4 DEF FInv
  <1>9. CASE /\ c.flags = "none"
             /\ queue' = Tail(queue) /\ round' = 0
             /\ UNCHANGED <<pending, lazy, lazyPage, erased>>
    <2>1. QueueInv'
      BY <1>0, <1>u, <1>9, QueueShrinks DEF FInv
    <2>2. BufferInv' /\ LazyInv' /\ RoundInv' /\ ErasedInv'
      BY <1>2, <1>u, <1>5, <1>9, <2>1, FreshHead DEF FInv, BufferInv, LazyInv, ErasedInv
    <2> QED
      BY <1>3, <2>1, <2>2 DEF FInv
  <1>10. CASE Finish
    BY <1>4, <1>7, <1>8, <1>9, <1>10 DEF Finish
  <1> QED
    BY <1>6, <1>10 DEF EventSuccess

\* cmd_queue_fail_head: the head ends with an error; a buffered store or a lazy erase
\* takes the buffer with it.
LEMMA FailFlash ==
    ASSUME IInv, IInv', FInv, queue # <<>>,
           SocInv', NEW frames, cmd_queue_fail_head(frames), Truthful(erased, flash'),
           UNCHANGED <<erased, acc>>
    PROVE  FInv'
  <1>1. queue' = Tail(queue) /\ round' = 0 /\ queue' \in Seq(Command) /\ pending' = pending
    BY DEF IInv, TypeOK, cmd_queue_fail_head, AbortPending
  <1>2. Head(queue).flags # "none" => Tail(queue) = <<>>
    BY HeadOfQueue
  <1>3. lazy /\ Tail(queue) # <<>> => lazyPage' = lazyPage
    BY <1>2 DEF cmd_queue_fail_head
  <1>4. QueueInv'
    BY <1>1, <1>3, QueueShrinks DEF FInv
  <1>5. RoundInv' /\ BufferInv' /\ RequestInv' /\ ErasedInv'
    BY <1>1, <1>4, FreshHead DEF FInv, BufferInv, RequestInv, ErasedInv
  <1>6. LazyInv'
    BY DEF FInv, LazyInv, cmd_queue_fail_head, AbortPending
  <1> QED
    BY <1>4, <1>5, <1>6 DEF FInv

\* EventError: the head's flash operation failed.
LEMMA ErrorFlash ==
    ASSUME IInv, IInv', FInv, EventError
    PROVE  FInv'
  <1>u. /\ access = "in_flight" /\ soc' = "free" /\ access' = "idle"
        /\ EventEffect(FALSE)
        /\ cmd_queue_fail_head(<<Frame("dequeue")>> \o ctl)
        /\ UNCHANGED <<erased, foreign, acc>>
    BY DEF EventError
  <1>0. queue # <<>> /\ soc = "ours"
    BY <1>u DEF IInv, AccessInv, FInv, SocInv
  <1>1. flash' \in FlashAfter(Head(queue), FALSE)
    BY <1>u, <1>0 DEF EventEffect
  <1>2. Truthful(erased, flash')
    BY <1>0, <1>1, StaysTruthful
  <1>3. SocInv'
    BY <1>u DEF SocInv
  <1> QED
    BY <1>u, <1>0, <1>2, <1>3, FailFlash

-----------------------------------------------------------------------------
(* The frames.                                                              *)

\* cmd_process, tried while no operation of ours is in flight, leaves flash_access true
\* to the SoftDevice.
LEMMA Processing ==
    ASSUME IInv, SocInv, access = "idle", NEW rc, cmd_process(rc)
    PROVE  SocInv'
  BY DEF SocInv, SocReturns, cmd_process, AccessAfter, SocAfter, IInv, TypeOK

\* Events that are not ours, and returns from a call.
LEMMA ReturnFlash ==
    ASSUME IInv, FInv,
           \/ EventRetry \/ EventIgnored \/ ForeignStart \/ CallbackReturn
           \/ EventTail \/ DequeueReturn \/ PendingReturn \/ AbortReturn \/ UNCHANGED vars
    PROVE  FInv'
  <1>1. UNCHANGED <<queue, round, pending, lazy, lazyPage, erased, acc, flash>>
    BY DEF EventRetry, EventIgnored, ForeignStart, CallbackReturn, EventTail, DequeueReturn,
           PendingReturn, AbortReturn, vars, driver
  <1>2. CASE EventRetry \/ EventIgnored \/ ForeignStart
    <2>1. SocInv'
      BY <1>2 DEF EventRetry, EventIgnored, ForeignStart, driver, FInv, SocInv
    <2> QED
      BY <1>1, <2>1, QuietStep
  <1>3. CASE \/ CallbackReturn \/ EventTail \/ DequeueReturn \/ PendingReturn \/ AbortReturn
             \/ UNCHANGED vars
    <2>1. UNCHANGED <<access, soc>>
      BY <1>3 DEF CallbackReturn, EventTail, DequeueReturn, PendingReturn, AbortReturn, vars,
                  driver
    <2>2. SocInv'
      BY <2>1 DEF FInv, SocInv
    <2> QED
      BY <1>1, <2>2, QuietStep
  <1> QED
    BY <1>2, <1>3

\* DequeueStart: the head of the queue is started, waits, or fails.
LEMMA DequeueFlash ==
    ASSUME IInv, IInv', FInv, DequeueStart
    PROVE  FInv'
  <1>1. PICK rc \in SocReturns :
          /\ cmd_process(rc)
          /\ IF rc = "fatal"
             THEN cmd_queue_fail_head(ctl)
             ELSE /\ ctl' = Tail(ctl)
                  /\ UNCHANGED <<queue, round, pending, lazy, lazyPage, processing, log>>
    BY DEF DequeueStart
  <1>u. queue # <<>> /\ access = "idle" /\ UNCHANGED <<erased, foreign, acc, flash>>
    BY DEF DequeueStart
  <1>2. SocInv'
    BY <1>1, <1>u, Processing DEF FInv
  <1>3. CASE rc = "fatal"
    <2>1. Truthful(erased, flash')
      BY <1>u DEF FInv, ErasedInv
    <2> QED
      BY <1>1, <1>u, <1>2, <1>3, <2>1, FailFlash
  <1>4. CASE rc # "fatal"
    BY <1>1, <1>u, <1>2, <1>4, QuietStep
  <1> QED
    BY <1>3, <1>4

\* PendingErase: the oldest buffered packet needs a page of the old image.
LEMMA PendingEraseFlash ==
    ASSUME IInv, FInv, PendingErase
    PROVE  FInv'
  <1>1. PICK ret \in EnqueueReturns :
          \/ /\ ret = "success"
             /\ lazy_erase_trigger(Head(pending), ret)
             /\ ctl' = Tail(ctl)
             /\ UNCHANGED <<pending, processing, log>>
          \/ /\ ret # "success"
             /\ Unerased(Head(pending)) # {}
             /\ cmd_queue_enqueue(
                   Cmd("clear", "lazy", ErasePage(Head(pending)), ErasePage(Head(pending)), 0), ret)
             /\ AbortPending(<<Frame("dequeue")>> \o Tail(ctl))
    BY DEF PendingErase
  <1>u. ~processing /\ ~lazy /\ pending # <<>> /\ UNCHANGED <<erased, foreign, acc, flash>>
    BY DEF PendingErase
  <1>2. Head(pending) \in Packet
    BY <1>u, Sizes, Popped
  <1>3. Head(pending).first \in Pages /\ Head(pending).last \in Pages
    BY <1>2 DEF Packet
  <1>4. /\ Unerased(Head(pending)) # {}
        /\ cmd_queue_enqueue(
              Cmd("clear", "lazy", ErasePage(Head(pending)), ErasePage(Head(pending)), 0), ret)
        /\ pending' = pending
    BY <1>1 DEF lazy_erase_trigger, AbortPending
  <1>5. /\ lazy' => ret = "success" /\ lazyPage' = ErasePage(Head(pending))
        /\ ret = "success" => lazyPage' = ErasePage(Head(pending))
    BY <1>1 DEF lazy_erase_trigger, AbortPending
  <1>6. SocInv' /\ QueueInv' /\ LazyInv' /\ ErasedInv' /\ RoundInv'
    BY <1>u, <1>3, <1>4, <1>5, TriggerFlash
  <1>7. BufferInv' /\ RequestInv'
    BY <1>u, <1>4 DEF FInv, BufferInv, RequestInv
  <1> QED
    BY <1>6, <1>7 DEF FInv

\* PendingStore: the pages of the oldest buffered packet are erased, and it is stored.
LEMMA PendingStoreFlash ==
    ASSUME IInv, FInv, PendingStore
    PROVE  FInv'
  <1> DEFINE k == Head(pending)
             c == Cmd("store", "pending", k.first, k.last, k.id)
  <1>1. PICK ret \in EnqueueReturns :
          /\ cmd_queue_enqueue(
                Cmd("store", "pending", Head(pending).first, Head(pending).last,
                    Head(pending).id), ret)
          /\ IF ret = "success"
             THEN /\ processing' = TRUE
                  /\ ctl' = Tail(ctl)
                  /\ UNCHANGED <<pending, lazy, lazyPage, log>>
             ELSE AbortPending(<<Frame("dequeue")>> \o Tail(ctl))
    BY DEF PendingStore
  <1>u. /\ ~processing /\ ~lazy /\ pending # <<>> /\ queue = <<>>
        /\ Unerased(Head(pending)) = {}
        /\ UNCHANGED <<erased, foreign, acc, flash>>
    BY DEF PendingStore
  <1>2. k \in Packet /\ k = pending[1]
    BY <1>u, Sizes, Popped
  <1>3. /\ c \in Command /\ c.flags = "pending" /\ c.op = "store"
        /\ c.first = k.first /\ c.last = k.last /\ c.id = k.id
    BY <1>2 DEF Cmd, Command, Packet
  <1>4. queue' = IF ret = "success" THEN Append(queue, c) ELSE queue
    BY <1>1, <1>3, EnqueueEffect DEF IInv
  <1>5. SocInv' /\ RoundInv'
    BY <1>1, <1>u, <1>3, Enqueueing DEF FInv
  <1>6. pending' = pending /\ ~lazy'
    BY <1>1, <1>u DEF AbortPending
  <1>7. BufferInv' /\ RequestInv' /\ LazyInv' /\ ErasedInv'
    BY <1>u, <1>6 DEF FInv, BufferInv, RequestInv, LazyInv, ErasedInv
  <1>8. \A p \in {k.first, k.last} : p \in Image => erased[p]
    BY <1>u, PstorageConstants DEF Unerased, Image
  <1>9. Sound(c, erased', lazyPage', pending', acc')
    BY <1>u, <1>2, <1>3, <1>6, <1>8 DEF Sound
  <1>10. QueueInv'
    BY <1>u, <1>3, <1>4, <1>6, <1>9, QueueGrows DEF FInv
  <1> QED
    BY <1>5, <1>7, <1>10 DEF FInv

\* While an abort reports the packets of its snapshot nothing is queued.
LEMMA AbortFrameOnTop ==
    ASSUME IInv, Running("abort"), Head(ctl).n > 0, pending # <<>>
    PROVE  queue = <<>> /\ ~lazy /\ ~processing /\ Plain = 0
  <1>1. Head(ctl) = ctl[1] /\ 1 \in 1 .. Len(ctl) /\ ctl[1].f = "abort"
    BY Sizes, Popped DEF Running
  <1>2. ~lazy /\ ~processing
    BY <1>1 DEF IInv, AbortInv
  <1>3. queue = <<>>
    BY <1>2 DEF IInv, FlagsInv
  <1> QED
    BY <1>2, <1>3 DEF Plain

\* AbortOne: a buffered packet is reported as failed.
LEMMA AbortOneFlash ==
    ASSUME IInv, FInv, AbortOne
    PROVE  FInv'
  <1>u. /\ Running("abort") /\ Head(ctl).n > 0 /\ pending # <<>>
        /\ pending' = Tail(pending)
        /\ UNCHANGED <<queue, access, round, lazy, lazyPage, processing, erased>>
        /\ UNCHANGED <<soc, foreign, acc, flash>>
    BY DEF AbortOne
  <1>1. queue = <<>>
    BY <1>u, AbortFrameOnTop
  <1>2. QueueInv'
    BY <1>u, <1>1 DEF QueueInv
  <1>3. BufferInv'
    BY <1>u, BufferShrinks DEF FInv
  <1> QED
    BY <1>u, <1>2, <1>3 DEF FInv, SocInv, RequestInv, LazyInv, ErasedInv, RoundInv

-----------------------------------------------------------------------------
(* The theorems.                                                            *)

\* Every step keeps the invariant.
LEMMA NextFInv ==
    ASSUME IInv, FInv, [Next]_vars
    PROVE  FInv'
  <1>i. IInv'
    BY NextIInv
  <1>1. CASE \E r \in Stores : pstorage_store(r)
    <2>1. PICK r \in Stores : pstorage_store(r)
      BY <1>1
    <2>2. CASE StoreBuffered(r)
      BY <2>2, BufferFlash
    <2>3. CASE StoreStartsErase(r)
      BY <2>3, EraseFlash
    <2>4. CASE StoreDirect(r)
      <3>1. r.op = "store" /\ r \in Stores \cup Clears
        BY PstorageInputs
      <3>2. PICK ret \in EnqueueReturns :
              /\ cmd_queue_enqueue(Cmd("store", "none", r.first, r.last, NewId), ret)
              /\ IF ret = "success" THEN Accepted(r) ELSE UNCHANGED acc
        BY <2>4 DEF StoreDirect
      <3>3. /\ ~Buffering /\ Unerased(r) = {}
            /\ UNCHANGED <<pending, lazy, lazyPage, processing, erased, ctl, foreign, log, flash>>
        BY <2>4 DEF StoreDirect
      <3> QED
        BY <3>1, <3>2, <3>3, DirectFlash
    <2> QED
      BY <2>1, <2>2, <2>3, <2>4 DEF pstorage_store
  <1>2. CASE \E r \in Clears : pstorage_clear(r)
    <2>1. PICK r \in Clears : pstorage_clear(r)
      BY <1>2
    <2>2. r.op = "clear" /\ r \in Stores \cup Clears
      BY PstorageInputs
    <2>3. PICK ret \in EnqueueReturns :
            /\ cmd_queue_enqueue(Cmd("clear", "none", r.first, r.last, NewId), ret)
            /\ IF ret = "success" THEN Accepted(r) ELSE UNCHANGED acc
      BY <2>1 DEF pstorage_clear
    <2>4. /\ ~Buffering
          /\ UNCHANGED <<pending, lazy, lazyPage, processing, erased, ctl, foreign, log, flash>>
      BY <2>1 DEF pstorage_clear
    <2> QED
      BY <2>2, <2>3, <2>4, DirectFlash
  <1>3. CASE EventSuccess
    BY <1>i, <1>3, SuccessFlash
  <1>4. CASE EventError
    BY <1>i, <1>4, ErrorFlash
  <1>5. CASE \/ EventRetry \/ EventIgnored \/ ForeignStart \/ CallbackReturn
             \/ EventTail \/ DequeueReturn \/ PendingReturn \/ AbortReturn \/ UNCHANGED vars
    BY <1>5, ReturnFlash
  <1>6. CASE DequeueStart
    BY <1>i, <1>6, DequeueFlash
  <1>7. CASE PendingErase
    BY <1>7, PendingEraseFlash
  <1>8. CASE PendingStore
    BY <1>8, PendingStoreFlash
  <1>9. CASE AbortOne
    BY <1>9, AbortOneFlash
  <1> QED
    BY <1>1, <1>2, <1>3, <1>4, <1>5, <1>6, <1>7, <1>8, <1>9
       DEF Next, proc_soc, Internal, Drained

\* What the queue, the buffer, the erase flags and the flash have to do with each other
\* holds in every state.
LEMMA FlashInvariance == Spec => [](IInv /\ FInv)
  <1>1. Init => IInv /\ FInv
    BY InitIInv, InitFInv
  <1>2. IInv /\ FInv /\ [Next]_vars => (IInv /\ FInv)'
    BY NextIInv, NextFInv
  <1> QED
    BY <1>1, <1>2, PTL DEF Spec

\* For every number of pages, queue and buffer size and mix of requests, errors and
\* foreign operations: no page of the image ever holds a store of the new image beside
\* bytes of the old one (lazy_erase_check_and_trigger looks at both pages of a packet,
\* and only a completed erase sets dfu_page_erased).
THEOREM NeverMixed == Spec => []NoStoreOnOldImage
  <1>1. FInv => NoStoreOnOldImage
    BY DEF FInv, ErasedInv, Truthful, NoStoreOnOldImage
  <1> QED
    BY <1>1, FlashInvariance, PTL

-----------------------------------------------------------------------------
(* The contract.                                                            *)

\* The oldest request not reported yet is a client's, and a store covers the two pages
\* of its first and last byte.
LEMMA OldestRequest ==
    ASSUME IInv, FInv, Contract!Oldest <= Len(acc)
    PROVE  /\ Contract!Oldest \in 1 .. Len(acc)
           /\ acc[Contract!Oldest].op \in {"store", "clear"}
           /\ acc[Contract!Oldest].op = "store" =>
                 Contract!Span(acc[Contract!Oldest]) =
                     {acc[Contract!Oldest].first, acc[Contract!Oldest].last}
  <1> DEFINE r == acc[Contract!Oldest]
  <1>1. Contract!Oldest \in 1 .. Len(acc)
    BY Sizes DEF Contract!Oldest
  <1>2. r \in Stores \cup Clears
    BY <1>1 DEF FInv, RequestInv
  <1>3. r.op \in {"store", "clear"} /\ r.first \in Pages /\ r.last \in Pages
    BY <1>2, RequestPages DEF Contract!Request
  <1>4. ASSUME r.op = "store"
        PROVE  Contract!Span(r) = {r.first, r.last}
    <2>1. r.last = r.first \/ r.last = r.first + 1
      BY <1>2, <1>4, PstorageInputs
    <2>2. \A p \in Pages : p \in Nat
      BY PageIsNat
    <2> QED
      BY <1>3, <2>1, <2>2 DEF Contract!Span
  <1> QED
    BY <1>1, <1>3, <1>4

\* A report of the oldest request, when it is a store.
LEMMA SettleStore ==
    ASSUME IInv, FInv, NEW ok \in BOOLEAN,
           Contract!Oldest <= Len(acc), acc[Contract!Oldest].op = "store",
           Notify(Contract!Oldest, ok), acc' = acc,
           flash' = [p \in Pages |->
                        IF ok /\ p \in {acc[Contract!Oldest].first, acc[Contract!Oldest].last}
                        THEN flash[p] \cup {Contract!Oldest} ELSE flash[p]]
    PROVE  Contract!Next
  <1>1. Contract!Span(acc[Contract!Oldest]) =
            {acc[Contract!Oldest].first, acc[Contract!Oldest].last}
    BY OldestRequest
  <1>2. Contract!Settle(ok)
    BY <1>1 DEF Contract!Settle, Notify
  <1> QED
    BY <1>2 DEF Contract!Next

\* A report of the oldest request, when it is a clear.
LEMMA SettleClear ==
    ASSUME IInv, FInv, NEW ok \in BOOLEAN,
           Contract!Oldest <= Len(acc), acc[Contract!Oldest].op = "clear",
           Notify(Contract!Oldest, ok), acc' = acc,
           NEW W \in SUBSET Contract!Span(acc[Contract!Oldest]),
           flash' = [p \in Pages |-> IF p \notin W THEN flash[p]
                                     ELSE IF ok THEN {} ELSE flash[p] \cap {0}],
           ok => \A p \in Contract!Span(acc[Contract!Oldest]) : flash'[p] = {}
    PROVE  Contract!Next
  <1>1. Contract!Settle(ok)
    BY DEF Contract!Settle, Notify
  <1> QED
    BY <1>1 DEF Contract!Next

\* The client's command at the head of the queue, or the buffered store there, is the
\* oldest request not reported yet.
LEMMA HeadIsOldest ==
    ASSUME IInv, FInv, queue # <<>>, queue[1].flags # "lazy"
    PROVE  /\ Contract!Oldest <= Len(acc)
           /\ queue[1].id = Contract!Oldest
           /\ acc[Contract!Oldest].op = queue[1].op
           /\ acc[Contract!Oldest].first = queue[1].first
           /\ acc[Contract!Oldest].last = queue[1].last
           /\ queue[1].flags = "pending" => pending # <<>> /\ Head(pending).id = Contract!Oldest
  <1>1. /\ Head(queue) = queue[1] /\ queue[1].flags \in {"none", "lazy", "pending"}
        /\ Sound(queue[1], erased, lazyPage, pending, acc)
    BY HeadCommand DEF Command
  <1>2. Len(acc) = Len(log) + Plain + Len(pending)
    BY DEF IInv, FifoInv
  <1>3. CASE queue[1].flags = "none"
    <2>1. Plain >= 1 /\ queue[1].id = Len(log) + 1
      BY <1>1, <1>3, HeadOfQueue
    <2>2. Len(log) + 1 <= Len(acc)
      BY <1>2, <2>1, Sizes
    <2> QED
      BY <1>1, <1>3, <2>1, <2>2 DEF Sound, Contract!Oldest
  <1>4. CASE queue[1].flags = "pending"
    <2>1. Plain = 0 /\ pending # <<>>
      BY <1>1, <1>4, HeadOfQueue
    <2>2. 1 \in 1 .. Len(pending) /\ Head(pending) = pending[1]
      BY <2>1, Sizes, Popped
    <2>3. pending[1].id = Len(log) + Plain + 1
      BY <2>2 DEF IInv, FifoInv
    <2>4. pending[1].id = Len(log) + 1 /\ Len(log) + 1 <= Len(acc)
      BY <1>2, <2>1, <2>2, <2>3, Sizes
    <2>5. Kept(pending[1], acc)
      BY <2>2 DEF FInv, BufferInv
    <2> QED
      BY <1>1, <1>4, <2>1, <2>2, <2>4, <2>5 DEF Sound, Kept, Contract!Oldest
  <1> QED
    BY <1>1, <1>3, <1>4

\* The flash operation that ends the head with success, and the report of it, are the
\* contract's Settle(TRUE).
LEMMA HeadSettles ==
    ASSUME IInv, FInv, queue # <<>>, queue[1].flags # "lazy",
           flash' \in FlashAfter(Head(queue), TRUE),
           round + 1 >= Rounds(Head(queue)),
           Notify(Contract!Oldest, TRUE), acc' = acc
    PROVE  Contract!Next
  <1> DEFINE c == queue[1]
             r == acc[Contract!Oldest]
  <1>1. /\ Contract!Oldest <= Len(acc) /\ c.id = Contract!Oldest
        /\ r.op = c.op /\ r.first = c.first /\ r.last = c.last
    BY HeadIsOldest
  <1>2. Head(queue) = c /\ c.op \in {"store", "clear"} /\ flash \in [Pages -> SUBSET Nat]
    BY HeadCommand DEF Command, IInv, TypeOK
  <1>3. CASE c.op = "store"
    <2>1. flash' = [p \in Pages |-> IF TRUE /\ p \in {r.first, r.last}
                                    THEN flash[p] \cup {Contract!Oldest} ELSE flash[p]]
      BY <1>1, <1>2, <1>3 DEF FlashAfter
    <2> QED
      BY <1>1, <1>3, <2>1, SettleStore
  <1>4. CASE c.op = "clear"
    <2> DEFINE q == c.first + round
    <2>1. flash' = [flash EXCEPT ![q] = {}]
      BY <1>2, <1>4 DEF FlashAfter
    <2>2. q \in Pages /\ q <= c.last /\ c.first \in Nat /\ c.last \in Nat /\ round \in Nat
      BY <1>4, HeadCommand
    <2>3. q = c.last
      BY <1>2, <1>4, <2>2 DEF Rounds
    <2>4. {q} \in SUBSET Contract!Span(r)
      BY <1>1, <2>2 DEF Contract!Span
    <2>5. flash' = [p \in Pages |-> IF p \notin {q} THEN flash[p]
                                    ELSE IF TRUE THEN {} ELSE flash[p] \cap {0}]
      BY <1>2, <2>1
    <2>6. ASSUME NEW p \in Contract!Span(r)
          PROVE  flash'[p] = {}
      <3>1. p \in Pages /\ c.first <= p /\ p <= c.last
        BY <1>1 DEF Contract!Span
      <3>2. p \in Nat
        BY <3>1, PageIsNat
      <3>3. p # q => flash[p] = {}
        BY <1>4, <2>2, <2>3, <3>1, <3>2, HeadCommand DEF Underway
      <3> QED
        BY <2>5, <3>1, <3>3
    <2> QED
      BY <1>1, <1>4, <2>4, <2>5, <2>6, SettleClear
  <1> QED
    BY <1>2, <1>3, <1>4

\* The report of a head that failed is the contract's Settle(FALSE).
LEMMA HeadFails ==
    ASSUME IInv, FInv, queue # <<>>, queue[1].flags # "lazy",
           flash' = flash \/ flash' \in FlashAfter(Head(queue), FALSE),
           Notify(Contract!Oldest, FALSE), acc' = acc
    PROVE  Contract!Next
  <1> DEFINE c == queue[1]
             r == acc[Contract!Oldest]
  <1>1. /\ Contract!Oldest <= Len(acc) /\ c.id = Contract!Oldest
        /\ r.op = c.op /\ r.first = c.first /\ r.last = c.last
    BY HeadIsOldest
  <1>2. Head(queue) = c /\ c.op \in {"store", "clear"} /\ flash \in [Pages -> SUBSET Nat]
    BY HeadCommand DEF Command, IInv, TypeOK
  <1>3. CASE c.op = "store"
    <2>1. flash' = [p \in Pages |-> IF FALSE /\ p \in {r.first, r.last}
                                    THEN flash[p] \cup {Contract!Oldest} ELSE flash[p]]
      BY <1>1, <1>2, <1>3 DEF FlashAfter
    <2> QED
      BY <1>1, <1>3, <2>1, SettleStore
  <1>4. CASE c.op = "clear"
    <2> DEFINE q == c.first + round
    <2>1. flash' = flash \/ flash' = [flash EXCEPT ![q] = @ \cap {0}]
      BY <1>2, <1>4 DEF FlashAfter
    <2>2. q \in Pages /\ q <= c.last /\ c.first \in Nat /\ c.last \in Nat /\ round \in Nat
      BY <1>4, HeadCommand
    <2>3. {q} \in SUBSET Contract!Span(r) /\ {} \in SUBSET Contract!Span(r)
      BY <1>1, <2>2 DEF Contract!Span
    <2>4. CASE flash' = flash
      <3>1. flash' = [p \in Pages |-> IF p \notin {} THEN flash[p]
                                      ELSE IF FALSE THEN {} ELSE flash[p] \cap {0}]
        BY <1>2, <2>4
      <3> QED
        BY <1>1, <1>4, <2>3, <3>1, SettleClear
    <2>5. CASE flash' = [flash EXCEPT ![q] = @ \cap {0}]
      <3>1. flash' = [p \in Pages |-> IF p \notin {q} THEN flash[p]
                                      ELSE IF FALSE THEN {} ELSE flash[p] \cap {0}]
        BY <1>2, <2>5
      <3> QED
        BY <1>1, <1>4, <2>3, <3>1, SettleClear
    <2> QED
      BY <2>1, <2>4, <2>5
  <1> QED
    BY <1>2, <1>3, <1>4

\* A step as the contract sees it.
ContractStep == Contract!Next \/ UNCHANGED <<acc, log, flash>>

\* cmd_queue_fail_head reports a client's command, and nothing when the head was flagged:
\* its packets are reported by the abort that follows.
LEMMA FailRefines ==
    ASSUME IInv, FInv, queue # <<>>, NEW frames, cmd_queue_fail_head(frames), acc' = acc,
           flash' = flash \/ flash' \in FlashAfter(Head(queue), FALSE)
    PROVE  ContractStep
  <1> DEFINE c == queue[1]
  <1>1. Head(queue) = c /\ c.op \in {"store", "clear"} /\ flash \in [Pages -> SUBSET Nat]
    BY HeadCommand DEF Command, IInv, TypeOK
  <1>2. CASE c.flags = "none"
    <2>1. Notify(Contract!Oldest, FALSE)
      BY <1>1, <1>2, HeadIsOldest DEF cmd_queue_fail_head
    <2> QED
      BY <1>2, <2>1, HeadFails DEF ContractStep
  <1>3. CASE c.flags # "none"
    <2>1. log' = log
      BY <1>1, <1>3 DEF cmd_queue_fail_head, AbortPending
    <2>2. flash' = flash
      <3>1. CASE c.op = "store"
        <4>1. flash' = [p \in Pages |-> flash[p]] \/ flash' = flash
          BY <1>1, <3>1 DEF FlashAfter
        <4> QED
          BY <1>1, <4>1
      <3>2. CASE c.op = "clear"
        <4>1. c.flags = "lazy"
          BY <1>3, <3>2, HeadCommand DEF Sound, Command
        <4>2. lazy /\ round = 0 /\ c.first = lazyPage
          BY <1>1, <4>1, HeadCommand, HeadOfQueue
        <4>3. c.first + round = lazyPage
          BY <4>2, HeadCommand
        <4>4. flash' = flash \/ flash' = [flash EXCEPT ![lazyPage] = @ \cap {0}]
          BY <1>1, <3>2, <4>3 DEF FlashAfter
        <4>5. lazyPage \in Image /\ flash[lazyPage] \subseteq {0}
          BY <4>2 DEF FInv, LazyInv, ErasedInv, Truthful
        <4>6. flash[lazyPage] \cap {0} = flash[lazyPage]
          BY <4>5
        <4>7. [flash EXCEPT ![lazyPage] = @ \cap {0}] = flash
          BY <1>1, <4>6
        <4> QED
          BY <4>4, <4>7
      <3> QED
        BY <1>1, <3>1, <3>2
    <2> QED
      BY <2>1, <2>2 DEF ContractStep
  <1> QED
    BY <1>2, <1>3

\* EventSuccess wipes a page of a clear, prepares a page for its first store, or ends the
\* oldest request.
LEMMA SuccessRefines ==
    ASSUME IInv, FInv, EventSuccess
    PROVE  ContractStep
  <1> DEFINE c == queue[1]
  <1>u. access = "in_flight" /\ EventEffect(TRUE) /\ acc' = acc
    BY DEF EventSuccess
  <1>0. queue # <<>> /\ soc = "ours"
    BY <1>u DEF IInv, AccessInv, FInv, SocInv
  <1>1. flash' \in FlashAfter(Head(queue), TRUE)
    BY <1>u, <1>0 DEF EventEffect
  <1>2. /\ Head(queue) = c /\ c \in Command
        /\ c.flags \in {"none", "lazy", "pending"} /\ flash \in [Pages -> SUBSET Nat]
    BY <1>0, HeadCommand DEF Command, IInv, TypeOK
  <1>3. CASE c.flags = "lazy"
    <2>1. lazy /\ round = 0 /\ c.first = lazyPage /\ c.op = "clear" /\ lazyPage \in Nat
      BY <1>0, <1>2, <1>3, HeadCommand, HeadOfQueue
    <2>2. flash' = [flash EXCEPT ![lazyPage] = {}]
      BY <1>1, <1>2, <2>1 DEF FlashAfter
    <2>3. lazyPage \in Image /\ flash[lazyPage] \subseteq {0}
      BY <2>1 DEF FInv, LazyInv, ErasedInv, Truthful
    <2>4. log' = log
      <3>1. round + 1 >= Rounds(Head(queue)) => Finish
        BY DEF EventSuccess
      <3>2. Rounds(Head(queue)) = 1
        BY <1>0, <1>2, <1>3, HeadCommand
      <3>3. Finish
        BY <2>1, <3>1, <3>2
      <3> QED
        BY <1>2, <1>3, <3>3 DEF Finish
    <2>5. CASE flash[lazyPage] = {0}
      <3>1. Contract!PreparePage
        BY <1>u, <2>2, <2>3, <2>4, <2>5 DEF Contract!PreparePage
      <3> QED
        BY <3>1 DEF ContractStep, Contract!Next
    <2>6. CASE flash[lazyPage] = {}
      <3>1. flash' = flash
        BY <1>2, <2>2, <2>6
      <3> QED
        BY <1>u, <2>4, <3>1 DEF ContractStep
    <2> QED
      BY <2>3, <2>5, <2>6
  <1>4. CASE c.flags # "lazy" /\ round + 1 >= Rounds(Head(queue))
    <2>1. Finish
      BY <1>4 DEF EventSuccess
    <2>2. Notify(Contract!Oldest, TRUE)
      <3>1. CASE c.flags = "none"
        BY <1>0, <1>2, <2>1, <3>1, HeadIsOldest DEF Finish
      <3>2. CASE c.flags = "pending"
        <4>1. pending # <<>> /\ Head(pending).id = Contract!Oldest
          BY <1>0, <1>4, <3>2, HeadIsOldest
        <4> QED
          BY <1>2, <2>1, <3>2, <4>1 DEF Finish
      <3> QED
        BY <1>2, <1>4, <3>1, <3>2
    <2> QED
      BY <1>u, <1>0, <1>1, <1>4, <2>2, HeadSettles DEF ContractStep
  <1>5. CASE c.flags # "lazy" /\ ~(round + 1 >= Rounds(Head(queue)))
    <2>1. round' = round + 1 /\ queue' = queue /\ log' = log
      BY <1>5 DEF EventSuccess
    <2>2. c.op = "clear" /\ flash' = [flash EXCEPT ![c.first + round] = {}]
      BY <1>0, <1>1, <1>5, <2>1, NextRound
    <2>3. /\ Contract!Oldest <= Len(acc) /\ acc[Contract!Oldest].op = "clear"
          /\ acc[Contract!Oldest].first = c.first /\ acc[Contract!Oldest].last = c.last
      BY <1>0, <1>5, <2>2, HeadIsOldest
    <2>4. /\ c.first + round \in Pages /\ c.first + round <= c.last
          /\ c.first \in Nat /\ round \in Nat
      BY <1>0, <2>2, HeadCommand
    <2>5. c.first + round \in Contract!Span(acc[Contract!Oldest])
      BY <2>3, <2>4 DEF Contract!Span
    <2>6. Contract!WipePage
      BY <1>u, <2>1, <2>2, <2>3, <2>5 DEF Contract!WipePage
    <2> QED
      BY <2>6 DEF ContractStep, Contract!Next
  <1> QED
    BY <1>3, <1>4, <1>5

\* EventError ends the oldest request, or changes nothing the contract sees.
LEMMA ErrorRefines ==
    ASSUME IInv, FInv, EventError
    PROVE  ContractStep
  <1>u. /\ access = "in_flight" /\ EventEffect(FALSE) /\ acc' = acc
        /\ cmd_queue_fail_head(<<Frame("dequeue")>> \o ctl)
    BY DEF EventError
  <1>0. queue # <<>> /\ soc = "ours"
    BY <1>u DEF IInv, AccessInv, FInv, SocInv
  <1>1. flash' \in FlashAfter(Head(queue), FALSE)
    BY <1>u, <1>0 DEF EventEffect
  <1> QED
    BY <1>u, <1>0, <1>1, FailRefines

\* A dequeue that fails ends the oldest request; otherwise the contract sees nothing.
LEMMA DequeueRefines ==
    ASSUME IInv, FInv, DequeueStart
    PROVE  ContractStep
  <1>1. /\ queue # <<>> /\ UNCHANGED <<acc, flash>>
        /\ cmd_queue_fail_head(ctl) \/ log' = log
    BY DEF DequeueStart
  <1>2. CASE cmd_queue_fail_head(ctl)
    BY <1>1, <1>2, FailRefines
  <1>3. CASE log' = log
    BY <1>1, <1>3 DEF ContractStep
  <1> QED
    BY <1>1, <1>2, <1>3

\* AbortOne ends the oldest request, a buffered store, without success.
LEMMA AbortRefines ==
    ASSUME IInv, FInv, AbortOne
    PROVE  ContractStep
  <1>u. /\ Running("abort") /\ Head(ctl).n > 0 /\ pending # <<>>
        /\ Notify(Head(pending).id, FALSE) /\ acc' = acc /\ flash' = flash
    BY DEF AbortOne
  <1>1. Plain = 0
    BY <1>u, AbortFrameOnTop
  <1>2. 1 \in 1 .. Len(pending) /\ Head(pending) = pending[1]
    BY <1>u, Sizes, Popped
  <1>3. pending[1].id = Len(log) + Plain + 1 /\ Len(acc) = Len(log) + Plain + Len(pending)
    BY <1>2 DEF IInv, FifoInv
  <1>4. pending[1].id = Contract!Oldest /\ Contract!Oldest <= Len(acc)
    BY <1>1, <1>2, <1>3, Sizes DEF Contract!Oldest
  <1>5. acc[Contract!Oldest].op = "store"
    BY <1>2, <1>4 DEF FInv, BufferInv, Kept
  <1>6. flash \in [Pages -> SUBSET Nat]
    BY DEF IInv, TypeOK
  <1>7. flash' = [p \in Pages |->
                     IF FALSE /\ p \in {acc[Contract!Oldest].first, acc[Contract!Oldest].last}
                     THEN flash[p] \cup {Contract!Oldest} ELSE flash[p]]
    BY <1>u, <1>6
  <1>8. Notify(Contract!Oldest, FALSE)
    BY <1>u, <1>2, <1>4
  <1> QED
    BY <1>u, <1>4, <1>5, <1>7, <1>8, SettleStore DEF ContractStep

\* A request that is accepted is the contract's Accept; one that is refused is no step.
LEMMA AcceptRefines ==
    ASSUME NEW r \in Stores \cup Clears, acc' = acc \/ Accepted(r), UNCHANGED <<log, flash>>
    PROVE  ContractStep
  <1>1. r \in Contract!Request
    BY RequestPages
  <1>2. CASE acc' = acc
    BY <1>2 DEF ContractStep
  <1>3. CASE Accepted(r)
    <2>1. Contract!Accept
      BY <1>1, <1>3 DEF Contract!Accept, Accepted
    <2> QED
      BY <2>1 DEF ContractStep, Contract!Next
  <1> QED
    BY <1>2, <1>3

\* Every step is a step of the contract or one it does not see.
LEMMA StepRefines ==
    ASSUME IInv, FInv, [Next]_vars
    PROVE  ContractStep
  <1>1. CASE \E r \in Stores : pstorage_store(r)
    <2>1. PICK r \in Stores : pstorage_store(r)
      BY <1>1
    <2>2. (acc' = acc \/ Accepted(r)) /\ UNCHANGED <<log, flash>>
      <3>1. CASE StoreBuffered(r)
        BY <3>1 DEF StoreBuffered, pending_packet_add
      <3>2. CASE StoreStartsErase(r)
        BY <3>2 DEF StoreStartsErase, pending_packet_add
      <3>3. CASE StoreDirect(r)
        BY <3>3 DEF StoreDirect
      <3> QED
        BY <2>1, <3>1, <3>2, <3>3 DEF pstorage_store
    <2> QED
      BY <2>2, AcceptRefines
  <1>2. CASE \E r \in Clears : pstorage_clear(r)
    <2>1. PICK r \in Clears : pstorage_clear(r)
      BY <1>2
    <2>2. (acc' = acc \/ Accepted(r)) /\ UNCHANGED <<log, flash>>
      BY <2>1 DEF pstorage_clear
    <2> QED
      BY <2>2, AcceptRefines
  <1>3. CASE EventSuccess
    BY <1>3, SuccessRefines
  <1>4. CASE EventError
    BY <1>4, ErrorRefines
  <1>5. CASE DequeueStart
    BY <1>5, DequeueRefines
  <1>6. CASE AbortOne
    BY <1>6, AbortRefines
  <1>7. CASE \/ EventRetry \/ EventIgnored \/ ForeignStart \/ CallbackReturn
             \/ EventTail \/ DequeueReturn \/ PendingReturn \/ AbortReturn \/ UNCHANGED vars
    BY <1>7 DEF EventRetry, EventIgnored, ForeignStart, CallbackReturn, EventTail,
                DequeueReturn, PendingReturn, AbortReturn, vars, ContractStep
  <1>8. CASE PendingErase \/ PendingStore
    BY <1>8 DEF PendingErase, PendingStore, AbortPending, ContractStep
  <1> QED
    BY <1>1, <1>2, <1>3, <1>4, <1>5, <1>6, <1>7, <1>8
       DEF Next, proc_soc, Internal, Drained

\* For every number of pages, queue and buffer size and mix of requests: queueing,
\* lazy erasure, buffering, retries after BUSY, aborts and callbacks that store again
\* never show the clients anything but the contract.
THEOREM Refinement == Spec => ImplementsContract
  <1>1. Init => Contract!Init
    BY DEF Init, Contract!Init
  <1>2. IInv /\ FInv /\ [Next]_vars => [Contract!Next]_(Contract!contractVars)
    <2>1. IInv /\ FInv /\ [Next]_vars => ContractStep
      BY StepRefines
    <2> QED
      BY <2>1 DEF ContractStep, Contract!contractVars
  <1> QED
    BY <1>1, <1>2, FlashInvariance, PTL DEF Spec, ImplementsContract, Contract!Spec

-----------------------------------------------------------------------------
(* What the contract's steps keep.                                          *)

\* A page of store i of the requests a, with f in flash: it is intact, or was given up by
\* a clear accepted later.
IntactOn(p, i, a, f) ==
    i \in f[p] \/ \E j \in i + 1 .. Len(a) : a[j].op = "clear" /\ p \in Contract!Span(a[j])

\* Store i, reported before the step, is intact after it.
LEMMA StaysIntact ==
    ASSUME IInv, FInv, ContractStep,
           NEW i \in 1 .. Len(log), NEW p \in Pages, IntactOn(p, i, acc, flash)
    PROVE  IntactOn(p, i, acc', flash')
  <1>0. flash \in [Pages -> SUBSET Nat] /\ i \in Nat \ {0} /\ i # 0
    BY Sizes DEF IInv, TypeOK
  <1>1. CASE UNCHANGED <<acc, log, flash>>
    BY <1>1 DEF IntactOn
  <1>2. CASE Contract!Accept
    <2>1. PICK r \in Contract!Request : acc' = Append(acc, r)
      BY <1>2 DEF Contract!Accept
    <2>2. Len(acc') = Len(acc) + 1 /\ \A j \in 1 .. Len(acc) : acc'[j] = acc[j]
      BY <2>1, Sizes, Appended
    <2>3. flash' = flash
      BY <1>2 DEF Contract!Accept
    <2>4. ASSUME NEW j \in i + 1 .. Len(acc)
          PROVE  j \in i + 1 .. Len(acc') /\ acc'[j] = acc[j]
      BY <1>0, <2>2, Sizes
    <2> QED
      BY <2>3, <2>4 DEF IntactOn
  <1>3. CASE Contract!PreparePage
    <2>1. PICK q \in Image : flash[q] = {0} /\ flash' = [flash EXCEPT ![q] = {}]
      BY <1>3 DEF Contract!PreparePage
    <2>2. acc' = acc
      BY <1>3 DEF Contract!PreparePage
    <2>3. i \in flash[p] => i \in flash'[p]
      BY <1>0, <2>1
    <2> QED
      BY <2>2, <2>3 DEF IntactOn
  <1>4. ASSUME Contract!Oldest <= Len(acc), acc[Contract!Oldest].op = "clear",
               p \in Contract!Span(acc[Contract!Oldest]), acc' = acc
        PROVE  IntactOn(p, i, acc', flash')
    <2>1. Contract!Oldest \in i + 1 .. Len(acc)
      BY <1>4, <1>0, Sizes DEF Contract!Oldest
    <2> QED
      BY <1>4, <2>1 DEF IntactOn
  <1>5. CASE Contract!WipePage
    <2>1. PICK q \in Contract!Span(acc[Contract!Oldest]) : flash' = [flash EXCEPT ![q] = {}]
      BY <1>5 DEF Contract!WipePage
    <2>2. Contract!Oldest <= Len(acc) /\ acc[Contract!Oldest].op = "clear" /\ acc' = acc
      BY <1>5 DEF Contract!WipePage
    <2>3. CASE p = q
      BY <1>4, <2>2, <2>3
    <2>4. CASE p # q
      <3>1. flash'[p] = flash[p]
        BY <1>0, <2>1, <2>4
      <3> QED
        BY <2>2, <3>1 DEF IntactOn
    <2> QED
      BY <2>3, <2>4
  <1>6. CASE \E ok \in BOOLEAN : Contract!Settle(ok)
    <2>1. PICK ok \in BOOLEAN : Contract!Settle(ok)
      BY <1>6
    <2>2. Contract!Oldest <= Len(acc) /\ acc' = acc
      BY <2>1 DEF Contract!Settle
    <2>3. CASE i \in flash[p] => i \in flash'[p]
      BY <2>2, <2>3 DEF IntactOn
    <2>4. CASE ~(i \in flash[p] => i \in flash'[p])
      <3>1. CASE acc[Contract!Oldest].op = "store"
        BY <1>0, <2>1, <2>4, <3>1 DEF Contract!Settle
      <3>2. CASE acc[Contract!Oldest].op = "clear"
        <4>1. PICK W \in SUBSET Contract!Span(acc[Contract!Oldest]) :
                 flash' = [q \in Pages |-> IF q \notin W THEN flash[q]
                                           ELSE IF ok THEN {} ELSE flash[q] \cap {0}]
          BY <2>1, <3>2 DEF Contract!Settle
        <4>2. p \in W
          BY <2>4, <4>1
        <4> QED
          BY <1>4, <2>2, <3>2, <4>2
      <3> QED
        BY <2>2, <3>1, <3>2, OldestRequest
    <2> QED
      BY <2>3, <2>4
  <1> QED
    BY <1>1, <1>2, <1>3, <1>5, <1>6 DEF ContractStep, Contract!Next

\* A store is on all its pages when it is reported successful.
LEMMA ReportedIntact ==
    ASSUME IInv, FInv, NEW ok \in BOOLEAN, Contract!Settle(ok), ok,
           acc[Contract!Oldest].op = "store",
           NEW p \in {acc[Contract!Oldest].first, acc[Contract!Oldest].last}
    PROVE  p \in Pages /\ Contract!Oldest \in flash'[p]
  <1>1. Contract!Oldest <= Len(acc)
    BY DEF Contract!Settle
  <1>2. p \in Contract!Span(acc[Contract!Oldest])
    BY <1>1, OldestRequest
  <1>3. p \in Pages
    BY <1>2 DEF Contract!Span
  <1>4. flash' = [q \in Pages |-> IF ok /\ q \in Contract!Span(acc[Contract!Oldest])
                                  THEN flash[q] \cup {Contract!Oldest} ELSE flash[q]]
    BY DEF Contract!Settle
  <1> QED
    BY <1>2, <1>3, <1>4

\* Every step keeps the reported stores in flash.
LEMMA ReportedStep ==
    ASSUME IInv, FInv, IInv', FInv', ReportedStoreIsInFlash, ContractStep
    PROVE  ReportedStoreIsInFlash'
  <1> SUFFICES ASSUME NEW i \in 1 .. Len(log'), log'[i].ok, acc'[i].op = "store",
                      NEW p \in {acc'[i].first, acc'[i].last}
               PROVE  IntactOn(p, i, acc', flash')
    BY DEF ReportedStoreIsInFlash, IntactOn
  <1>1. /\ Len(log) <= Len(acc) /\ Len(log) \in Nat /\ Len(acc) \in Nat
        /\ acc \in Seq(Contract!Request) /\ log \in Seq(Contract!Completion)
    <2>1. Len(acc) = Len(log) + Plain + Len(pending)
      BY DEF IInv, FifoInv
    <2> QED
      BY <2>1, Sizes
  <1>2. \A k \in 1 .. Len(acc) : acc'[k] = acc[k]
    <2>1. CASE acc' = acc
      BY <2>1
    <2>2. CASE Contract!Accept
      BY <1>1, <2>2, Appended DEF Contract!Accept
    <2> QED
      BY <2>1, <2>2 DEF ContractStep, Contract!Next, Contract!PreparePage, Contract!WipePage,
                        Contract!Settle
  <1>3. CASE i \in 1 .. Len(log)
    <2>1. i \in 1 .. Len(acc)
      BY <1>1, <1>3
    <2>2. acc'[i] = acc[i]
      BY <1>2, <2>1
    <2>3. log'[i] = log[i]
      <3>1. CASE log' = log
        BY <3>1
      <3>2. CASE \E ok \in BOOLEAN : Contract!Settle(ok)
        <4>1. PICK ok \in BOOLEAN : log' = Append(log, [id |-> Contract!Oldest, ok |-> ok])
          BY <3>2 DEF Contract!Settle
        <4>2. [id |-> Contract!Oldest, ok |-> ok] \in Contract!Completion
          BY <1>1 DEF Contract!Completion, Contract!Oldest
        <4> QED
          BY <1>1, <1>3, <4>1, <4>2, Appended
      <3> QED
        BY <3>1, <3>2 DEF ContractStep, Contract!Next, Contract!Accept, Contract!PreparePage,
                          Contract!WipePage
    <2>4. acc[i] \in Contract!Request
      BY <1>1, <2>1
    <2>5. p \in Pages
      BY <2>2, <2>4 DEF Contract!Request
    <2>6. IntactOn(p, i, acc, flash)
      BY <1>3, <2>2, <2>3 DEF ReportedStoreIsInFlash, IntactOn
    <2> QED
      BY <1>3, <2>5, <2>6, StaysIntact
  <1>4. CASE i \notin 1 .. Len(log)
    <2>1. log' # log
      BY <1>4
    <2>2. PICK ok \in BOOLEAN : Contract!Settle(ok)
      BY <2>1 DEF ContractStep, Contract!Next, Contract!Accept, Contract!PreparePage,
                  Contract!WipePage
    <2>3. /\ log' = Append(log, [id |-> Contract!Oldest, ok |-> ok])
          /\ Contract!Oldest <= Len(acc)
      BY <2>2 DEF Contract!Settle
    <2>4. [id |-> Contract!Oldest, ok |-> ok] \in Contract!Completion
      BY <1>1 DEF Contract!Completion, Contract!Oldest
    <2>5. /\ Len(log') = Len(log) + 1
          /\ log'[Len(log) + 1] = [id |-> Contract!Oldest, ok |-> ok]
      BY <1>1, <2>3, <2>4, Appended
    <2>6. i = Len(log) + 1 /\ i = Contract!Oldest /\ i \in 1 .. Len(acc)
      BY <1>1, <1>4, <2>3, <2>5 DEF Contract!Oldest
    <2>7. ok /\ acc'[i] = acc[i]
      BY <1>2, <2>5, <2>6
    <2>8. i \in flash'[p]
      BY <2>2, <2>6, <2>7, ReportedIntact
    <2> QED
      BY <2>8 DEF IntactOn
  <1> QED
    BY <1>3, <1>4

\* For every number of pages, queue and buffer size and mix of requests: a store whose
\* client was told of success is intact on each of its pages for as long as no later clear
\* of the page is accepted.  No lazy erase, retry or event of another user destroys it.
THEOREM ReportedStaysInFlash == Spec => []ReportedStoreIsInFlash
  <1>1. Init => ReportedStoreIsInFlash
    BY DEF Init, ReportedStoreIsInFlash
  <1>2. /\ IInv /\ FInv /\ (IInv /\ FInv)' /\ ReportedStoreIsInFlash /\ [Next]_vars
        => ReportedStoreIsInFlash'
    BY StepRefines, ReportedStep
  <1> QED
    BY <1>1, <1>2, FlashInvariance, PTL DEF Spec

-----------------------------------------------------------------------------
(* Nothing is left without an event.                                        *)

\* A C call of one of the functions F is still to return.
Waiting(s, F) == \E i \in 1 .. Len(s) : s[i].f \in F

\* A queued command that was not started has a C call below that will dequeue it, and
\* packets buffered behind an empty queue have one that will process them.
WakeInv ==
    /\ queue # <<>> /\ access = "idle" => Waiting(ctl, {"tail", "dequeue"})
    /\ queue = <<>> /\ pending # <<>> => Waiting(ctl, {"tail", "dequeue", "pending"})

\* A call that is entered leaves the waiting ones waiting.
LEMMA StillWaiting ==
    ASSUME NEW F, NEW s \in Seq(Frames), NEW x \in Frames, Waiting(s, F) \/ x.f \in F
    PROVE  Waiting(<<x>> \o s, F)
  <1>1. /\ Len(<<x>> \o s) = Len(s) + 1 /\ Len(s) \in Nat
        /\ (<<x>> \o s)[1] = x
        /\ \A i \in 2 .. Len(s) + 1 : (<<x>> \o s)[i] = s[i - 1]
    BY Pushed
  <1>2. CASE x.f \in F
    <2>1. 1 \in 1 .. Len(<<x>> \o s)
      BY <1>1
    <2> QED
      BY <1>1, <1>2, <2>1 DEF Waiting
  <1>3. CASE Waiting(s, F)
    <2>1. PICK i \in 1 .. Len(s) : s[i].f \in F
      BY <1>3 DEF Waiting
    <2>2. i + 1 \in 2 .. Len(s) + 1 /\ i + 1 \in 1 .. Len(<<x>> \o s) /\ (i + 1) - 1 = i
      BY <1>1
    <2>3. (<<x>> \o s)[i + 1] = s[i]
      BY <1>1, <2>2
    <2> QED
      BY <2>1, <2>2, <2>3 DEF Waiting
  <1> QED
    BY <1>2, <1>3

\* A call that returns and is none of F leaves those of F waiting.
LEMMA WaitingBelow ==
    ASSUME NEW F, NEW s \in Seq(Frames), s # <<>>, Waiting(s, F), Head(s).f \notin F
    PROVE  Waiting(Tail(s), F)
  <1>1. /\ Head(s) = s[1] /\ Len(s) \in Nat \ {0}
        /\ Len(Tail(s)) = Len(s) - 1
        /\ \A i \in 1 .. Len(s) - 1 : Tail(s)[i] = s[i + 1]
    BY Popped
  <1>2. PICK i \in 1 .. Len(s) : s[i].f \in F
    BY DEF Waiting
  <1>3. i - 1 \in 1 .. Len(s) - 1 /\ i - 1 \in 1 .. Len(Tail(s)) /\ (i - 1) + 1 = i
    BY <1>1, <1>2
  <1>4. Tail(s)[i - 1] = s[i]
    BY <1>1, <1>3
  <1> QED
    BY <1>2, <1>3, <1>4 DEF Waiting

\* The second of two calls that are entered is waiting.
LEMMA SecondWaiting ==
    ASSUME NEW F, NEW s \in Seq(Frames), NEW x \in Frames, NEW y \in Frames, y.f \in F
    PROVE  Waiting(<<x, y>> \o s, F)
  <1>1. Len(<<x, y>> \o s) = Len(s) + 2 /\ (<<x, y>> \o s)[2] = y /\ Len(s) \in Nat
    OBVIOUS
  <1>2. 2 \in 1 .. Len(<<x, y>> \o s)
    BY <1>1
  <1> QED
    BY <1>1, <1>2 DEF Waiting

\* The frames are frames.
LEMMA FrameTypes ==
    /\ \A f \in {"callback", "tail", "dequeue", "pending"} : Frame(f) \in Frames /\ Frame(f).f = f
    /\ \A n \in Nat : AbortFrame(n) \in Frames
  BY DEF Frame, AbortFrame, Frames

\* With a call waiting that dequeues, everything has one.
LEMMA Dequeued ==
    ASSUME Waiting(ctl', {"tail", "dequeue"})
    PROVE  WakeInv'
  <1>1. Waiting(ctl', {"tail", "dequeue", "pending"})
    BY DEF Waiting
  <1> QED
    BY <1>1 DEF WakeInv

\* cmd_queue_enqueue starts a command it puts on an empty queue, or leaves it to the
\* operation or the call that the queue is waiting for.
LEMMA EnqueueWakes ==
    ASSUME IInv, WakeInv, NEW c \in Command, NEW ret, cmd_queue_enqueue(c, ret)
    PROVE  queue' # <<>> /\ access' = "idle" => queue # <<>> /\ access = "idle"
  <1>1. CASE UNCHANGED <<queue, access, round, soc>>
    BY <1>1
  <1>2. CASE /\ queue = <<>> /\ access = "idle"
             /\ \E rc \in SocReturns :
                   /\ cmd_process(rc)
                   /\ queue' = IF rc = "fatal" THEN <<>> ELSE <<c>>
    BY <1>2 DEF SocReturns, cmd_process, AccessAfter
  <1>3. CASE ~(queue = <<>> /\ access = "idle") /\ UNCHANGED <<access, round, soc>>
    BY <1>3 DEF IInv, AccessInv
  <1> QED
    BY <1>1, <1>2, <1>3 DEF cmd_queue_enqueue

\* A request that goes to the queue, or whose lazy erase does.
LEMMA RequestWakes ==
    ASSUME IInv, WakeInv, ctl' = ctl,
           NEW c \in Command, NEW ret, cmd_queue_enqueue(c, ret),
           pending' = pending \/ ret = "success"
    PROVE  WakeInv'
  <1>1. queue' = IF ret = "success" THEN Append(queue, c) ELSE queue
    BY EnqueueEffect DEF IInv
  <1>2. Append(queue, c) # <<>>
    BY Sizes, Appended
  <1>3. queue' # <<>> /\ access' = "idle" => queue # <<>> /\ access = "idle"
    BY EnqueueWakes
  <1> QED
    BY <1>1, <1>2, <1>3 DEF WakeInv

\* A call returns that nothing waits for.
LEMMA ReturnWakes ==
    ASSUME IInv, WakeInv, ctl # <<>>, Head(ctl).f \notin {"tail", "dequeue"},
           \/ Head(ctl).f # "pending"
           \/ queue # <<>>
           \/ pending = <<>>,
           ctl' = Tail(ctl), UNCHANGED <<queue, access, pending>>
    PROVE  WakeInv'
  <1>1. ctl \in Seq(Frames)
    BY Sizes
  <1>2. ASSUME queue # <<>>, access = "idle"
        PROVE  Waiting(ctl', {"tail", "dequeue"})
    BY <1>1, <1>2, WaitingBelow DEF WakeInv
  <1>3. ASSUME queue = <<>>, pending # <<>>
        PROVE  Waiting(ctl', {"tail", "dequeue", "pending"})
    <2>1. Head(ctl).f \notin {"tail", "dequeue", "pending"}
      BY <1>3
    <2> QED
      BY <1>1, <1>3, <2>1, WaitingBelow DEF WakeInv
  <1> QED
    BY <1>2, <1>3 DEF WakeInv

\* The end of the success case leads to the queue, and to the buffer when that is empty.
LEMMA TailWakes ==
    ASSUME IInv, WakeInv, EventTail
    PROVE  WakeInv'
  <1>1. /\ ctl \in Seq(Frames) /\ ctl # <<>>
        /\ UNCHANGED <<queue, access, pending>>
        /\ ctl' = IF queue # <<>> THEN <<Frame("dequeue")>> \o Tail(ctl)
                  ELSE IF MayProcessPending THEN <<Frame("pending")>> \o Tail(ctl)
                  ELSE Tail(ctl)
    BY Sizes DEF EventTail, Running, driver
  <1>2. Tail(ctl) \in Seq(Frames)
    BY <1>1, Popped
  <1>3. CASE queue # <<>>
    <2>1. Waiting(ctl', {"tail", "dequeue"})
      BY <1>1, <1>2, <1>3, StillWaiting, FrameTypes
    <2> QED
      BY <2>1, Dequeued
  <1>4. CASE queue = <<>> /\ pending # <<>>
    <2>1. MayProcessPending
      BY <1>4 DEF MayProcessPending, IInv, FlagsInv
    <2>2. Waiting(ctl', {"tail", "dequeue", "pending"})
      BY <1>1, <1>2, <1>4, <2>1, StillWaiting, FrameTypes
    <2> QED
      BY <1>1, <1>4, <2>2 DEF WakeInv
  <1>5. CASE queue = <<>> /\ pending = <<>>
    BY <1>1, <1>5 DEF WakeInv
  <1> QED
    BY <1>3, <1>4, <1>5

\* The loop of cmd_queue_dequeue starts the head, fails it and goes on, or leads to the buffer.
LEMMA DequeueWakes ==
    ASSUME IInv, WakeInv, DequeueStart \/ DequeueReturn
    PROVE  WakeInv'
  <1>0. ctl \in Seq(Frames) /\ ctl # <<>> /\ Head(ctl).f = "dequeue"
    BY Sizes DEF DequeueStart, DequeueReturn, Running
  <1>1. Tail(ctl) \in Seq(Frames) /\ Head(ctl) = ctl[1] /\ 1 \in 1 .. Len(ctl)
    BY <1>0, Popped
  <1>2. Waiting(ctl, {"tail", "dequeue"})
    BY <1>0, <1>1 DEF Waiting
  <1>3. CASE DequeueStart
    <2>1. PICK rc \in SocReturns :
          /\ cmd_process(rc)
          /\ IF rc = "fatal"
             THEN cmd_queue_fail_head(ctl)
             ELSE /\ ctl' = Tail(ctl)
                  /\ UNCHANGED <<queue, round, pending, lazy, lazyPage, processing, log>>
      BY <1>3 DEF DequeueStart
    <2>2. CASE rc = "fatal"
      <3>1. PICK x \in Frames : ctl' = <<x>> \o ctl
        <4>1. AbortFrame(Len(pending)) \in Frames /\ Frame("callback") \in Frames
          BY Sizes, FrameTypes
        <4> QED
          BY <2>1, <2>2, <4>1 DEF cmd_queue_fail_head, AbortPending
      <3>2. Waiting(ctl', {"tail", "dequeue"})
        BY <1>0, <1>2, <3>1, StillWaiting
      <3> QED
        BY <3>2, Dequeued
    <2>3. CASE rc # "fatal"
      <3>1. access' # "idle" /\ queue' # <<>>
        BY <1>3, <2>1, <2>3 DEF cmd_process, SocReturns, AccessAfter, DequeueStart
      <3> QED
        BY <3>1 DEF WakeInv
    <2> QED
      BY <2>2, <2>3
  <1>4. CASE DequeueReturn
    <2>1. /\ UNCHANGED <<queue, access, pending>>
          /\ ~(queue # <<>> /\ access = "idle")
          /\ ctl' = IF queue = <<>> /\ MayProcessPending
                    THEN <<Frame("pending")>> \o Tail(ctl) ELSE Tail(ctl)
      BY <1>4 DEF DequeueReturn, driver
    <2>2. CASE queue = <<>> /\ pending # <<>>
      <3>1. MayProcessPending
        BY <2>2 DEF MayProcessPending, IInv, FlagsInv
      <3>2. Waiting(ctl', {"tail", "dequeue", "pending"})
        BY <1>1, <2>1, <2>2, <3>1, StillWaiting, FrameTypes
      <3> QED
        BY <2>1, <3>2 DEF WakeInv
    <2>3. CASE ~(queue = <<>> /\ pending # <<>>)
      BY <2>1, <2>3 DEF WakeInv
    <2> QED
      BY <2>2, <2>3
  <1> QED
    BY <1>3, <1>4

\* process_pending_packets starts a command for the oldest packet, or aborts and dequeues.
LEMMA PendingWakes ==
    ASSUME IInv, WakeInv, PendingErase \/ PendingStore
    PROVE  WakeInv'
  <1>0. ctl \in Seq(Frames) /\ ctl # <<>> /\ pending # <<>>
    BY Sizes DEF PendingErase, PendingStore, Running
  <1>1. Tail(ctl) \in Seq(Frames) /\ Head(pending) \in Packet
    BY <1>0, Sizes, Popped
  <1>2. Head(pending).first \in Pages /\ Head(pending).last \in Pages /\ Head(pending).id \in Nat
    BY <1>1 DEF Packet
  <1>3. PICK c \in Command, ret \in EnqueueReturns :
            /\ cmd_queue_enqueue(c, ret)
            /\ ret # "success" => AbortPending(<<Frame("dequeue")>> \o Tail(ctl))
    <2>1. CASE PendingErase
      <3>1. Cmd("clear", "lazy", ErasePage(Head(pending)), ErasePage(Head(pending)), 0) \in Command
        BY <1>2, ErasePages
      <3> QED
        BY <2>1, <3>1 DEF PendingErase, lazy_erase_trigger
    <2>2. CASE PendingStore
      <3>1. Cmd("store", "pending", Head(pending).first, Head(pending).last, Head(pending).id)
            \in Command
        BY <1>2 DEF Cmd, Command
      <3> QED
        BY <2>2, <3>1 DEF PendingStore
    <2> QED
      BY <2>1, <2>2
  <1>4. CASE ret = "success"
    <2>1. queue' = Append(queue, c) /\ queue = <<>>
      BY <1>3, <1>4, EnqueueEffect DEF IInv, PendingErase, PendingStore
    <2>2. queue' # <<>>
      BY <2>1, Sizes, Appended
    <2>3. access' # "idle"
      BY <1>3, <2>1, <2>2, EnqueueWakes
    <2> QED
      BY <2>2, <2>3 DEF WakeInv
  <1>5. CASE ret # "success"
    <2>1. ctl' = <<AbortFrame(Len(pending))>> \o (<<Frame("dequeue")>> \o Tail(ctl))
      BY <1>3, <1>5 DEF AbortPending
    <2>2. /\ AbortFrame(Len(pending)) \in Frames /\ Frame("dequeue") \in Frames
          /\ Frame("dequeue").f = "dequeue"
      BY Sizes, FrameTypes
    <2>3. <<Frame("dequeue")>> \o Tail(ctl) \in Seq(Frames)
      BY <1>1, <2>2, Pushed
    <2>4. Waiting(<<Frame("dequeue")>> \o Tail(ctl), {"tail", "dequeue"})
      BY <1>1, <2>2, StillWaiting
    <2>5. Waiting(ctl', {"tail", "dequeue"})
      BY <2>1, <2>2, <2>3, <2>4, StillWaiting
    <2> QED
      BY <2>5, Dequeued
  <1> QED
    BY <1>4, <1>5

\* The event handler: what it leaves on the queue is dequeued before it returns.
LEMMA EventWakes ==
    ASSUME IInv, EventSuccess \/ EventError \/ EventRetry
    PROVE  WakeInv'
  <1>0. ctl \in Seq(Frames)
    BY Sizes
  <1>1. /\ Frame("callback") \in Frames /\ Frame("pending") \in Frames
        /\ Frame("tail") \in Frames /\ Frame("tail").f = "tail"
        /\ Frame("dequeue") \in Frames /\ Frame("dequeue").f = "dequeue"
        /\ AbortFrame(Len(pending)) \in Frames
    BY Sizes, FrameTypes
  <1>2. CASE EventSuccess
    <2>1. \/ ctl' = <<Frame("tail")>> \o ctl
          \/ \E x \in {Frame("callback"), Frame("pending")} : ctl' = <<x, Frame("tail")>> \o ctl
      BY <1>2 DEF EventSuccess, Finish
    <2>2. CASE ctl' = <<Frame("tail")>> \o ctl
      <3>1. Waiting(<<Frame("tail")>> \o ctl, {"tail", "dequeue"})
        BY <1>0, <1>1, StillWaiting
      <3> QED
        BY <2>2, <3>1, Dequeued
    <2>3. ASSUME NEW x \in {Frame("callback"), Frame("pending")},
                 ctl' = <<x, Frame("tail")>> \o ctl
          PROVE  WakeInv'
      <3>1. Waiting(<<x, Frame("tail")>> \o ctl, {"tail", "dequeue"})
        BY <1>0, <1>1, SecondWaiting
      <3> QED
        BY <2>3, <3>1, Dequeued
    <2> QED
      BY <2>1, <2>2, <2>3
  <1>3. CASE EventError
    <2>1. \E x \in {Frame("callback"), AbortFrame(Len(pending))} :
             ctl' = <<x>> \o (<<Frame("dequeue")>> \o ctl)
      BY <1>3 DEF EventError, cmd_queue_fail_head, AbortPending
    <2>2. <<Frame("dequeue")>> \o ctl \in Seq(Frames)
      BY <1>0, <1>1, Pushed
    <2>3. Waiting(<<Frame("dequeue")>> \o ctl, {"tail", "dequeue"})
      BY <1>0, <1>1, StillWaiting
    <2>4. Waiting(ctl', {"tail", "dequeue"})
      BY <1>1, <2>1, <2>2, <2>3, StillWaiting
    <2> QED
      BY <2>4, Dequeued
  <1>4. CASE EventRetry
    <2>1. Waiting(ctl', {"tail", "dequeue"})
      BY <1>0, <1>1, <1>4, StillWaiting DEF EventRetry
    <2> QED
      BY <2>1, Dequeued
  <1> QED
    BY <1>2, <1>3, <1>4

\* The loop of pending_packets_abort leaves the calls below it waiting.
LEMMA AbortWakes ==
    ASSUME IInv, WakeInv, AbortOne
    PROVE  WakeInv'
  <1>u. /\ Running("abort") /\ Head(ctl).n > 0 /\ pending # <<>>
        /\ ctl' = <<Frame("callback"), AbortFrame(Head(ctl).n - 1)>> \o Tail(ctl)
        /\ UNCHANGED <<queue, access>>
    BY DEF AbortOne
  <1>0. ctl \in Seq(Frames) /\ ctl # <<>> /\ Head(ctl).f = "abort" /\ queue = <<>>
    BY <1>u, Sizes, AbortFrameOnTop DEF Running
  <1>1. Tail(ctl) \in Seq(Frames) /\ Head(ctl) \in Frames
    BY <1>0, Popped
  <1>2. Head(ctl).n - 1 \in Nat
    BY <1>1, <1>u DEF Frames
  <1>3. AbortFrame(Head(ctl).n - 1) \in Frames /\ Frame("callback") \in Frames
    BY <1>2, FrameTypes
  <1>4. Waiting(ctl, {"tail", "dequeue", "pending"})
    BY <1>u, <1>0 DEF WakeInv
  <1>5. Waiting(Tail(ctl), {"tail", "dequeue", "pending"})
    BY <1>0, <1>4, WaitingBelow
  <1>6. /\ <<AbortFrame(Head(ctl).n - 1)>> \o Tail(ctl) \in Seq(Frames)
        /\ Waiting(<<AbortFrame(Head(ctl).n - 1)>> \o Tail(ctl), {"tail", "dequeue", "pending"})
    BY <1>1, <1>3, <1>5, Pushed, StillWaiting
  <1>7. ctl' = <<Frame("callback")>> \o (<<AbortFrame(Head(ctl).n - 1)>> \o Tail(ctl))
    BY <1>u, <1>1, <1>3
  <1>8. Waiting(ctl', {"tail", "dequeue", "pending"})
    BY <1>3, <1>6, <1>7, StillWaiting
  <1> QED
    BY <1>u, <1>0, <1>8 DEF WakeInv

\* Every step leaves the queue and the buffer with something to drive them.
LEMMA WakeStep ==
    ASSUME IInv, WakeInv, [Next]_vars
    PROVE  WakeInv'
  <1>1. ASSUME NEW r \in Stores, pstorage_store(r)
        PROVE  WakeInv'
    <2>1. r.first \in Pages /\ r.last \in Pages /\ NewId \in Nat
      BY RequestPages, Sizes DEF NewId
    <2>2. CASE StoreBuffered(r)
      <3>1. UNCHANGED <<queue, access, ctl>> /\ Buffering
        BY <2>2 DEF StoreBuffered
      <3>2. queue = <<>> => pending # <<>>
        BY <3>1 DEF Buffering, IInv, FlagsInv
      <3> QED
        BY <3>1, <3>2 DEF WakeInv
    <2>3. CASE StoreStartsErase(r)
      <3>1. Cmd("clear", "lazy", ErasePage(r), ErasePage(r), 0) \in Command
        BY <2>1, ErasePages
      <3>2. PICK ret \in EnqueueReturns :
               /\ cmd_queue_enqueue(Cmd("clear", "lazy", ErasePage(r), ErasePage(r), 0), ret)
               /\ pending' = pending \/ ret = "success"
        BY <2>3 DEF StoreStartsErase, lazy_erase_trigger
      <3> QED
        BY <2>3, <3>1, <3>2, RequestWakes DEF StoreStartsErase
    <2>4. CASE StoreDirect(r)
      <3>1. Cmd("store", "none", r.first, r.last, NewId) \in Command
        BY <2>1 DEF Cmd, Command
      <3> QED
        BY <2>4, <3>1, RequestWakes DEF StoreDirect
    <2> QED
      BY <1>1, <2>2, <2>3, <2>4 DEF pstorage_store
  <1>2. ASSUME NEW r \in Clears, pstorage_clear(r)
        PROVE  WakeInv'
    <2>1. r.first \in Pages /\ r.last \in Pages /\ NewId \in Nat
      BY RequestPages, Sizes DEF NewId
    <2>2. Cmd("clear", "none", r.first, r.last, NewId) \in Command
      BY <2>1 DEF Cmd, Command
    <2> QED
      BY <1>2, <2>2, RequestWakes DEF pstorage_clear
  <1>3. CASE EventSuccess \/ EventError \/ EventRetry
    BY <1>3, EventWakes
  <1>4. CASE EventIgnored \/ ForeignStart \/ UNCHANGED vars
    BY <1>4 DEF EventIgnored, ForeignStart, vars, driver, WakeInv
  <1>5. CASE CallbackReturn \/ PendingReturn \/ AbortReturn
    <2>1. /\ ctl # <<>> /\ Head(ctl).f \notin {"tail", "dequeue"}
          /\ ctl' = Tail(ctl) /\ UNCHANGED <<queue, access, pending>>
      BY <1>5 DEF CallbackReturn, PendingReturn, AbortReturn, Running, driver
    <2>2. Head(ctl).f = "pending" => queue # <<>> \/ pending = <<>>
      BY <1>5 DEF CallbackReturn, PendingReturn, AbortReturn, Running, IInv, FlagsInv
    <2> QED
      BY <2>1, <2>2, ReturnWakes
  <1>6. CASE EventTail
    BY <1>6, TailWakes
  <1>7. CASE DequeueStart \/ DequeueReturn
    BY <1>7, DequeueWakes
  <1>8. CASE PendingErase \/ PendingStore
    BY <1>8, PendingWakes
  <1>9. CASE AbortOne
    BY <1>9, AbortWakes
  <1> QED
    BY <1>1, <1>2, <1>3, <1>4, <1>5, <1>6, <1>7, <1>8, <1>9
       DEF Next, proc_soc, Internal, Drained

\* For every number of pages, queue and buffer size and mix of requests: when no C call
\* is left to run, a queued command has a flash operation whose event will drive it and
\* buffered packets have a queued command, so accepted work is never stranded.
THEOREM NeverStranded == Spec => []NoLostWakeup
  <1>1. Init => WakeInv
    BY DEF Init, WakeInv
  <1>2. IInv /\ WakeInv /\ [Next]_vars => WakeInv'
    BY WakeStep
  <1>3. IInv /\ FInv /\ WakeInv => NoLostWakeup
    <2> SUFFICES ASSUME IInv, FInv, WakeInv, ctl = <<>>
                 PROVE  /\ queue # <<>> =>
                              <<access, soc>> \in {<<"in_flight", "ours">>, <<"wait_busy", "foreign">>}
                        /\ pending # <<>> => queue # <<>>
      BY DEF NoLostWakeup
    <2>1. \A F : ~Waiting(ctl, F)
      BY DEF Waiting
    <2>2. pending # <<>> => queue # <<>>
      BY <2>1 DEF WakeInv
    <2>3. queue # <<>> => access # "idle"
      BY <2>1 DEF WakeInv
    <2>4. access \in {"idle", "in_flight", "wait_busy"}
      BY DEF IInv, TypeOK
    <2> QED
      BY <2>2, <2>3, <2>4 DEF FInv, SocInv
  <1> QED
    BY <1>1, <1>2, <1>3, FlashInvariance, PTL DEF Spec
=============================================================================
