---------------------------- MODULE EventSession ----------------------------
(***************************************************************************)
(* The client side of one run's event stream (once-events-client): the     *)
(* EventSession, its RingBuffer of unacknowledged events and its           *)
(* LossIntervals, as operators on a session record.  EventTransport drives *)
(* them.                                                                   *)
(*                                                                         *)
(* Loss is kept per sequence number, as pairs <<seq, reason>>; the         *)
(* intervals of the code are its maximal runs (LossIntervals shows that    *)
(* the BTreeMap of the code represents exactly such a set).  Events carry  *)
(* a sequence number and an encoded size, nothing else.                    *)
(***************************************************************************)
EXTENDS Integers, Sequences, FiniteSets, Saturating

CONSTANTS
  OrdinaryCapacity, \* SessionLimits.ordinary_capacity
  MaxEventsPerBatch,\* SessionLimits.max_events_per_batch
  MaxEventBytes,    \* SessionLimits.max_event_bytes
  MaxBatchBytes,    \* SessionLimits.max_batch_bytes, without the batch header
  MaxUnackedBytes,  \* SessionLimits.max_unacked_bytes
  LogFragments,     \* fragments of the largest log chunk the bus carries
  GapBytes          \* encoded size of one GapAdvance

ASSUME LimitsAssumption ==
  /\ OrdinaryCapacity \in Nat
  /\ MaxEventsPerBatch \in Nat
  /\ MaxEventBytes \in Nat \ {0}
  /\ MaxBatchBytes \in Nat
  /\ MaxEventBytes <= MaxBatchBytes
  /\ MaxUnackedBytes \in Nat
  /\ MaxEventBytes <= MaxUnackedBytes
  /\ LogFragments \in Nat \ {0}
  /\ GapBytes \in Nat \ {0}
  /\ GapBytes <= MaxBatchBytes

NoSeq == 0   \* an empty finalizing or terminal slot

Reasons == {"oversized_event", "buffer_overflow", "buffer_byte_limit"}

\* EventSession::new
NewSession == [next |-> 1, acked |-> 1, started |-> FALSE,
               ring |-> <<>>, finalizing |-> NoSeq, terminal |-> NoSeq,
               loss |-> {}, finalized |-> FALSE,
               dropped |-> 0, dirty |-> FALSE, lastSent |-> 0, panicked |-> FALSE]

-----------------------------------------------------------------------------
(* The ring *)

\* Encoded size of the first n entries of a sequence of entries.
BytesUpTo(r, n) ==
  LET bytes[i \in 0..n] == IF i = 0 THEN 0 ELSE bytes[i - 1] + r[i].size
  IN  bytes[n]
Bytes(r) == BytesUpTo(r, Len(r))

\* An event of the given size can be placed once the k oldest are dropped.
HasRoom(r, size, k) ==
  /\ Len(r) - k < AtLeastOne(OrdinaryCapacity)
  /\ Bytes(r) - BytesUpTo(r, k) + size <= MaxUnackedBytes

\* RingBuffer::push_ordinary drops no more than it must.
Dropped(r, size) ==
  CHOOSE k \in 0..Len(r) : /\ HasRoom(r, size, k)
                           /\ \A j \in 0..(k - 1) : ~HasRoom(r, size, j)

Placed(r, e) == Append(SubSeq(r, Dropped(r, e.size) + 1, Len(r)), e)

-----------------------------------------------------------------------------
(* Loss *)

Lost(s) == {l[1] : l \in s.loss}

\* LossIntervals::record, with its assertion that no sequence number is lost
\* for two different reasons.
Record(s, first, last, reason) ==
  [s EXCEPT !.loss = @ \cup ((first..last) \X {reason}),
            !.panicked = @ \/ \E l \in s.loss : l[1] \in first..last /\ l[2] # reason]

\* The interval that starts at lost sequence number f: the maximal run of one
\* reason.
IsInterval(s, f, g) ==
  \E r \in Reasons :
    /\ f <= g
    /\ \A q \in f..g : <<q, r>> \in s.loss
    /\ <<f - 1, r>> \notin s.loss
    /\ <<g + 1, r>> \notin s.loss

\* Mutant of GapsBefore: a gap's last sequence number is one too far.
GapsOneTooFar(s, before) ==
  LET firsts == {f \in Lost(s) : \E g \in Lost(s) : IsInterval(s, f, g) /\ g < before}
      last(f) == CHOOSE g \in Lost(s) : IsInterval(s, f, g)
      nth(i)  == CHOOSE f \in firsts : Cardinality({h \in firsts : h < f}) = i - 1
  IN  [i \in 1..Cardinality(firsts) |-> <<nth(i), last(nth(i)) + 1>>]

\* LossIntervals::snapshot_before: the intervals before a sequence number, in
\* order.
GapsBefore(s, before) ==
  LET firsts == {f \in Lost(s) : \E g \in Lost(s) : IsInterval(s, f, g) /\ g < before}
      last(f) == CHOOSE g \in Lost(s) : IsInterval(s, f, g)
      nth(i)  == CHOOSE f \in firsts : Cardinality({h \in firsts : h < f}) = i - 1
  IN  [i \in 1..Cardinality(firsts) |-> <<nth(i), last(nth(i))>>]

-----------------------------------------------------------------------------
(* Pushing *)

\* EventSession::can_receive
can_receive(s) ==
  /\ Len(s.ring) < AtLeastOne(OrdinaryCapacity \div 2)
  /\ Bytes(s.ring) <= Minus(MaxUnackedBytes, MaxEventBytes * LogFragments)

record_producer_loss(s, n) == [s EXCEPT !.dropped = @ + n, !.dirty = TRUE]

\* RingBuffer::push_ordinary and the loss its outcome causes; the session has
\* already minted the event's sequence number.
PushRing(s, e) ==
  LET k == Dropped(s.ring, e.size)
      n == [s EXCEPT !.ring = Placed(@, e)]
  IN  IF e.size > MaxUnackedBytes THEN Record(s, e.seq, e.seq, "buffer_byte_limit")
      ELSE IF k = 0 THEN n
      ELSE Record(n, s.ring[1].seq, s.ring[k].seq, "buffer_overflow")

\* EventSession::push_event for anything but the first RunStarted.
push_event(s, size) ==
  LET n == [s EXCEPT !.next = @ + 1] IN
  IF s.finalized THEN s
  ELSE IF size > MaxEventBytes THEN Record(n, s.next, s.next, "oversized_event")
  ELSE PushRing(n, [seq |-> s.next, size |-> size])

\* EventSession::push_event for RunStarted: as the first event it has a slot
\* of its own.
PushStarted(s, size) ==
  IF s.next = 1 /\ ~s.finalized THEN [s EXCEPT !.next = 2, !.started = TRUE]
  ELSE push_event(s, size)

\* EventSession::push_terminal mints the finalizing and the terminal event.
push_terminal(s) ==
  IF s.finalized THEN s
  ELSE [s EXCEPT !.finalizing = IF @ = NoSeq THEN s.next ELSE @,
                 !.terminal = s.next + 1,
                 !.next = @ + 2,
                 !.finalized = TRUE]

-----------------------------------------------------------------------------
(* Batches *)

\* RingBuffer::snapshot_up_to: what is pending, oldest first.
Slot(q) == IF q = NoSeq THEN <<>> ELSE <<[seq |-> q, size |-> 1]>>
Pending(s) == s.ring \o Slot(s.finalizing) \o Slot(s.terminal)
Snapshot(s) ==
  SubSeq(Pending(s), 1, Least(Len(Pending(s)), AtLeastOne(MaxEventsPerBatch)))

\* How many events of a snapshot follow each other without a gap.
ContiguousTo(e) ==
  CHOOSE n \in 0..Len(e) :
    /\ \A i \in 2..n : e[i].seq = e[i - 1].seq + 1
    /\ n = Len(e) \/ (n > 0 /\ e[n + 1].seq # e[n].seq + 1)

\* How many of the first n events fit a batch that already carries g gaps.
FittingTo(e, n, g) ==
  CHOOSE k \in 0..n :
    /\ g * GapBytes + BytesUpTo(e, k) <= MaxBatchBytes
    /\ k = n \/ g * GapBytes + BytesUpTo(e, k + 1) > MaxBatchBytes

FittingGaps(n) == Least(n, MaxBatchBytes \div GapBytes)

\* A batch carries gaps, then events from..to (none when to < from).
Batch(s, gaps, from, to) ==
  [gaps |-> gaps, from |-> from, to |-> to, dropped |-> s.dropped,
   ends |-> s.terminal # NoSeq /\ s.terminal <= to]

\* EventSession::next_batch: the batch it composes, as a set of at most one.
next_batch(s) ==
  LET events == Snapshot(s)
      first  == IF events = <<>> THEN s.next ELSE events[1].seq
      gaps   == GapsBefore(s, first)
      g      == FittingGaps(Len(gaps))
      to     == first + FittingTo(events, ContiguousTo(events), g) - 1
  IN  IF s.next = 1 THEN {}
      ELSE IF s.started THEN {Batch(s, <<>>, 1, 1)}
      ELSE IF events = <<>> /\ gaps = <<>> /\ ~s.dirty THEN {}
      ELSE IF g < Len(gaps)
        THEN LET from == IF g = 0 THEN s.acked ELSE gaps[g][2] + 1
             IN  {Batch(s, SubSeq(gaps, 1, g), from, from - 1)}
      ELSE {Batch(s, gaps, first, to)}

\* next_batch also notes the producer loss the batch reports.
NoteSent(s) == [s EXCEPT !.lastSent = s.dropped]

-----------------------------------------------------------------------------
(* Acknowledgements *)

\* Mutant of Acknowledge: acknowledged loss is kept.
AcknowledgeKeepingLoss(s, q) ==
  [s EXCEPT !.started = @ /\ q < 1,
            !.ring = SelectSeq(@, LAMBDA e : e.seq > q),
            !.finalizing = IF @ <= q THEN NoSeq ELSE @,
            !.terminal = IF @ <= q THEN NoSeq ELSE @]

\* EventSession::acknowledge_up_to
Acknowledge(s, q) ==
  [s EXCEPT !.started = @ /\ q < 1,
            !.ring = SelectSeq(@, LAMBDA e : e.seq > q),
            !.finalizing = IF @ <= q THEN NoSeq ELSE @,
            !.terminal = IF @ <= q THEN NoSeq ELSE @,
            !.loss = {l \in @ : l[1] > q}]

\* The validity check shared by handle_ack and handle_get_run_ack: the server
\* is neither ahead of what was minted nor behind what it acknowledged.
ValidAck(s, expected) == expected <= s.next /\ expected >= s.acked

\* Mutant of AckAccepted: producer loss is reported again and again.
AckNeverClean(s, expected) ==
  Acknowledge([s EXCEPT !.acked = expected], expected - 1)

\* handle_ack of an accepted batch
AckAccepted(s, expected) ==
  [Acknowledge([s EXCEPT !.acked = expected], expected - 1)
     EXCEPT !.dirty = s.dropped > s.lastSent]

\* handle_ack of a batch rejected as stale
AckStale(s, expected) == Acknowledge([s EXCEPT !.acked = expected], expected - 1)

\* handle_get_run_ack
AckProbe(s, expected) ==
  Acknowledge([s EXCEPT !.acked = expected, !.dirty = s.dropped > 0], expected - 1)

\* Mutant of is_drained: unreported producer loss is forgotten.
DrainedIfEmpty(s) ==
  /\ ~s.started
  /\ s.ring = <<>> /\ s.finalizing = NoSeq /\ s.terminal = NoSeq
  /\ s.loss = {}

is_drained(s) ==
  /\ ~s.started
  /\ s.ring = <<>> /\ s.finalizing = NoSeq /\ s.terminal = NoSeq
  /\ s.loss = {}
  /\ ~s.dirty
=============================================================================
