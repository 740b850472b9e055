--------------------------- MODULE BatchDownload ----------------------------
(***************************************************************************)
(* Downloads from the remote tier (once-cas/src/tuist/flights.rs and       *)
(* tuist/cache/batch_download).  Readers ask for blobs one by one or in    *)
(* windows; the flight of a digest admits one of them at a time, and moves *)
(* into the request that is queued for a batch.  A batch is read by a task *)
(* of its own; a request leaves it when its reader goes away, and falls    *)
(* back to a stream when the batch cannot serve it.                        *)
(*                                                                         *)
(* The staging and memory budgets and the transfer permit are acquired in  *)
(* one order and dropped together: one pool of transfers stands for them.  *)
(***************************************************************************)
EXTENDS Integers, Sequences, FiniteSetsExt

LOCAL INSTANCE SequencesExt

CONSTANTS
  Asks,          \* the digests each reader asks for; a digest is a number
  Ways,          \* how it asks: "prefetch", or "ensure" for one
  BlobBytes,     \* size of a blob
  BatchLimit,         \* batch_download_limit, of a service that supports batches
  MAX_PENDING,
  Transfers,     \* transfers the budgets admit at once
  MaxUpsets      \* bound: failing calls, and readers that go away

Readers == DOMAIN Asks
Digests == UNION {Range(Asks[r]) : r \in Readers}

VARIABLES
  local,         \* blobs of the local tier
  flight,        \* the reader that holds the flight of a digest, itself or by its request
  reader,
  download,      \* where the PendingDownload of a reader for a digest is
  slotQueue,     \* readers that wait for slots
  queue,         \* BatchDownloads.pending
  workers,       \* tasks of start_download_batch that have not run
  batches,       \* batches that are read
  unsupported, upsets

downloadVars ==
  <<local, flight, reader, download, slotQueue, queue, workers, batches, unsupported, upsets>>

NoReader == 0

\* The digests of the window a reader has to look at, of the windows after it, the
\* ones it holds flights for, and the ones it waits for.
NewReader == [pc |-> "idle", todo |-> <<>>, rest |-> <<>>, prepared |-> {}, awaited |-> {},
              batched |-> FALSE]

DownloadInit ==
  /\ local = {} /\ flight = [d \in Digests |-> NoReader]
  /\ reader = [r \in Readers |-> NewReader]
  /\ download = [x \in Readers \X Digests |-> "none"]
  /\ slotQueue = <<>> /\ queue = <<>> /\ workers = 0 /\ batches = {}
  /\ unsupported \in BOOLEAN /\ upsets = 0

Upset == upsets < MaxUpsets /\ upsets' = upsets + 1
ReaderAt(r, pc) == reader[r].pc = pc

\* Every request holds a slot.
Downloads == {x \in Readers \X Digests : download[x] # "none"}

\* The reader no longer listens.
is_closed(x) == x[2] \notin reader[x[1]].awaited

TransferFree ==
  Cardinality({b \in batches : b.pc # "admit"})
    + Cardinality({x \in Downloads : download[x] = "stream"})
    + Cardinality({r \in Readers : ReaderAt(r, "transfer")}) < Transfers

------------------------------------------------------------------------------
(* A reader *)

\* Mutant of Window: digests are taken in the order of the list.
WindowAsListed(s) == SubSeq(s, 1, Min({MAX_PENDING, Len(s)}))

\* Overlapping windows acquire flights in one order.
Window(s) == SetToSortSeq(Range(SubSeq(s, 1, Min({MAX_PENDING, Len(s)}))), <)

\* The next window, or the end.
NextWindow(rest) ==
  IF rest = <<>> THEN [NewReader EXCEPT !.pc = "ok"]
  ELSE [NewReader EXCEPT !.pc = "look", !.todo = Window(rest),
                         !.rest = SubSeq(rest, MAX_PENDING + 1, Len(rest))]

\* ensure_blob_local_guarded transfers a blob itself when it does not fit a batch.
Alone(r, q) ==
  Ways[r] = "ensure" /\ (unsupported \/ BlobBytes[Min(q.prepared)] > BatchLimit)

\* After a digest: the next one, or the download of what was prepared.
AfterDigest(r, q) ==
  IF q.todo # <<>> THEN [q EXCEPT !.pc = "look"]
  ELSE IF q.prepared = {} THEN NextWindow(q.rest)
  ELSE IF Alone(r, q) THEN [q EXCEPT !.pc = "admit"]
  ELSE [q EXCEPT !.pc = "slots", !.batched = ~unsupported]

Update(r, q) ==
  /\ reader' = [reader EXCEPT ![r] = q]
  /\ slotQueue' = IF q.pc = "slots" THEN Append(slotQueue, r) ELSE slotQueue

Begin(r) ==
  /\ ReaderAt(r, "idle")
  /\ Update(r, NextWindow(Asks[r]))
  /\ UNCHANGED <<local, flight, download, queue, workers, batches, unsupported, upsets>>

Look(r) ==
  /\ ReaderAt(r, "look")
  /\ LET q == reader[r] IN
       Update(r, IF Head(q.todo) \in local THEN AfterDigest(r, [q EXCEPT !.todo = Tail(@)])
                 ELSE [q EXCEPT !.pc = "flight"])
  /\ UNCHANGED <<local, flight, download, queue, workers, batches, unsupported, upsets>>

\* Mutant of Flights: the flights of its requests as well.
FlightsOfAll(r) == [d \in Digests |-> IF flight[d] = r THEN NoReader ELSE flight[d]]

\* A reader that ends gives up the flights it still holds itself.
Flights(r) == [d \in Digests |-> IF d \in reader[r].prepared THEN NoReader ELSE flight[d]]

\* Flights::acquire, and the second look; reading the remote digest may fail.
AcquireFlight(r) ==
  /\ ReaderAt(r, "flight")
  /\ LET q == reader[r]
         d == Head(q.todo)
     IN /\ flight[d] = NoReader
        /\ \/ /\ d \in local
              /\ Update(r, AfterDigest(r, [q EXCEPT !.todo = Tail(@)]))
              /\ UNCHANGED <<flight, upsets>>
           \/ /\ d \notin local
              /\ flight' = [flight EXCEPT ![d] = r]
              /\ Update(r, AfterDigest(r, [q EXCEPT !.todo = Tail(@), !.prepared = @ \cup {d}]))
              /\ UNCHANGED upsets
           \/ /\ d \notin local /\ Upset
              /\ flight' = Flights(r)
              /\ Update(r, [NewReader EXCEPT !.pc = "failed"])
  /\ UNCHANGED <<local, download, queue, workers, batches, unsupported>>

\* enqueue_downloads, once the slots of the whole window are granted.  A worker
\* is started only for a queue that was empty.
enqueue_downloads(r) ==
  LET q == reader[r]
      fits == {d \in q.prepared : q.batched /\ BlobBytes[d] <= BatchLimit}
      sorted == SetToSortSeq(fits, <)
      new == [i \in DOMAIN sorted |-> <<r, sorted[i]>>]
  IN /\ slotQueue # <<>> /\ r = Head(slotQueue)
     /\ Cardinality(Downloads) + Cardinality(q.prepared) <= MAX_PENDING
     /\ slotQueue' = Tail(slotQueue)
     /\ download' = [x \in Readers \X Digests |->
                      IF x \in {r} \X fits THEN "queued"
                      ELSE IF x \in {r} \X q.prepared THEN "retry" ELSE download[x]]
     /\ queue' = queue \o new
     /\ workers' = IF queue = <<>> /\ new # <<>> THEN workers + 1 ELSE workers
     /\ reader' = [reader EXCEPT ![r] = [@ EXCEPT !.pc = "wait", !.awaited = q.prepared,
                                                  !.prepared = {}]]
     /\ UNCHANGED <<local, flight, batches, unsupported, upsets>>

\* A reader that transfers a blob itself: stream_remote_blob, which retries.
TransferAlone(r) ==
  /\ ReaderAt(r, "admit") /\ TransferFree
  /\ reader' = [reader EXCEPT ![r].pc = "transfer"]
  /\ UNCHANGED <<local, flight, download, slotQueue, queue, workers, batches, unsupported, upsets>>

TransferredAlone(r) ==
  /\ ReaderAt(r, "transfer")
  /\ flight' = Flights(r)
  /\ \/ local' = local \cup reader[r].prepared /\ Update(r, NextWindow(reader[r].rest))
        /\ UNCHANGED upsets
     \/ Upset /\ Update(r, [NewReader EXCEPT !.pc = "failed"]) /\ UNCHANGED local
  /\ UNCHANGED <<download, queue, workers, batches, unsupported>>

\* The reader's future is dropped.
GoAway(r) ==
  /\ reader[r].pc \notin {"idle", "ok", "failed", "gone"} /\ Upset
  /\ flight' = Flights(r)
  /\ reader' = [reader EXCEPT ![r] = [NewReader EXCEPT !.pc = "gone"]]
  /\ slotQueue' = SelectSeq(slotQueue, LAMBDA q : q # r)
  /\ UNCHANGED <<local, download, queue, workers, batches, unsupported>>
------------------------------------------------------------------------------
(* Requests and batches *)

\* Requests that are answered or dropped give up their flights and slots.  A reader
\* goes on when the last answer of its window is there, and fails with the first
\* error, which closes its other requests.
Reply(ok, err, dropped) ==
  LET over == ok \cup err \cup dropped
      left(r) == {d \in reader[r].awaited : <<r, d>> \notin ok}
  IN /\ download' = [x \in Readers \X Digests |-> IF x \in over THEN "none" ELSE download[x]]
     /\ flight' = [d \in Digests |->
                     IF \E r \in Readers : <<r, d>> \in over THEN NoReader ELSE flight[d]]
     /\ reader' = [r \in Readers |->
                     IF \E x \in err : x[1] = r /\ ~is_closed(x) THEN [NewReader EXCEPT !.pc = "failed"]
                     ELSE IF left(r) = reader[r].awaited THEN reader[r]
                     ELSE IF left(r) = {} THEN NextWindow(reader[r].rest)
                     ELSE [reader[r] EXCEPT !.awaited = left(r)]]

\* start_download_batch takes from the front what fits the limit, without the
\* requests nobody waits for.
OpenBytes(n) == MapThenSumSet(LAMBDA i : BlobBytes[queue[i][2]], {i \in 1..n : ~is_closed(queue[i])})
Taken == Max({n \in 0..Len(queue) : OpenBytes(n) <= BatchLimit})

\* Another worker takes what is left.
start_download_batch ==
  LET front == SubSeq(queue, 1, Taken)
      open == SelectSeq(front, LAMBDA x : ~is_closed(x))
  IN /\ workers > 0
     /\ queue' = SubSeq(queue, Taken + 1, Len(queue))
     /\ workers' = IF queue' = <<>> THEN workers - 1 ELSE workers
     /\ batches' = batches \cup IF open = <<>> THEN {}
                               ELSE {[requests |-> open, pc |-> "admit", retries |-> {}]}
     /\ Reply({}, {}, {x \in Range(front) : is_closed(x)})
     /\ UNCHANGED <<local, slotQueue, unsupported, upsets>>

Become(b, c) == batches' = (batches \ {b}) \cup {c}

\* read_download_batch waits for its budgets, and for the answer.
ReadBatch(b) ==
  /\ b.pc = "admit" /\ TransferFree
  /\ Become(b, [b EXCEPT !.pc = "read"])
  /\ UNCHANGED <<local, flight, reader, download, slotQueue, queue, workers, unsupported, upsets>>

\* next_cancelled: a batch without readers is abandoned.
DropCancelled(b) ==
  /\ b.pc \in {"admit", "read"}
  /\ \E x \in Range(b.requests) :
       /\ is_closed(x)
       /\ LET rest == SelectSeq(b.requests, LAMBDA y : y # x) IN
          IF rest = <<>> THEN batches' = batches \ {b} ELSE Become(b, [b EXCEPT !.requests = rest])
       /\ Reply({}, {}, {x})
  /\ UNCHANGED <<local, slotQueue, queue, workers, unsupported, upsets>>

\* The service does not know the call: every request is streamed, now and later.
BatchUnsupported(b) ==
  /\ b.pc = "read" /\ Upset
  /\ unsupported' = TRUE
  /\ batches' = batches \ {b}
  /\ download' = [x \in Readers \X Digests |-> IF x \in Range(b.requests) THEN "retry" ELSE download[x]]
  /\ UNCHANGED <<local, flight, reader, slotQueue, queue, workers>>

BatchFails(b) ==
  /\ b.pc = "read" /\ Upset
  /\ batches' = batches \ {b}
  /\ Reply({}, Range(b.requests), {})
  /\ UNCHANGED <<local, slotQueue, queue, workers, unsupported>>

BatchAnswered(b) ==
  /\ b.pc = "read"
  /\ Become(b, [b EXCEPT !.pc = "ingest"])
  /\ UNCHANGED <<local, flight, reader, download, slotQueue, queue, workers, unsupported, upsets>>

\* The blobs of an answer one after the other: mirrored, missing or corrupt, or
\* with a status of its own, which is retried later.
Ingest(b) ==
  /\ b.pc = "ingest" /\ b.requests # <<>>
  /\ LET x == Head(b.requests)
         c == [b EXCEPT !.requests = Tail(@)]
     IN \/ is_closed(x) /\ Become(b, c) /\ Reply({}, {}, {x}) /\ UNCHANGED <<local, upsets>>
        \/ /\ ~is_closed(x) /\ Become(b, c)
           /\ local' = local \cup {x[2]} /\ Reply({x}, {}, {}) /\ UNCHANGED upsets
        \/ ~is_closed(x) /\ Become(b, c) /\ Upset /\ Reply({}, {x}, {}) /\ UNCHANGED local
        \/ /\ ~is_closed(x) /\ Upset /\ Become(b, [c EXCEPT !.retries = @ \cup {x}])
           /\ UNCHANGED <<local, flight, reader, download>>
  /\ UNCHANGED <<slotQueue, queue, workers, unsupported>>

\* The batch gives its budgets back before the retries ask for theirs.
Ingested(b) ==
  /\ b.pc = "ingest" /\ b.requests = <<>>
  /\ batches' = batches \ {b}
  /\ download' = [x \in Readers \X Digests |-> IF x \in b.retries THEN "retry" ELSE download[x]]
  /\ UNCHANGED <<local, flight, reader, slotQueue, queue, workers, unsupported, upsets>>

\* retry_downloads: one stream for each download, dropped with its reader.
retry_downloads(x) ==
  /\ \/ /\ download[x] \in {"retry", "stream"} /\ is_closed(x)
        /\ Reply({}, {}, {x}) /\ UNCHANGED <<local, upsets>>
     \/ /\ download[x] = "retry" /\ ~is_closed(x) /\ TransferFree
        /\ download' = [download EXCEPT ![x] = "stream"]
        /\ UNCHANGED <<local, flight, reader, upsets>>
     \/ /\ download[x] = "stream" /\ ~is_closed(x)
        /\ local' = local \cup {x[2]} /\ Reply({x}, {}, {}) /\ UNCHANGED upsets
     \/ download[x] = "stream" /\ ~is_closed(x) /\ Upset /\ Reply({}, {x}, {}) /\ UNCHANGED local
  /\ UNCHANGED <<slotQueue, queue, workers, batches, unsupported>>

------------------------------------------------------------------------------
DownloadProgress ==
  \/ \E r \in Readers : \/ Look(r) \/ AcquireFlight(r) \/ enqueue_downloads(r)
                         \/ TransferAlone(r) \/ TransferredAlone(r)
  \/ start_download_batch
  \/ \E b \in batches : \/ ReadBatch(b) \/ DropCancelled(b) \/ BatchUnsupported(b) \/ BatchFails(b)
                         \/ BatchAnswered(b) \/ Ingest(b) \/ Ingested(b)
  \/ \E x \in Readers \X Digests : retry_downloads(x)

DownloadNext == DownloadProgress \/ \E r \in Readers : Begin(r) \/ GoAway(r)

\* A blob is transferred by one reader or request at a time, and by none once it is
\* here, although its reader may go away while the transfer goes on
\* (Flights::acquire and PendingDownload._flight).
OneTransfer ==
  \A d \in Digests :
    LET transfers == {x \in Downloads : x[2] = d}
                       \cup {<<r, d>> : r \in {q \in Readers : d \in reader[q].prepared}}
    IN Cardinality(transfers) <= IF d \in local THEN 0 ELSE 1

\* While a reader that stays is without its blobs or an error, some task can go on:
\* no order of flights, slots, batches, fallbacks and readers that go away leaves
\* them all waiting.  (No step of DownloadProgress leads back, so readers return.)
NoReaderStuck ==
  \/ \A r \in Readers : reader[r].pc \in {"idle", "ok", "failed", "gone"}
  \/ ENABLED DownloadProgress
=============================================================================
