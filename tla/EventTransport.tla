--------------------------- MODULE EventTransport ---------------------------
(***************************************************************************)
(* Delivery of a run's events: the producer's bounded broadcast bus, the   *)
(* transport task of once-events-client (drive, prime_stream, run_session, *)
(* drain_bus) with its EventSession, the stream between client and server, *)
(* and the event service.  The service is not part of the repository: it   *)
(* is modelled from the protocol of rfcs/0008 that the client is written   *)
(* against, and marked external.                                           *)
(*                                                                         *)
(* A stream may break at any point, before or after the service handled    *)
(* the batch; a batch of a broken stream may still be handled later.       *)
(***************************************************************************)
EXTENDS EventSession

CONSTANTS
  BusCapacity,   \* events the broadcast channel retains for a slow receiver
  MaxAttempts,   \* ReconnectPolicy.max_attempts
  HasShutdown,   \* whether the caller passed a shutdown channel
  HasCancel,     \* whether the run may be cancelled
  MaxPublished,  \* bound: events the producer publishes
  MaxBreaks,     \* bound: stream, open and probe failures
  MaxSeq,        \* bound: heartbeats are pushed below this sequence number
  Payloads,      \* ordinary events the producer may publish
  NoValue           \* nothing: no batch, no budget, no verdict

ASSUME TransportAssumption ==
  /\ BusCapacity \in Nat \ {0}
  /\ MaxAttempts \in Nat \ {0}
  /\ HasShutdown \in BOOLEAN
  /\ HasCancel \in BOOLEAN
  /\ MaxPublished \in Nat
  /\ MaxBreaks \in Nat
  /\ MaxSeq \in Nat
  /\ Payloads \subseteq {"event", "wide", "big", "log"}
  /\ NoValue \notin Nat

VARIABLES
  bus, missed, closed, published, \* the channel: retained, overwritten, all senders gone
  completion,  \* when the completion the producer published is stamped
  shutdown, cancelled, stop,      \* Stop: why, and the token the task observes
  session, pushing,               \* the session; fragments of a log chunk yet to push
  startedSeen, \* started_at_ms.is_some()
  verdict,     \* result carried by the terminal event
  stage, attempt, busOpen, budget, inFlight,
  result,      \* what drive returned
  wire, acks, delayed,            \* batch and ack of the stream; batches of broken streams
  expected, projected, declared, ended, reported, \* the service's durable state
  breaks                          \* failures so far

busVars    == <<bus, missed, closed, published, completion>>
stopVars   == <<shutdown, cancelled, stop>>
loopVars   == <<stage, attempt, busOpen, budget, inFlight, result>>
netVars    == <<wire, acks, delayed>>
serverVars == <<expected, projected, declared, ended, reported>>
eventVars ==
  <<bus, missed, closed, published, completion, shutdown, cancelled, stop,
    session, pushing, startedSeen, verdict, stage, attempt, busOpen, budget,
    inFlight, result, wire, acks, delayed, expected, projected, declared,
    ended, reported, breaks>>

EventInit ==
  /\ bus = <<>> /\ missed = 0 /\ closed = FALSE /\ published = 0
  /\ completion = NoValue
  /\ shutdown = FALSE /\ cancelled = FALSE /\ stop = FALSE
  /\ session = NewSession /\ pushing = 0
  /\ startedSeen = FALSE
  /\ verdict = NoValue
  /\ stage = "prime" /\ attempt = 0 /\ busOpen = TRUE /\ budget = NoValue /\ inFlight = FALSE
  /\ result = NoValue
  /\ wire = NoValue /\ acks = NoValue /\ delayed = {}
  /\ expected = 0 /\ projected = {} /\ declared = {} /\ ended = NoValue /\ reported = 0
  /\ breaks = 0

-----------------------------------------------------------------------------
(* The producer and the signals; once drive has returned nobody reads the    *)
(* channel or the token, so their steps change nothing that matters.         *)

Listening == stage # "done"

\* RunEventBus::publish: a full channel overwrites its oldest event.
Publish(k) ==
  /\ Listening
  /\ ~closed
  /\ published < MaxPublished
  /\ published' = published + 1
  /\ IF Len(bus) < BusCapacity
       THEN bus' = Append(bus, k) /\ UNCHANGED missed
       ELSE bus' = Append(Tail(bus), k) /\ missed' = missed + 1
  /\ UNCHANGED <<closed, session, pushing, startedSeen, verdict, breaks>>
  /\ UNCHANGED <<stopVars, loopVars, netVars, serverVars>>

PublishStarted == published = 0 /\ Publish("started") /\ UNCHANGED completion
PublishOrdinary == \E k \in Payloads :
  published > 0 /\ Publish(k) /\ UNCHANGED completion

\* The completion is stamped when it is published, in milliseconds: "late" once
\* the run has been cancelled.
PublishCompleted ==
  /\ published > 0
  /\ completion = NoValue
  /\ completion' = IF cancelled THEN "late" ELSE IF shutdown THEN "afterStop" ELSE "onTime"
  /\ Publish(IF cancelled THEN "late" ELSE "completed")

CloseBus ==
  /\ Listening
  /\ ~closed
  /\ closed' = TRUE
  /\ UNCHANGED <<bus, missed, published, completion, session, pushing, startedSeen,
                 verdict, breaks>>
  /\ UNCHANGED <<stopVars, loopVars, netVars, serverVars>>

SignalShutdown ==
  /\ Listening
  /\ HasShutdown /\ ~shutdown
  /\ shutdown' = TRUE
  /\ UNCHANGED <<cancelled, stop, session, pushing, startedSeen, verdict, breaks>>
  /\ UNCHANGED <<busVars, loopVars, netVars, serverVars>>

\* RunCancellation::cancel.  A completion that was published before may have
\* been stamped in the same millisecond.
Cancel ==
  /\ Listening
  /\ HasCancel /\ ~cancelled
  /\ cancelled' = TRUE
  /\ completion' \in {completion} \cup (IF completion = NoValue THEN {} ELSE {"tied"})
  /\ UNCHANGED <<bus, missed, closed, published, shutdown, stop, session, pushing,
                 startedSeen, verdict, breaks>>
  /\ UNCHANGED <<loopVars, netVars, serverVars>>

\* drive: its select sees the signal and cancels the token.
ObserveStop ==
  /\ shutdown \/ cancelled
  /\ ~stop
  /\ Listening
  /\ stop' = TRUE
  /\ UNCHANGED <<shutdown, cancelled, session, pushing, startedSeen, verdict, breaks>>
  /\ UNCHANGED <<busVars, loopVars, netVars, serverVars>>

-----------------------------------------------------------------------------
(* The service (external) *)

\* Frontier after each gap of a batch, applied left to right from frontier e.
AfterGaps(gaps, e) ==
  LET f[i \in 0..Len(gaps)] ==
        IF i = 0 THEN e
        ELSE IF f[i - 1] > gaps[i][2] THEN f[i - 1] ELSE gaps[i][2] + 1
  IN  f

\* A gap beyond the frontier: events before it are missing.
GapAhead(gaps, e) == \E i \in 1..Len(gaps) : AfterGaps(gaps, e)[i - 1] < gaps[i][1]

Disposition(b) ==
  LET e == AfterGaps(b.gaps, expected)[Len(b.gaps)] IN
  IF expected = 0
    THEN IF b.from = 1 /\ b.to >= 1 /\ b.gaps = <<>> THEN "accepted" ELSE "invalid"
  ELSE IF GapAhead(b.gaps, expected) THEN "resync"
  ELSE IF b.to < b.from THEN (IF b.from = e THEN "accepted" ELSE "resync")
  ELSE IF b.from > e THEN "resync"
  ELSE IF (b.from..b.to) \cap declared # {} THEN "stale"
  ELSE "accepted"

\* Acceptance is atomic: gaps and new events, or nothing.
Project(b) ==
  LET old == AtLeastOne(expected)
      e   == AfterGaps(b.gaps, old)[Len(b.gaps)]
      new == IF b.to + 1 > e THEN b.to + 1 ELSE e
  IN  IF Disposition(b) = "accepted"
        THEN /\ expected' = new
             /\ declared' = declared \cup old..(e - 1)
             /\ projected' = projected \cup e..(new - 1)
             /\ ended' = IF b.ends THEN verdict ELSE ended
             /\ reported' = IF b.dropped > reported THEN b.dropped ELSE reported
        ELSE UNCHANGED serverVars

Serve ==
  /\ wire # NoValue
  /\ stage # "done"
  /\ Project(wire)
  /\ acks' = [disposition |-> Disposition(wire), expected |-> AtLeastOne(expected')]
  /\ wire' = NoValue
  /\ UNCHANGED <<delayed, session, pushing, startedSeen, verdict, breaks>>
  /\ UNCHANGED <<busVars, stopVars, loopVars>>

\* A batch of a broken stream is handled late; nobody reads the answer.
ServeDelayed ==
  /\ \E b \in delayed : Project(b) /\ delayed' = delayed \ {b}
  /\ UNCHANGED <<wire, acks, session, pushing, startedSeen, verdict, breaks>>
  /\ UNCHANGED <<busVars, stopVars, loopVars>>

-----------------------------------------------------------------------------
(* Parts of the task's steps *)

At(p) == stage = p /\ pushing = 0

\* Encoded size of an ordinary event.
Size(k) == CASE k = "wide" -> MaxEventBytes
             [] k = "big"  -> MaxEventBytes + 1
             [] OTHER      -> 1

\* covering: the cancellation was requested at or before the millisecond in
\* which the completion k was stamped.
covering(k) == k = "late" \/ (cancelled /\ completion = "tied")

\* enqueue_event: everything before RunStarted is ignored; a log chunk is
\* pushed fragment by fragment.
Enqueue(k) ==
  LET ignored == ~startedSeen /\ k # "started"
      ends    == k \in {"completed", "late"} /\ ~ignored
  IN  /\ startedSeen' = (startedSeen \/ k = "started")
      /\ pushing' = IF k = "log" /\ ~ignored /\ ~session.finalized THEN LogFragments ELSE 0
      /\ verdict' = IF ends /\ ~session.finalized
                      THEN (IF covering(k) THEN "cancelled" ELSE "completed")
                      ELSE verdict
      /\ session' = IF ignored \/ k = "log" THEN session
                    ELSE IF ends THEN push_terminal(session)
                    ELSE IF k = "started" THEN PushStarted(session, 1)
                    ELSE push_event(session, Size(k))

\* recv or try_recv of a channel that has something to give.
Recv ==
  \/ /\ missed > 0
     /\ session' = record_producer_loss(session, missed)
     /\ missed' = 0
     /\ UNCHANGED <<bus, pushing, startedSeen, verdict>>
  \/ /\ missed = 0
     /\ bus # <<>>
     /\ Enqueue(Head(bus))
     /\ bus' = Tail(bus)
     /\ UNCHANGED missed

BusEmpty == missed = 0 /\ bus = <<>>

\* complete_abandoned_run: a run that was started and not completed is ended.
Abandoned(s) == ~s.finalized /\ startedSeen
Completed(s) == IF Abandoned(s) THEN push_terminal(s) ELSE s
CompleteVerdict == verdict' =
  IF Abandoned(session) THEN (IF cancelled THEN "cancelled" ELSE "failed") ELSE verdict

Return(r) ==
  /\ stage' = "done"
  /\ result' = r
  /\ busOpen' = TRUE /\ inFlight' = FALSE
  /\ UNCHANGED <<attempt, budget>>

\* The task drops its stream: the batch on it is lost, or handled late.
DropStream ==
  /\ delayed' \in {delayed} \cup (IF wire = NoValue THEN {} ELSE {delayed \cup {wire}})
  /\ wire' = NoValue
  /\ acks' = NoValue

\* run_session returned an error that drive retries while attempts are left.
Fail(r) ==
  /\ DropStream
  /\ IF attempt + 1 < MaxAttempts
       THEN /\ stage' = "backoff" /\ attempt' = attempt + 1
            /\ busOpen' = TRUE /\ inFlight' = FALSE
            /\ UNCHANGED <<budget, result>>
       ELSE Return(r)

\* The task hands a batch to its stream.
Send(s, b) ==
  /\ wire' = b
  /\ session' = NoteSent(s)

\* The rest of an iteration of prime_stream, once the session is s: send the
\* first batch, or stop, or wait for an event.
PrimeRest(s) ==
  \/ /\ next_batch(s) # {}
     /\ \E b \in next_batch(s) : Send(s, b)
     /\ stage' = "open"
     /\ UNCHANGED <<attempt, busOpen, inFlight, result, acks, delayed>>
  \/ /\ next_batch(s) = {}
     /\ session' = s
     /\ IF stop THEN Fail("closed") /\ UNCHANGED budget
        ELSE /\ stage' = "primeWait"
             /\ UNCHANGED <<attempt, busOpen, inFlight, result>>
             /\ UNCHANGED netVars

\* The rest of an iteration of run_session, once the session is s.
HeadRest(s, open) ==
  /\ session' = s
  /\ IF ~open /\ is_drained(s)
       THEN /\ Return("ok")
            /\ DropStream
       ELSE /\ stage' = "select"
            /\ busOpen' = open
            /\ UNCHANGED <<attempt, inFlight, result>>
            /\ UNCHANGED netVars

-----------------------------------------------------------------------------
(* The task *)

\* EventSession::push_ordinary: the next fragment of a log chunk.
PushFragment ==
  /\ pushing > 0
  /\ session' = push_event(session, 1)
  /\ pushing' = pushing - 1
  /\ UNCHANGED <<startedSeen, verdict, breaks>>
  /\ UNCHANGED <<busVars, stopVars, loopVars, netVars, serverVars>>

\* Mutant of Budget: what is queued when the run stops is not taken.
NoBudget == IF budget = NoValue THEN 0 ELSE budget

\* drain_queued fixes its budget when it first runs.
Budget == IF budget = NoValue THEN Len(bus) + missed ELSE budget

\* drain_bus: one iteration of its loop.
DrainStep ==
  /\ At("primeDrain") \/ At("headDrain")
  /\ budget > 0
  /\ can_receive(session)
  /\ IF BusEmpty
       THEN /\ budget' = 0
            /\ UNCHANGED <<bus, missed, session, pushing, startedSeen, verdict>>
       ELSE /\ Recv
            /\ budget' = IF missed > 0 THEN Minus(budget, missed) ELSE budget - 1
  /\ UNCHANGED <<closed, published, completion, stage, attempt, busOpen, inFlight, result,
                 breaks>>
  /\ UNCHANGED <<stopVars, netVars, serverVars>>

Drained == budget = 0 \/ ~can_receive(session)

Prime ==
  /\ At("prime")
  /\ IF stop
       THEN /\ stage' = "primeDrain"
            /\ budget' = Budget
            /\ UNCHANGED <<attempt, busOpen, inFlight, result, session>>
            /\ UNCHANGED netVars
       ELSE PrimeRest(session) /\ UNCHANGED budget
  /\ UNCHANGED <<pushing, startedSeen, verdict, breaks>>
  /\ UNCHANGED <<busVars, stopVars, serverVars>>

PrimeDrained ==
  /\ At("primeDrain")
  /\ Drained
  /\ IF budget = 0
       THEN PrimeRest(Completed(session)) /\ CompleteVerdict
       ELSE PrimeRest(session) /\ UNCHANGED verdict
  /\ UNCHANGED <<budget, pushing, startedSeen, breaks>>
  /\ UNCHANGED <<busVars, stopVars, serverVars>>

PrimeStop ==
  /\ At("primeWait")
  /\ stop
  /\ stage' = "prime"
  /\ UNCHANGED <<attempt, busOpen, budget, inFlight, result, session, pushing,
                 startedSeen, verdict, breaks>>
  /\ UNCHANGED <<busVars, stopVars, netVars, serverVars>>

PrimeRecv ==
  /\ At("primeWait")
  /\ Recv
  /\ stage' = "prime"
  /\ UNCHANGED <<closed, published, completion, attempt, busOpen, budget, inFlight,
                 result, breaks>>
  /\ UNCHANGED <<stopVars, netVars, serverVars>>

PrimeClosed ==
  /\ At("primeWait")
  /\ BusEmpty /\ closed
  /\ session' = Completed(session)
  /\ CompleteVerdict
  /\ IF is_drained(session') THEN Fail("closed")
     ELSE /\ stage' = "prime"
          /\ UNCHANGED <<attempt, busOpen, budget, inFlight, result>>
          /\ UNCHANGED netVars
  /\ UNCHANGED <<pushing, startedSeen, breaks>>
  /\ UNCHANGED <<busVars, stopVars, serverVars>>

\* publish_run_events: the response headers arrive ...
OpenStream ==
  /\ At("open")
  /\ stage' = "head"
  /\ inFlight' = TRUE
  /\ UNCHANGED <<attempt, busOpen, budget, result, session, pushing, startedSeen,
                 verdict, breaks>>
  /\ UNCHANGED <<busVars, stopVars, netVars, serverVars>>

\* ... or the call, later the stream, fails.
StreamBreaks ==
  /\ At("open") \/ At("select")
  /\ breaks < MaxBreaks
  /\ breaks' = breaks + 1
  /\ Fail("broken")
  /\ UNCHANGED <<session, pushing, startedSeen, verdict>>
  /\ UNCHANGED <<busVars, stopVars, serverVars>>

\* The top of run_session's loop.
StreamHead ==
  /\ At("head")
  /\ IF stop /\ busOpen
       THEN /\ stage' = "headDrain"
            /\ budget' = Budget
            /\ UNCHANGED <<attempt, busOpen, inFlight, result, session, verdict>>
            /\ UNCHANGED netVars
       ELSE /\ HeadRest(IF busOpen THEN session ELSE Completed(session), busOpen)
            /\ IF busOpen THEN UNCHANGED verdict ELSE CompleteVerdict
            /\ UNCHANGED budget
  /\ UNCHANGED <<pushing, startedSeen, breaks>>
  /\ UNCHANGED <<busVars, stopVars, serverVars>>

HeadDrained ==
  /\ At("headDrain")
  /\ Drained
  /\ IF budget = 0
       THEN HeadRest(Completed(session), FALSE) /\ CompleteVerdict
       ELSE HeadRest(session, TRUE) /\ UNCHANGED verdict
  /\ UNCHANGED <<budget, pushing, startedSeen, breaks>>
  /\ UNCHANGED <<busVars, stopVars, serverVars>>

\* select: the drain deadline passes.
SelectDeadline ==
  /\ At("select")
  /\ ~busOpen \/ session.finalized
  /\ Return("timeout")
  /\ DropStream
  /\ UNCHANGED <<session, pushing, startedSeen, verdict, breaks>>
  /\ UNCHANGED <<busVars, stopVars, serverVars>>

\* select: the stop token.
SelectStop ==
  /\ At("select")
  /\ stop /\ busOpen /\ budget = NoValue
  /\ stage' = "head"
  /\ UNCHANGED <<attempt, busOpen, budget, inFlight, result, session, pushing,
                 startedSeen, verdict, breaks>>
  /\ UNCHANGED <<busVars, stopVars, netVars, serverVars>>

\* select: the heartbeat interval.
SelectHeartbeat ==
  /\ At("select")
  /\ busOpen /\ can_receive(session) /\ ~session.finalized
  /\ session.next < MaxSeq
  /\ session' = push_event(session, 1)
  /\ stage' = "head"
  /\ UNCHANGED <<attempt, busOpen, budget, inFlight, result, pushing, startedSeen,
                 verdict, breaks>>
  /\ UNCHANGED <<busVars, stopVars, netVars, serverVars>>

\* select: an acknowledgement of the batch in flight.
SelectAck ==
  /\ At("select")
  /\ acks # NoValue
  /\ LET e == acks.expected IN
     IF ~inFlight \/ ~ValidAck(session, e) \/ acks.disposition = "invalid"
       THEN /\ Return("invalid") /\ DropStream
            /\ UNCHANGED <<session>>
     ELSE IF acks.disposition = "resync"
       THEN Fail("resync") /\ UNCHANGED session
     ELSE /\ session' = IF acks.disposition = "accepted" THEN AckAccepted(session, e)
                                                         ELSE AckStale(session, e)
          /\ acks' = NoValue
          /\ stage' = "head"
          /\ inFlight' = FALSE
          /\ UNCHANGED <<attempt, busOpen, budget, result, wire, delayed>>
  /\ UNCHANGED <<pushing, startedSeen, verdict, breaks>>
  /\ UNCHANGED <<busVars, stopVars, serverVars>>

\* select: the bus.
SelectRecv ==
  /\ At("select")
  /\ busOpen /\ budget = NoValue /\ can_receive(session)
  /\ \/ Recv /\ UNCHANGED busOpen
     \/ /\ BusEmpty /\ closed
        /\ busOpen' = FALSE
        /\ UNCHANGED <<bus, missed, session, pushing, startedSeen, verdict>>
  /\ stage' = "head"
  /\ UNCHANGED <<closed, published, completion, attempt, budget, inFlight, result,
                 breaks>>
  /\ UNCHANGED <<stopVars, netVars, serverVars>>

\* select: the flush timer, once the previous batch is acknowledged.
SelectFlush ==
  /\ At("select")
  /\ ~inFlight
  /\ \E b \in next_batch(session) : Send(session, b)
  /\ inFlight' = TRUE
  /\ stage' = "head"
  /\ UNCHANGED <<attempt, busOpen, budget, result, acks, delayed, pushing,
                 startedSeen, verdict, breaks>>
  /\ UNCHANGED <<busVars, stopVars, serverVars>>

\* drive: the backoff before a reconnect ends, or is cut short.
BackoffOver ==
  /\ At("backoff")
  /\ stage' = "probe"
  /\ UNCHANGED <<attempt, busOpen, budget, inFlight, result, session, pushing,
                 startedSeen, verdict, breaks>>
  /\ UNCHANGED <<busVars, stopVars, netVars, serverVars>>

\* drive: events are still translated during an outage.
BackoffRecv ==
  /\ At("backoff")
  /\ ~stop /\ can_receive(session)
  /\ Recv
  /\ UNCHANGED <<closed, published, completion, breaks>>
  /\ UNCHANGED <<stopVars, loopVars, netVars, serverVars>>

\* drive: GetRunAck answers, and the client aligns with the service ...
ProbeOk ==
  /\ At("probe")
  /\ expected > 0
  /\ IF ~ValidAck(session, expected)
       THEN Return("invalid") /\ UNCHANGED session
     ELSE LET s == AckProbe(session, expected) IN
          /\ session' = s
          /\ IF s.finalized /\ is_drained(s) THEN Return("ok")
             ELSE stage' = "prime" /\ UNCHANGED <<attempt, busOpen, budget, inFlight, result>>
  /\ UNCHANGED <<pushing, startedSeen, verdict, breaks>>
  /\ UNCHANGED <<busVars, stopVars, netVars, serverVars>>

\* ... or does not: the run is unknown, or the call fails.
ProbeErr ==
  /\ At("probe")
  /\ expected = 0 \/ breaks < MaxBreaks
  /\ breaks' = IF expected = 0 THEN breaks ELSE breaks + 1
  /\ stage' = "prime"
  /\ UNCHANGED <<attempt, busOpen, budget, inFlight, result, session, pushing,
                 startedSeen, verdict>>
  /\ UNCHANGED <<busVars, stopVars, netVars, serverVars>>

\* drive: the budget for delivery after a stop is over.
DriveTimeout ==
  /\ stop
  /\ stage # "done" /\ pushing = 0
  /\ Return("timeout")
  /\ DropStream
  /\ UNCHANGED <<session, pushing, startedSeen, verdict, breaks>>
  /\ UNCHANGED <<busVars, stopVars, serverVars>>

-----------------------------------------------------------------------------
Producer == PublishStarted \/ PublishOrdinary \/ PublishCompleted \/ CloseBus
Signals  == SignalShutdown \/ Cancel

\* What the task does by itself; the rest of its steps need a timer to expire
\* or a call to fail.
Task == \/ PushFragment \/ DrainStep
        \/ Prime \/ PrimeDrained \/ PrimeStop \/ PrimeRecv \/ PrimeClosed
        \/ OpenStream \/ StreamHead \/ HeadDrained
        \/ SelectStop \/ SelectAck \/ SelectRecv \/ SelectFlush
        \/ BackoffOver \/ BackoffRecv \/ ProbeOk
        \/ (expected = 0 /\ ProbeErr)

EventNext ==
  \/ Producer \/ Signals \/ ObserveStop
  \/ Serve \/ ServeDelayed
  \/ Task
  \/ StreamBreaks \/ SelectHeartbeat \/ ProbeErr
  \/ SelectDeadline \/ DriveTimeout

EventSpec == EventInit /\ [][EventNext]_eventVars

(* The task is polled while something is ready for it, its select sees the   *)
(* stop signal, and the service answers a batch it received.  Nothing forces *)
(* the producer, the signals, failures, heartbeats or time limits.           *)
EventFairness == WF_eventVars(Task) /\ WF_eventVars(ObserveStop) /\ WF_eventVars(Serve)

EventFairSpec == EventSpec /\ EventFairness

-----------------------------------------------------------------------------
(* Properties *)

\* Sequence numbers the client still answers for, by where it keeps them.
RingSeqs == {session.ring[i].seq : i \in DOMAIN session.ring}
SlotSeqs == {session.finalizing, session.terminal} \ {NoSeq}
StartedSeq == IF session.started THEN {1} ELSE {}

\* Every sequence number the client minted and the service has not
\* acknowledged is either still queued for delivery or recorded as lost, and
\* never both: overflow, oversized events, acknowledgements and reconnects
\* leave no number unaccounted for.  The headroom the transport keeps in the
\* ring means that no number is ever lost for two reasons, which
\* LossIntervals::record refuses with a panic.
Accounted ==
  /\ StartedSeq \cup RingSeqs \cup SlotSeqs \cup Lost(session)
       = session.acked..(session.next - 1)
  /\ Lost(session) \cap (StartedSeq \cup RingSeqs \cup SlotSeqs) = {}
  /\ \A i, j \in DOMAIN session.ring :
       i < j => session.ring[i].seq < session.ring[j].seq
  /\ ~session.panicked

\* Client and service never disagree about what is lost: the service declares
\* no event lost that the client still has to send, and never gives the client
\* a reason to report an invalid acknowledgement or rejection.
OnlyRealLoss ==
  /\ declared \cap (StartedSeq \cup RingSeqs \cup SlotSeqs) = {}
  /\ result # "invalid"

\* Once the service is told that the run has ended, everything before the end is
\* resolved, and nothing of the run is delivered after it.  drive returns Ok only
\* when the service has everything: the terminal event, every number resolved,
\* and the count of events the bus lost.
OkMeansDelivered ==
  /\ ended # NoValue => expected = session.next /\ session.finalized
  /\ result = "ok" => /\ startedSeen
                      /\ expected = session.next
                      /\ ended = verdict /\ ended # NoValue
                      /\ reported = session.dropped

\* A completion published before any signal, and stamped in an earlier
\* millisecond than a cancellation, decides the result of the run, unless the
\* bus overwrote events.
CompletionKept ==
  (verdict \in {"failed", "cancelled"} /\ completion = "onTime") => session.dropped > 0

\* The module's promise: the transport shuts down once the bus is closed.
ShutsDownOnceClosed == closed ~> stage = "done"

\* ... which it keeps for every run whose start it has seen.
StartedRunShutsDown == (closed /\ startedSeen) ~> stage = "done"

=============================================================================
