---------------------------- MODULE ChangeTracker ----------------------------
(***************************************************************************)
(* The filesystem change tracker (once-cli/src/commands/change_tracker): a *)
(* daemon that journals what a watcher reports of a workspace, and answers *)
(* what changed since a position.  A barrier is answered once the watcher  *)
(* reported a sentinel written for it.                                     *)
(*                                                                         *)
(* The watcher reports writes late, several in one event, or not at all;   *)
(* then it says that it lost track.  It keeps the order of the writes of a *)
(* directory, but not of different ones: on macOS the sentinel may be      *)
(* reported before an earlier write (the comment on barrier_until), which  *)
(* the comment on DEFAULT_FENCE_TIMEOUT excludes.  The history says when   *)
(* that happened.                                                          *)
(***************************************************************************)
EXTENDS Integers, Sequences, Functions

CONSTANTS
  Sources,      \* source files
  Targets,      \* build targets; each has one output
  MaxJournal,   \* MAX_JOURNAL_RECORDS
  Nothing, Unknown \* no value; changes that cannot be enumerated

VARIABLES
  instance,                     \* instance_id
  generation, journal,          \* "source" and "output": counter and records
  watched, watch,               \* outputs watched; what became of the watches
  pending,                      \* writes the watcher has not reported
  event,                        \* what handle_event has yet to do with an event
  fence,                        \* the sentinel of a barrier, and what came of it
  overtaken                     \* history: it was reported before an earlier write

trackerVars ==
  <<instance, generation, journal, watched, watch, pending, event, fence, overtaken>>

Areas == {"source", "output"}

TrackerInit ==
  /\ instance = 1
  /\ generation = [a \in Areas |-> 0] /\ journal = [a \in Areas |-> <<>>]
  /\ watched = {} /\ watch = "intact"
  /\ pending = <<>> /\ event = Nothing /\ fence = Nothing
  /\ overtaken = FALSE

-----------------------------------------------------------------------------
(* The journal *)

\* push_record: the oldest record is forgotten beyond the limit.
push_record(records, gen, paths) ==
  LET longer == Append(records, [generation |-> gen, paths |-> paths])
  IN  IF Len(longer) > MaxJournal THEN Tail(longer) ELSE longer

\* record_source_changes and record_output_changes.
RecordChanges(a, paths) ==
  /\ generation' = [generation EXCEPT ![a] = @ + 1]
  /\ journal' = [journal EXCEPT ![a] = push_record(@, generation'[a], paths)]

\* changes_since: the paths of every record after a position, if none of them
\* was forgotten and all of them name their paths.
changes_since(records, since, now) ==
  LET later == {r \in {records[i] : i \in DOMAIN records} : r.generation > since}
  IN  IF \/ since > now
         \/ {r.generation : r \in later} # (since + 1)..now
         \/ \E r \in later : r.paths = Unknown
        THEN Unknown
        ELSE UNION {r.paths : r \in later}

\* snapshot_since, in the state after the watches were brought up to date.
snapshot_since(since) ==
  [position |-> [instance |-> instance, generation |-> generation'],
   changes  |-> [a \in Areas |->
      IF since = Nothing THEN Unknown
      ELSE IF since.instance # instance THEN Unknown
      ELSE changes_since(journal'[a], since.generation[a], generation'[a])]]

-----------------------------------------------------------------------------
(* The watcher *)

Write(area, name) == [area |-> area, name |-> name]

\* Something is written; what is written next to outputs is reported once they
\* are watched.
Written(area, name, others) ==
  pending' = IF area = "output" /\ name \notin watched THEN pending
             ELSE Append(pending, Write(area, name)) \o others

\* The write of the sentinel the barrier waits for.
Sentinel == Write("fence", IF fence = Nothing THEN Nothing ELSE fence.token)

\* The watcher calls handle_event with the oldest writes of some directories.
Report ==
  /\ event = Nothing
  /\ \E n \in DOMAIN pending, directories \in SUBSET {w.area : w \in Range(pending)} :
       LET first == SubSeq(pending, 1, n)
           rest  == SubSeq(pending, n + 1, Len(pending))
           taken == SelectSeq(first, LAMBDA w : w.area \in directories)
           left  == SelectSeq(first, LAMBDA w : w.area \notin directories)
           names == [a \in Areas \cup {"fence"} |-> {w.name : w \in {x \in Range(taken) : x.area = a}}]
       IN /\ pending[n].area \in directories
          /\ event' = [changes |-> Restrict(names, Areas), tokens |-> names["fence"]]
          /\ pending' = left \o rest
          /\ overtaken' = (overtaken \/ \E i, j \in 1..n :
               /\ j < i /\ pending[j].area \notin directories
               /\ "fence" \in directories /\ pending[i] = Sentinel)
  /\ UNCHANGED <<instance, generation, journal, watched, watch, fence>>

\* It reports an error, or asks for a rescan: the writes are lost.
LoseTrack ==
  /\ event = Nothing /\ pending # <<>>
  /\ pending' = <<>>
  /\ event' = [changes |-> [a \in Areas |-> Unknown], tokens |-> {}]
  /\ UNCHANGED <<instance, generation, journal, watched, watch, fence, overtaken>>

\* handle_event records the changes of an event, first those of sources ...
Unrecorded == {a \in Areas : event.changes[a] # {}}

JournalEvent ==
  /\ event # Nothing
  /\ \E a \in Unrecorded :
       /\ a = "output" => "source" \notin Unrecorded
       /\ RecordChanges(a, event.changes[a])
       /\ event' = [event EXCEPT !.changes[a] = {}]
  /\ UNCHANGED <<instance, watched, watch, pending, fence, overtaken>>

\* release_fence, for the sentinels an event reports.
release_fence(tokens) ==
  fence' = IF fence # Nothing /\ fence.token \in tokens
             THEN [fence EXCEPT !.state = "observed"] ELSE fence

\* Mutant of ReleaseFences: barriers are released before the changes that
\* came in the same event are recorded.
ReleaseEarly ==
  /\ event # Nothing
  /\ release_fence(event.tokens)
  /\ event' = IF Unrecorded = {} THEN Nothing ELSE event
  /\ UNCHANGED <<instance, generation, journal, watched, watch, pending, overtaken>>

\* ... and then releases the barriers whose sentinels it reports.
ReleaseFences ==
  /\ event # Nothing /\ Unrecorded = {}
  /\ release_fence(event.tokens)
  /\ event' = Nothing
  /\ UNCHANGED <<instance, generation, journal, watched, watch, pending, overtaken>>

\* The workspace root gets or loses an entry, or somebody removes the
\* directory of the sentinels.
DisturbWatch ==
  /\ watch = "intact"
  /\ watch' \in {"root moved", "fences gone"}
  /\ UNCHANGED <<instance, generation, journal, watched, pending, event, fence, overtaken>>

\* The daemon ends, and the next request starts another one.
TrackerRestarts ==
  /\ instance' = instance + 1
  /\ generation' = [a \in Areas |-> 0] /\ journal' = [a \in Areas |-> <<>>]
  /\ watched' = {} /\ watch' = "intact"
  /\ pending' = <<>> /\ event' = Nothing
  /\ fence' = IF fence = Nothing THEN Nothing ELSE [fence EXCEPT !.state = "refused"]
  /\ UNCHANGED overtaken

-----------------------------------------------------------------------------
(* Requests *)

\* register: ensure_fence_watch forgets the watched outputs when it restores
\* the sentinels' directory, refresh_source_watcher replaces the watcher when
\* the root moved, with what it had to report, and track_outputs adds the
\* outputs of the request.
Register(outputs, sentinel) ==
  /\ watched' = (IF watch = "fences gone" THEN {} ELSE watched) \cup outputs
  /\ pending' = (IF watch = "root moved" THEN <<>> ELSE pending) \o sentinel
  /\ IF watch = "intact" THEN UNCHANGED <<generation, journal>>
     ELSE RecordChanges("source", Unknown)
  /\ watch' = "intact"
  /\ UNCHANGED <<instance, event>>

\* barrier: a sentinel is written; a token is used once.
Barrier(token) ==
  /\ Register({}, <<Write("fence", token)>>)
  /\ fence' = [token |-> token, state |-> "awaited"]
  /\ overtaken' = FALSE

\* wait_for_fence timed out: another sentinel.
RetryFence(token) ==
  /\ pending' = Append(pending, Write("fence", token))
  /\ fence' = [token |-> token, state |-> "awaited"]
  /\ UNCHANGED <<instance, generation, journal, watched, watch, event, overtaken>>
=============================================================================
