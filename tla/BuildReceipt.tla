---------------------------- MODULE BuildReceipt -----------------------------
(***************************************************************************)
(* once build (once-cli/src/commands/graph): how an invocation decides     *)
(* that there is nothing to do.  It asks the change tracker what moved     *)
(* since the target's receipt and the recorded digests were written,       *)
(* returns the receipt's result if nothing did, and otherwise builds with  *)
(* the digests of what did not move.                                       *)
(*                                                                         *)
(* One invocation runs at a time.  The content of a file is a value, and   *)
(* its own digest; a target has one action, whose output is what the       *)
(* sources are when it runs.  Others write sources and outputs at any time.*)
(***************************************************************************)
EXTENDS ChangeTracker, TLC

CONSTANTS
  Reads,         \* the sources of each target
  Contents,      \* contents of a source, Absent if it does not exist
  Absent, Foreign, \* no file; what others write to an output
  Undeclared,    \* a file an action writes next to its output
  FenceAttempts, \* FENCE_ATTEMPTS
  MaxBuilds, MaxWrites, MaxMishaps   \* bounds

VARIABLES
  disk, output,         \* sources; outputs, each with the number of its write
  receipt, digests,     \* the files under .once
  cachedResults,              \* the action cache: digests of sources to an output
  step, target, prior, initial, final, changes, \* the invocation
  unread, observed, session, dirty,             \* its build session
  builds, writes, mishaps,
  seen, stale, calm, meddled, quiet           \* history

diskVars == <<disk, output, receipt, digests, cachedResults>>
callVars == <<step, target, prior, initial, final, changes, unread, observed, session, dirty>>
countVars == <<builds, writes, mishaps>>
historyVars == <<seen, stale, calm, meddled, quiet>>
receiptVars == <<trackerVars, diskVars, callVars, countVars, historyVars>>

Empty == [x \in {} |-> {}]
NoDigests == [entries |-> Empty, outputs |-> Empty, position |-> Nothing]

ReceiptInit ==
  /\ TrackerInit
  /\ disk = [p \in Sources |-> CHOOSE c \in Contents : c # Absent]
  /\ output = [t \in Targets |-> [content |-> Absent, number |-> 0]]
  /\ receipt = [t \in Targets |-> Nothing] /\ digests = NoDigests /\ cachedResults = Empty
  /\ step = "idle" /\ target \in Targets
  /\ prior = Nothing /\ initial = Nothing /\ final = Nothing /\ changes = Unknown
  /\ unread = {} /\ observed = Empty /\ session = NoDigests /\ dirty = FALSE
  /\ builds = 0 /\ writes = 0 /\ mishaps = 0
  /\ seen = [p \in Sources |-> {}] /\ stale = {} /\ calm = FALSE /\ meddled = {} /\ quiet = {}

-----------------------------------------------------------------------------
(* What the invocation computes *)

Least(g) == IF g["source"] < g["output"] THEN g["source"] ELSE g["output"]

\* earliest_position of the receipt's and the digests' position.
earliest_position(left, right) ==
  IF left = Nothing THEN right
  ELSE IF right = Nothing THEN left
  ELSE IF left.instance # right.instance THEN Nothing
  ELSE IF Least(left.generation) <= Least(right.generation) THEN left ELSE right

\* known_changes: what moved since the digests were recorded.
known_changes(snapshot, recorded) ==
  IF snapshot = Nothing \/ recorded = Nothing THEN Unknown
  ELSE IF snapshot.position.instance # recorded.instance THEN Unknown
  ELSE IF \E a \in Areas : snapshot.changes[a] = Unknown THEN Unknown
  ELSE snapshot.changes

\* The watcher says that nothing wrote there.
Untouched(area, name) == IF changes = Unknown THEN FALSE ELSE name \notin changes[area]

\* output_matches: an output on disk is the recorded one, by what the watcher
\* says or by its metadata.
output_matches(entries, t, expected, untouched) ==
  /\ output[t].content # Absent
  /\ t \in DOMAIN entries
  /\ entries[t].content = expected
  /\ untouched \/ entries[t].number = output[t].number

\* source_changes_match of the receipt: every change is a source the build
\* read, and has the content it read.
source_changes_match(expected, moved) ==
  /\ moved # Unknown
  /\ \A p \in moved : p \in DOMAIN expected /\ disk[p] # Absent /\ disk[p] = expected[p]

\* changes_match of the session: a path it did not read may be gone.
changes_match(moved) ==
  /\ moved # Unknown
  /\ \A p \in moved : disk[p] = IF p \in DOMAIN observed THEN observed[p] ELSE Absent

\* output_changes_are_our_own, against the recorded digests as they are on
\* disk.
output_changes_are_our_own(r, t, moved) ==
  /\ moved # Unknown
  /\ moved # {} => /\ r.produced # Nothing /\ moved = {t}
                   /\ output_matches(digests.outputs, t, r.produced, FALSE)

\* Mutant of Holds: the writes of others to an output are not looked for.
HoldsWhateverOutput(t) ==
  LET r == receipt[t] s == initial
  IN  /\ r # Nothing /\ s # Nothing
      /\ r.position.instance = s.position.instance
      /\ \/ r.position.generation["source"] = s.position.generation["source"]
         \/ source_changes_match(r.sources, s.changes["source"])
      /\ output[t].content # Absent

\* build_receipt::load finds no reason to miss.
Holds(t) ==
  LET r == receipt[t] s == initial
  IN  /\ r # Nothing /\ s # Nothing
      /\ r.position.instance = s.position.instance
      /\ \/ r.position.generation["source"] = s.position.generation["source"]
         \/ source_changes_match(r.sources, s.changes["source"])
      /\ \/ r.position.generation["output"] = s.position.generation["output"]
         \/ output_changes_are_our_own(r, t, s.changes["output"])
      /\ output[t].content # Absent

-----------------------------------------------------------------------------
(* The invocation *)

Disturbed == calm' = FALSE /\ quiet' = {}

\* The invocation is over, and what it had in memory is gone.
Over ==
  /\ step' = "idle" /\ UNCHANGED target
  /\ prior' = Nothing /\ initial' = Nothing /\ final' = Nothing /\ changes' = Unknown
  /\ unread' = {} /\ observed' = Empty /\ session' = NoDigests /\ dirty' = FALSE
  /\ seen' = [p \in Sources |-> {}] /\ stale' = {}

\* The receipt and the position of the digests are read, and a barrier is
\* requested for the window that covers both.
Start(t) ==
  /\ step = "idle" /\ builds < MaxBuilds
  /\ builds' = builds + 1
  /\ target' = t
  /\ prior' = earliest_position(IF receipt[t] = Nothing THEN Nothing ELSE receipt[t].position,
                                digests.position)
  /\ Barrier(builds' * FenceAttempts)
  /\ step' = "barrier"
  /\ seen' = [p \in Sources |-> {disk[p]}] /\ stale' = {} /\ calm' = TRUE
  /\ UNCHANGED <<diskVars, initial, final, changes, unread, observed, session, dirty,
                 writes, mishaps, meddled, quiet>>

\* A sentinel is not reported in time: another one, up to a limit.
FenceTimesOut ==
  /\ step = "barrier" /\ fence.state # "observed"
  /\ IF fence.state = "awaited" /\ (fence.token + 1) % FenceAttempts # 0
       THEN RetryFence(fence.token + 1) /\ UNCHANGED <<step, initial>>
       ELSE /\ fence' = Nothing /\ initial' = Nothing /\ step' = "load"
            /\ UNCHANGED <<instance, generation, journal, watched, watch, pending, event, overtaken>>
  /\ Disturbed
  /\ UNCHANGED <<diskVars, target, prior, final, changes, unread, observed, session, dirty,
                 countVars, seen, stale, meddled>>

TakeSnapshot ==
  /\ step = "barrier" /\ fence.state = "observed"
  /\ UNCHANGED <<instance, generation, journal, watched, watch, pending, event, overtaken>>
  /\ fence' = Nothing
  /\ initial' = snapshot_since(prior)
  /\ step' = "load"
  /\ UNCHANGED <<diskVars, target, prior, final, changes, unread, observed, session, dirty,
                 countVars, historyVars>>

\* load: the receipt holds, and is advanced to where the journal stands.
LoadHits ==
  /\ step = "load" /\ Holds(target)
  /\ receipt' = IF receipt[target].position = initial.position THEN receipt
                ELSE [receipt EXCEPT ![target].position = initial.position,
                                     ![target].sources = Empty]
  /\ step' = "hit"
  /\ UNCHANGED <<trackerVars, disk, output, digests, cachedResults, target, prior, initial, final, changes,
                 unread, observed, session, dirty, countVars, historyVars>>

ReturnHit ==
  /\ step = "hit" /\ Over
  /\ UNCHANGED <<trackerVars, diskVars, countVars, calm, meddled, quiet>>

\* It does not: a session is opened on the recorded digests.
LoadMisses ==
  /\ step = "load" /\ ~Holds(target)
  /\ changes' = known_changes(initial, digests.position)
  /\ session' = [digests EXCEPT !.position = Nothing] /\ dirty' = FALSE
  /\ unread' = Reads[target] /\ observed' = Empty
  /\ final' = Nothing
  /\ step' = "build"
  /\ UNCHANGED <<trackerVars, diskVars, target, prior, initial, countVars, historyVars>>

\* digest: a recorded digest whose path nothing wrote to is the answer;
\* otherwise the file is looked at.
digest(p) ==
  /\ step = "build" /\ p \in unread
  /\ LET trusted == Untouched("source", p) /\ p \in DOMAIN session.entries
         found == IF trusted THEN session.entries[p] ELSE disk[p]
     IN /\ found # Absent
        /\ observed' = (p :> found) @@ observed
        /\ session' = [session EXCEPT !.entries = (p :> found) @@ @]
        /\ dirty' \in IF session' # session THEN {TRUE} ELSE {dirty, dirty \/ ~trusted}
        /\ stale' = IF found \in seen[p] THEN stale ELSE stale \cup {p}
  /\ unread' = unread \ {p}
  /\ UNCHANGED <<trackerVars, diskVars, step, target, prior, initial, final, changes,
                 countVars, seen, calm, meddled, quiet>>

\* The target's output is written, and perhaps something next to it.
WriteOutput(result, others) ==
  /\ output' = [output EXCEPT ![target] = [content |-> result, number |-> @.number + 1]]
  /\ Written("output", target, others)
  /\ step' = "made"
  /\ meddled' = meddled \ {target}
  /\ UNCHANGED <<instance, generation, journal, watched, watch, event, fence, overtaken,
                 disk, receipt, digests, target, prior, initial, final, changes, unread,
                 observed, session, dirty, countVars, seen, stale>>

\* The action cache has no result for the digests: the action runs on what the
\* sources are now, and may write what the target does not declare.
RunAction(others) ==
  /\ step = "build" /\ unread = {} /\ observed \notin DOMAIN cachedResults
  /\ LET found == Restrict(disk, Reads[target])
     IN /\ Absent \notin Range(found)
        /\ cachedResults' = (observed :> found) @@ cachedResults
        /\ WriteOutput(found, others)
  /\ IF others = <<>> THEN UNCHANGED <<calm, quiet>> ELSE Disturbed

\* It has one: materialize_outputs writes it, unless it is already there.
MaterializeOutput ==
  /\ step = "build" /\ unread = {} /\ observed \in DOMAIN cachedResults
  /\ IF output_matches(session.outputs, target, cachedResults[observed], Untouched("output", target))
       THEN /\ step' = "built"
            /\ UNCHANGED <<trackerVars, disk, output, receipt, digests, target, prior, initial,
                           final, changes, unread, observed, session, dirty, countVars, seen,
                           stale, meddled>>
       ELSE WriteOutput(cachedResults[observed], <<>>)
  /\ UNCHANGED <<cachedResults, calm, quiet>>

\* Mutant of RecordOutput: outputs are not recorded.
SkipOutput ==
  /\ step = "made"
  /\ step' = "built"
  /\ UNCHANGED <<trackerVars, diskVars, target, prior, initial, final, changes, unread,
                 observed, session, dirty, countVars, historyVars>>

\* record_output: the result's digest is recorded with the metadata the output
\* has by now.
RecordOutput ==
  /\ step = "made"
  /\ LET others == Restrict(session.outputs, DOMAIN session.outputs \ {target})
     IN session' = [session EXCEPT !.outputs =
          IF output[target].content = Absent THEN others
          ELSE (target :> [output[target] EXCEPT !.content = cachedResults[observed]]) @@ others]
  /\ dirty' = (dirty \/ session' # session)
  /\ step' = "built"
  /\ UNCHANGED <<trackerVars, diskVars, target, prior, initial, final, changes, unread,
                 observed, countVars, historyVars>>

\* A source is missing, or an action fails: the session is dropped.
BuildFails ==
  /\ step \in {"build", "made"}
  /\ step' = "close"
  /\ Disturbed
  /\ UNCHANGED <<trackerVars, diskVars, target, prior, initial, final, changes, unread,
                 observed, session, dirty, countVars, seen, stale, meddled>>

\* The build did work that must not be skipped: no receipt.
ClearReceipt ==
  /\ step = "built"
  /\ receipt' = [receipt EXCEPT ![target] = Nothing]
  /\ step' = "close"
  /\ Disturbed
  /\ UNCHANGED <<trackerVars, disk, output, digests, cachedResults, target, prior, initial, final, changes,
                 unread, observed, session, dirty, countVars, seen, stale, meddled>>

\* position: the outputs are watched, and the tracker says where the journal
\* stands; the session's digests are stamped with it.
TakePosition ==
  /\ step = "built"
  /\ Register({target}, <<>>) /\ UNCHANGED <<fence, overtaken>>
  /\ final' = snapshot_since(IF initial = Nothing THEN Nothing ELSE initial.position)
  /\ session' = [session EXCEPT !.position = final'.position]
  /\ dirty' = TRUE
  /\ step' = "store"
  /\ UNCHANGED <<diskVars, target, prior, initial, changes, unread, observed, countVars,
                 historyVars>>

\* The tracker does not answer.
NoPosition ==
  /\ step = "built" /\ mishaps < MaxMishaps
  /\ mishaps' = mishaps + 1
  /\ step' = "close"
  /\ Disturbed
  /\ UNCHANGED <<trackerVars, diskVars, target, prior, initial, final, changes, unread,
                 observed, session, dirty, builds, writes, seen, stale, meddled>>

\* The sources are what the build read.
Unmoved ==
  /\ initial # Nothing
  /\ initial.position.instance = final.position.instance
  /\ \/ initial.position.generation["source"] = final.position.generation["source"]
     \/ changes_match(final.changes["source"])

\* build_receipt::store, if it may.
StoreReceipt ==
  LET moved == final.changes["source"]
      named == IF moved = Unknown THEN {} ELSE moved \cap DOMAIN observed
  IN /\ step = "store"
     /\ receipt' = IF ~Unmoved THEN receipt
                   ELSE [receipt EXCEPT ![target] =
                           [position |-> final.position,
                            sources  |-> Restrict(observed, named),
                            produced |-> IF target \in DOMAIN session.outputs
                                           THEN session.outputs[target].content ELSE Nothing,
                            used     |-> observed, stale |-> stale]]
     /\ quiet' = IF Unmoved /\ calm THEN {target} ELSE {}
     /\ step' = "close"
     /\ UNCHANGED <<trackerVars, disk, output, digests, cachedResults, target, prior, initial, final, changes,
                    unread, observed, session, dirty, countVars, seen, stale, calm, meddled>>

\* The session is dropped, and writes its digests if there is something new.
Close ==
  /\ step = "close"
  /\ digests' = IF dirty THEN session ELSE digests
  /\ Over
  /\ UNCHANGED <<trackerVars, disk, output, receipt, cachedResults, countVars, calm, meddled, quiet>>

-----------------------------------------------------------------------------
(* Everybody else *)

Mishap ==
  /\ mishaps < MaxMishaps
  /\ mishaps' = mishaps + 1
  /\ Disturbed
  /\ UNCHANGED <<diskVars, builds, writes, meddled>>

\* The invocation is killed.
Killed ==
  /\ step # "idle" /\ Mishap /\ Over
  /\ fence' = Nothing
  /\ UNCHANGED <<instance, generation, journal, watched, watch, pending, event, overtaken>>

TrackerMishap ==
  /\ LoseTrack \/ DisturbWatch \/ TrackerRestarts
  /\ Mishap /\ UNCHANGED <<callVars, seen, stale>>

\* Somebody writes or removes a source.
EditSource(p, c) ==
  /\ writes < MaxWrites
  /\ writes' = writes + 1
  /\ disk' = [disk EXCEPT ![p] = c]
  /\ Written("source", p, <<>>)
  /\ seen' = IF step = "idle" THEN seen ELSE [seen EXCEPT ![p] = @ \cup {c}]
  /\ Disturbed
  /\ UNCHANGED <<instance, generation, journal, watched, watch, event, fence,
                 overtaken, output, receipt, digests, cachedResults, callVars, builds, mishaps, stale, meddled>>

\* Somebody else writes or removes an output.
MeddleWithOutput(t, c) ==
  /\ writes < MaxWrites
  /\ writes' = writes + 1
  /\ output' = [output EXCEPT ![t] = [content |-> c, number |-> @.number + 1]]
  /\ Written("output", t, <<>>)
  /\ meddled' = IF step = "idle" THEN meddled ELSE meddled \cup {t}
  /\ Disturbed
  /\ UNCHANGED <<instance, generation, journal, watched, watch, event, fence,
                 overtaken, disk, receipt, digests, cachedResults, callVars, builds, mishaps, seen, stale>>

\* A write that a sentinel overtook counts as one during the invocation.
Tracker ==
  /\ Report \/ JournalEvent \/ ReleaseFences
  /\ IF overtaken' = overtaken THEN UNCHANGED <<calm, quiet, meddled>>
     ELSE Disturbed /\ meddled' = meddled \cup {t \in Targets : Write("output", t) \in Range(pending')}
  /\ UNCHANGED <<diskVars, callVars, countVars, seen, stale>>

ReceiptNext ==
  \/ \E t \in Targets : Start(t)
  \/ FenceTimesOut \/ TakeSnapshot \/ LoadHits \/ ReturnHit \/ LoadMisses
  \/ \E p \in Sources : digest(p)
  \/ \E others \in {<<>>, <<Write("output", Undeclared)>>} : RunAction(others)
  \/ MaterializeOutput \/ RecordOutput
  \/ BuildFails \/ ClearReceipt \/ TakePosition \/ NoPosition \/ StoreReceipt \/ Close
  \/ Killed \/ TrackerMishap \/ Tracker
  \/ \E p \in Sources, c \in Contents : EditSource(p, c)
  \/ \E t \in Targets, c \in {Foreign, Absent} : MeddleWithOutput(t, c)

ReceiptSpec == ReceiptInit /\ [][ReceiptNext]_receiptVars

-----------------------------------------------------------------------------
(* Properties *)

\* A receipt never certifies a source that moved: when it is reused, every
\* source has, or had since the invocation began, the content its build read,
\* although the watcher is late or loses track, the journal forgets, sources
\* are edited during the build, and processes die.  It rests on the order the
\* comment on DEFAULT_FENCE_TIMEOUT relies on: the invocation's own sentinel
\* did not overtake a write (earlier ones may have).  (Digests that were wrong
\* when the build took them are NoStaleDigest's.)
SourcesHold ==
  (step = "hit" /\ ~overtaken) =>
     \A p \in Reads[target] \ receipt[target].stale : receipt[target].used[p] \in seen[p]

\* A change of an output by someone else invalidates the receipt: when it is
\* reused, the output is the one its build recorded, unless somebody wrote it
\* while an invocation was running, or before it and its sentinel overtook the
\* write.
OutputsHold ==
  (step = "hit" /\ target \notin meddled) =>
     output[target].content = receipt[target].produced

\* "The next invocation recognises those writes as ours": if nothing happened
\* since a build that left a receipt began (nobody else wrote, its action only
\* wrote its output, no sentinel overtook a write), the next build of the
\* target is a hit, whether its writes were reported or not.
UndisturbedHit == step = "build" => target \notin quiet

\* "Exactly these paths changed since the cache was written": a digest that
\* is used without looking is that of a content the file has, or had since
\* the invocation began, if its sentinel did not overtake a write.
NoStaleDigest == ~overtaken => stale = {}
=============================================================================
