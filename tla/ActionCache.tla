----------------------------- MODULE ActionCache -----------------------------
(***************************************************************************)
(* The action cache (once-cas) as Runner::run_inner (once-core) uses it:   *)
(* the local store of blobs and action results, its garbage collector, and *)
(* the remote tier of the Tuist provider, shared by runs of actions that   *)
(* look up, restore, execute and publish.                                  *)
(*                                                                         *)
(* A run is one call of Runner::run in a process and a workspace of its    *)
(* own.  An action need not be reproducible: it has a set of results.  A   *)
(* blob is its digest; the bytes of a file that can be opened are right.   *)
(***************************************************************************)
EXTENDS Eviction

CONSTANTS
  Runs,
  NPaths,      \* declared outputs of an action
  ActionOf,    \* the action of a run
  Produced,    \* the results an execution of an action may have
  MaxBytes,    \* what "once cache gc" is asked to reduce the store to
  CapBytes,    \* the cap of the store, 0 for none
  MirrorLimit, \* TUIST_STREAM_REMOTE_UPLOAD_LIMIT
  Providers,   \* the providers a behaviour may have
  Seeds,       \* actions whose results earlier processes may have left
  FaultKinds,  \* the faults that may happen
  MaxFaults,   \* bound: how many of them
  MaxPasses,   \* bound: garbage collections
  None

Paths == 1..NPaths

\* ActionResult: the exit code, the outputs by path, stdout and stderr.
Results == [exit : {0, 1}, outputs : [Paths -> Blobs], streams : SUBSET Blobs]

ASSUME CacheAssumption ==
  /\ NPaths \in Nat
  /\ ActionOf \in [Runs -> Actions]
  /\ \A a \in Actions : Produced[a] \subseteq Results /\ Produced[a] # {}
  /\ None \notin Results
  /\ MaxBytes \in Nat /\ CapBytes \in Nat /\ MirrorLimit \in Nat /\ MaxFaults \in Nat /\ MaxPasses \in Nat
  /\ Providers \subseteq {"local", "tuist"}
  /\ Seeds \subseteq Actions
  /\ FaultKinds \subseteq {"offline", "interrupt", "forget", "evict", "write"}

VARIABLES
  provider,              \* CacheProvider
  blobFiles, actionFiles, \* the files of the local store, by modification time
  results,               \* and the results that are in them
  rblobs, mapped, rresults, \* the remote tier: blobs, their mappings, results
  evicted,               \* history: blobs the remote tier has dropped
  known,                 \* known_remote_blobs of the process of a run
  pc, tries, hit,        \* a run, its lookups, and the result at hand
  need, staged, todo,    \* outputs to restore and staged; blobs to capture
  ws, outcome,           \* outputs in the workspace; what the run returned
  passes, faults

storeVars  == <<blobFiles, actionFiles, results>>
tierVars   == <<rblobs, mapped, rresults, evicted>>
remoteVars == <<rblobs, mapped, rresults, evicted, known>>
runVars    == <<pc, tries, hit, need, staged, todo, ws, outcome>>
gcVars     == <<gc, passes>>
vars == <<provider, blobFiles, actionFiles, results, rblobs, mapped, rresults, evicted, known, pc, tries, hit, need, staged,
          todo, ws, outcome, gc, passes, faults>>

\* The digests a result references: ActionResult.outputs, stdout, stderr.
Refs(res) == {res.outputs[p] : p \in Paths} \cup res.streams

Idle == [pc |-> "idle", max |-> 0, blobs |-> None, acts |-> None, refs |-> None,
         victims |-> {}, after |-> 0, removed |-> {}, renewed |-> {}]

Remote == provider = "tuist"

blobs == Range(blobFiles)

\* A sequence of the elements of S, and one that has no e.  (The operators of
\* SequencesExt would bring all of Bags into the proofs.)
Listing(S) == CHOOSE s \in [1..Cardinality(S) -> S] : IsInjective(s)
Without(s, e) ==
  LET at == {i \in DOMAIN s : s[i] = e}
      i  == CHOOSE i \in at : TRUE
  IN  IF at = {} THEN s ELSE [j \in 1..(Len(s) - 1) |-> IF j < i THEN s[j] ELSE s[j + 1]]

Init ==
  /\ provider \in Providers
  /\ results \in [Actions -> {None} \cup UNION {Produced[a] : a \in Actions}]
  /\ \A a \in Actions : results[a] # None => /\ a \in Seeds
                                             /\ results[a] \in Produced[a] /\ results[a].exit = 0
  /\ LET left == {a \in Seeds : results[a] # None}
     IN  /\ actionFiles = Listing(left)
         /\ blobFiles = Listing(UNION {Refs(results[a]) : a \in left})
  /\ rblobs = {} /\ mapped = {} /\ evicted = {}
  /\ rresults = [a \in Actions |-> None] /\ known = [r \in Runs |-> {}]
  /\ pc = [r \in Runs |-> "lookup"] /\ tries = [r \in Runs |-> 1]
  /\ hit = [r \in Runs |-> None]
  /\ need = [r \in Runs |-> {}] /\ staged = [r \in Runs |-> {}] /\ todo = [r \in Runs |-> <<>>]
  /\ ws = [r \in Runs |-> [p \in Paths |-> None]]
  /\ outcome = [r \in Runs |-> "none"]
  /\ gc = Idle /\ passes = 0 /\ faults = 0

\* A call of the remote tier that fails, a collector that is killed, a result
\* that is forgotten, a blob the remote tier drops, an output that cannot be
\* written.
Fault(kind) == kind \in FaultKinds /\ faults < MaxFaults /\ faults' = faults + 1

-----------------------------------------------------------------------------
(* Cas *)

\* Cas::put_blob, put_stream, mirror_blob: an existing blob is not written
\* again, and keeps its modification time.
PutBlob(b) == blobFiles' = IF b \in blobs THEN blobFiles ELSE Append(blobFiles, b)

\* Cas::put_action_result, mirror_action_result: the file is replaced.
PutResult(a, res) ==
  /\ results' = [results EXCEPT ![a] = res]
  /\ actionFiles' = Append(Without(actionFiles, a), a)
  /\ gc' = [gc EXCEPT !.renewed = @ \cup {a}]

\* Cas::forget_action, behind "once cache forget".
Forget(a) ==
  /\ results[a] # None
  /\ Fault("forget")
  /\ results' = [results EXCEPT ![a] = None]
  /\ actionFiles' = Without(actionFiles, a)
  /\ UNCHANGED <<blobFiles, remoteVars, runVars, gcVars>>

-----------------------------------------------------------------------------
(* Runner::run_inner *)

At(r, s) == pc[r] = s
Goto(r, s) == pc' = [pc EXCEPT ![r] = s]
Act(r) == ActionOf[r]

Return(r, what) ==
  /\ Goto(r, "done")
  /\ outcome' = [outcome EXCEPT ![r] = what]

\* lookup_cached found nothing it can use: the run waits for its permit and
\* looks again, then it executes.  What was staged is dropped.
Missed(r) ==
  /\ Goto(r, IF tries[r] = 1 THEN "lookup" ELSE "execute")
  /\ tries' = [tries EXCEPT ![r] = @ + 1]
  /\ staged' = [staged EXCEPT ![r] = {}] /\ need' = [need EXCEPT ![r] = {}]
  /\ hit' = [hit EXCEPT ![r] = None]

\* lookup_action_result asks the local tier ...
Lookup(r) ==
  /\ At(r, "lookup")
  /\ IF results[Act(r)] # None
       THEN /\ hit' = [hit EXCEPT ![r] = results[Act(r)]]
            /\ Goto(r, "streams") /\ UNCHANGED <<tries, need, staged>>
     ELSE IF Remote THEN Goto(r, "fetch") /\ UNCHANGED <<tries, need, staged, hit>>
     ELSE Missed(r)
  /\ UNCHANGED <<storeVars, remoteVars, todo, ws, outcome, gcVars, faults>>

\* ... and then the remote one, whose entry counts when all its blobs are
\* there; it is mirrored, and its blobs are known.
Fetch(r) ==
  /\ At(r, "fetch")
  /\ LET res == rresults[Act(r)]
         usable == res # None /\ Refs(res) \subseteq rblobs
     IN
     \/ /\ ~usable
        /\ Missed(r)
        /\ UNCHANGED <<storeVars, known, gc, faults>>
     \/ /\ usable
        /\ known' = [known EXCEPT ![r] = @ \cup Refs(res)]
        /\ PutResult(Act(r), res) /\ UNCHANGED blobFiles
        /\ hit' = [hit EXCEPT ![r] = res]
        /\ Goto(r, "restore")
        /\ UNCHANGED <<tries, need, staged, faults>>
     \/ /\ Fault("offline")
        /\ Missed(r)
        /\ UNCHANGED <<storeVars, known, gc>>
  /\ UNCHANGED <<tierVars, todo, ws, outcome, passes>>

\* remote_blob_digest: the remote name of a blob, from memory or its mapping,
\* which is then remembered.
Named(r) == known[r] \cup mapped
Remember(r, bs) == known' = [known EXCEPT ![r] = @ \cup (bs \cap mapped)]

\* The blobs of bs that has_blob finds.
Has(r, bs) == bs \cap (blobs \cup (IF Remote THEN Named(r) \cap rblobs ELSE {}))

\* stream_blobs_present: has_blob of each captured stream.
CheckStreams(r) ==
  /\ At(r, "streams")
  /\ LET bs == hit[r].streams IN
     \/ /\ IF Has(r, bs) = bs
             THEN Goto(r, "restore") /\ UNCHANGED <<tries, need, staged, hit>>
             ELSE Missed(r)
        /\ Remember(r, bs \ blobs) /\ UNCHANGED faults
     \/ /\ Remote /\ ~(bs \subseteq blobs)
        /\ Fault("offline") /\ Missed(r) /\ UNCHANGED known
  /\ UNCHANGED <<storeVars, tierVars, todo, ws, outcome, gcVars>>

\* restore_scoped, after the wait for a materialization permit: the outputs
\* that do not match what is on disk.
Needing(r) ==
  /\ At(r, "restore")
  /\ LET wanted == {p \in Paths : ws[r][p] # hit[r].outputs[p]} IN
     IF wanted = {} THEN Return(r, "hit") /\ UNCHANGED need
     ELSE /\ need' = [need EXCEPT ![r] = wanted]
          /\ Goto(r, "stage") /\ UNCHANGED outcome
  /\ UNCHANGED <<storeVars, remoteVars, tries, hit, staged, todo, ws, gcVars, faults>>

\* ensure_blob_local: a blob the local tier lacks is fetched, or is nowhere.
Ensure(r, p) ==
  /\ At(r, "stage") /\ Remote /\ p \in need[r] \ staged[r]
  /\ LET b == hit[r].outputs[p] IN
     /\ b \notin blobs
     /\ \/ /\ b \in Has(r, {b})
           /\ PutBlob(b) /\ Remember(r, {b})
           /\ UNCHANGED <<pc, tries, hit, need, staged, faults>>
        \/ /\ b \notin Has(r, {b})
           /\ Missed(r) /\ Remember(r, {b}) /\ UNCHANGED <<blobFiles, faults>>
        \/ /\ Fault("offline")
           /\ Missed(r) /\ UNCHANGED <<blobFiles, known>>
  /\ UNCHANGED <<actionFiles, results, tierVars, todo, ws, outcome, gcVars>>

\* Cas::stage_blob: a blob is pinned or copied for the restore; without it the
\* entry is incomplete.
Stage(r, p) ==
  /\ At(r, "stage") /\ p \in need[r] \ staged[r]
  /\ IF hit[r].outputs[p] \in blobs
       THEN /\ staged' = [staged EXCEPT ![r] = @ \cup {p}]
            /\ UNCHANGED <<pc, tries, hit, need>>
       ELSE Missed(r)
  /\ UNCHANGED <<storeVars, remoteVars, todo, ws, outcome, gcVars, faults>>

\* Mutant of Commit: outputs are written as they are staged.
CommitEarly(r) ==
  /\ At(r, "stage") /\ staged[r] # {}
  /\ ws' = [ws EXCEPT ![r] = [p \in Paths |-> IF p \in staged[r] THEN hit[r].outputs[p] ELSE @[p]]]
  /\ IF staged[r] = need[r] THEN Return(r, "hit") ELSE UNCHANGED <<pc, outcome>>
  /\ UNCHANGED <<storeVars, remoteVars, tries, hit, need, staged, todo, gcVars, faults>>

\* restore_scoped: everything is staged, and written under the output lock.
Commit(r) ==
  /\ At(r, "stage") /\ staged[r] = need[r]
  /\ ws' = [ws EXCEPT ![r] = [p \in Paths |-> IF p \in need[r] THEN hit[r].outputs[p] ELSE @[p]]]
  /\ Return(r, "hit")
  /\ UNCHANGED <<storeVars, remoteVars, tries, hit, need, staged, todo, gcVars, faults>>

\* An output cannot be written, or the process is killed: some have been.
CommitFails(r) ==
  /\ At(r, "stage") /\ staged[r] = need[r]
  /\ Fault("write")
  /\ \E done \in SUBSET need[r] :
       ws' = [ws EXCEPT ![r] = [p \in Paths |-> IF p \in done THEN hit[r].outputs[p] ELSE @[p]]]
  /\ Return(r, "failed")
  /\ UNCHANGED <<storeVars, remoteVars, tries, hit, need, staged, todo, gcVars>>

\* execute::run_admitted leaves one of the action's results in the workspace,
Execute(r) ==
  /\ At(r, "execute")
  /\ \E res \in Produced[Act(r)] :
       /\ hit' = [hit EXCEPT ![r] = res]
       /\ ws' = [ws EXCEPT ![r] = res.outputs]
       /\ todo' = [todo EXCEPT ![r] = Listing(res.streams)
                                     \o (IF res.exit = 0 THEN res.outputs ELSE <<>>)]
  /\ Goto(r, "capture")
  /\ UNCHANGED <<storeVars, remoteVars, tries, need, staged, outcome, gcVars, faults>>

\* and its streams and then, if it succeeded, its outputs are captured ...
Capture(r) ==
  /\ At(r, "capture") /\ todo[r] # <<>>
  /\ PutBlob(Head(todo[r]))
  /\ IF Remote THEN Goto(r, "mirror") /\ UNCHANGED todo
               ELSE todo' = [todo EXCEPT ![r] = Tail(@)] /\ UNCHANGED pc
  /\ UNCHANGED <<actionFiles, results, remoteVars, tries, hit, need, staged, ws, outcome, gcVars, faults>>

\* upload_local_blob: a blob the process knows is not sent; another is, with
\* its mapping, unless it is there, and is then known.
Upload(r, bs) ==
  /\ rblobs' = rblobs \cup (bs \ known[r])
  /\ mapped' = mapped \cup (bs \ known[r])
  /\ known' = [known EXCEPT ![r] = @ \cup bs]

\* Some are sent, and of others only the bytes, not the mapping.
UploadSome(r, bs) ==
  \E sent \in SUBSET (bs \ known[r]) : \E half \in SUBSET (bs \ (known[r] \cup sent)) :
    /\ rblobs' = rblobs \cup sent \cup half
    /\ mapped' = mapped \cup sent
    /\ known' = [known EXCEPT ![r] = @ \cup sent]

\* ... CacheProvider::put_stream: the size of the stored blob is read back,
\* and the blob is mirrored, best effort, unless it is too large.
Mirror(r) ==
  /\ At(r, "mirror")
  /\ LET b == Head(todo[r]) IN
     \/ b \notin blobs /\ Return(r, "failed") /\ UNCHANGED <<todo, remoteVars, faults>>
     \/ /\ b \in blobs
        /\ \/ Size[b] <= MirrorLimit /\ Upload(r, {b}) /\ UNCHANGED faults
           \/ /\ Size[b] <= MirrorLimit /\ b \notin known[r]
              /\ UploadSome(r, {b}) /\ Fault("offline")
           \/ Size[b] > MirrorLimit /\ UNCHANGED <<rblobs, mapped, known, faults>>
        /\ UNCHANGED <<rresults, evicted>>
        /\ todo' = [todo EXCEPT ![r] = Tail(@)]
        /\ Goto(r, "capture") /\ UNCHANGED outcome
  /\ UNCHANGED <<storeVars, tries, hit, need, staged, ws, gcVars>>

\* store_result: nothing for a failure, otherwise the local tier ...
Store(r) ==
  /\ At(r, "capture") /\ todo[r] = <<>>
  /\ IF hit[r].exit = 0 THEN PutResult(Act(r), hit[r]) ELSE UNCHANGED <<results, actionFiles, gc>>
  /\ IF Remote /\ hit[r].exit = 0 THEN Goto(r, "publish") /\ UNCHANGED outcome
                                  ELSE Return(r, "miss")
  /\ UNCHANGED <<blobFiles, remoteVars, tries, hit, need, staged, todo, ws, passes, faults>>

\* Mutant of Publish: the result is published whatever became of its blobs.
PublishAnyway(r) ==
  /\ At(r, "publish")
  /\ LET bs == Refs(hit[r]) IN
     /\ Upload(r, bs \cap blobs)
     /\ rresults' = [rresults EXCEPT ![Act(r)] = hit[r]]
     /\ UNCHANGED faults
  /\ Return(r, "miss")
  /\ UNCHANGED <<storeVars, evicted, tries, hit, need, staged, todo, ws, gcVars>>

\* ... and then the remote one: its blobs and, if they all are there, itself.
\* A failure at any point is only logged.
Publish(r) ==
  /\ At(r, "publish")
  /\ LET bs == Refs(hit[r])
         there == bs \subseteq blobs \cup known[r]
     IN  \/ /\ there
            /\ Upload(r, bs)
            /\ rresults' = [rresults EXCEPT ![Act(r)] = hit[r]]
            /\ UNCHANGED faults
         \/ /\ IF there THEN Fault("offline") ELSE UNCHANGED faults
            /\ UploadSome(r, bs \cap blobs)
            /\ UNCHANGED rresults
  /\ Return(r, "miss")
  /\ UNCHANGED <<storeVars, evicted, tries, hit, need, staged, todo, ws, gcVars>>

-----------------------------------------------------------------------------
(* Cas::gc *)

\* "once cache gc" starts a pass, and maybe_evict_over_cap when the store is
\* over its cap: down to four fifths of it.
StartPass ==
  /\ gc.pc = "idle" /\ passes < MaxPasses
  /\ passes' = passes + 1
  /\ \/ gc' = [Idle EXCEPT !.pc = "scan", !.max = MaxBytes]
     \/ /\ CapBytes > 0 /\ Total(blobs \cup Range(actionFiles)) > CapBytes
        /\ gc' = [Idle EXCEPT !.pc = "scan", !.max = (CapBytes * 4) \div 5]
  /\ UNCHANGED <<storeVars, remoteVars, runVars, faults>>

\* collect_blob_files and collect_action_files, which are polled in turn.
ScanBlobs ==
  /\ gc.pc = "scan" /\ gc.blobs = None
  /\ gc' = [gc EXCEPT !.blobs = blobFiles]
  /\ UNCHANGED <<storeVars, remoteVars, runVars, passes, faults>>

ScanActions ==
  /\ gc.pc = "scan" /\ gc.acts = None
  /\ gc' = [gc EXCEPT !.acts = actionFiles,
                      !.refs = [a \in Range(actionFiles) |-> Refs(results[a])],
                      !.renewed = {}]
  /\ UNCHANGED <<storeVars, remoteVars, runVars, passes, faults>>

\* Once both listings are there the pass decides what to evict.
Plan ==
  /\ gc.pc = "scan" /\ gc.blobs # None /\ gc.acts # None
  /\ LET t == TierTwo[Len(gc.acts)] IN
     gc' = IF Total(Snapshot) <= gc.max THEN Idle
           ELSE [gc EXCEPT !.pc = "remove", !.victims = t.victims, !.after = t.after]
  /\ UNCHANGED <<storeVars, remoteVars, runVars, passes, faults>>

\* Mutant of Removable: files are removed in any order.
RemovableAny(e) == e \in gc.victims \ gc.removed

\* The results are removed before the blobs.
Removable(e) ==
  /\ e \in gc.victims \ gc.removed
  /\ e \in Blobs => gc.victims \cap Actions \subseteq gc.removed

\* remove_files: one file after the other; one that is gone is no error.
RemoveFile(e) ==
  /\ gc.pc = "remove" /\ Removable(e)
  /\ gc' = [gc EXCEPT !.removed = @ \cup {e}]
  /\ IF e \in Blobs
       THEN blobFiles' = Without(blobFiles, e) /\ UNCHANGED <<actionFiles, results>>
       ELSE /\ actionFiles' = Without(actionFiles, e)
            /\ results' = [results EXCEPT ![e] = None]
            /\ UNCHANGED blobFiles
  /\ UNCHANGED <<remoteVars, runVars, passes, faults>>

EndPass ==
  /\ gc.pc = "remove" /\ gc.removed = gc.victims
  /\ gc' = Idle
  /\ UNCHANGED <<storeVars, remoteVars, runVars, passes, faults>>

\* The collecting process is killed.
Interrupt ==
  /\ gc.pc # "idle" /\ Fault("interrupt")
  /\ gc' = Idle
  /\ UNCHANGED <<storeVars, remoteVars, runVars, passes>>

\* The remote tier drops a blob, with or without its mapping (external).
EvictRemote(b) ==
  /\ b \in rblobs /\ Fault("evict")
  /\ rblobs' = rblobs \ {b} /\ evicted' = evicted \cup {b}
  /\ mapped' \in {mapped, mapped \ {b}}
  /\ UNCHANGED <<storeVars, rresults, known, runVars, gcVars>>

-----------------------------------------------------------------------------
Run(r) ==
  \/ Lookup(r) \/ Fetch(r) \/ CheckStreams(r) \/ Needing(r) \/ Commit(r) \/ CommitFails(r)
  \/ \E p \in Paths : Ensure(r, p) \/ Stage(r, p)
  \/ Execute(r) \/ Capture(r) \/ Mirror(r) \/ Store(r) \/ Publish(r)

Collect == StartPass \/ ScanBlobs \/ ScanActions \/ Plan \/ EndPass
           \/ \E e \in Blobs \cup Actions : RemoveFile(e)

Next ==
  /\ \/ \E r \in Runs : Run(r)
     \/ Collect \/ Interrupt
     \/ \E a \in Actions : Forget(a)
     \/ \E b \in Blobs : EvictRemote(b)
  /\ UNCHANGED provider

Spec == Init /\ [][Next]_vars

-----------------------------------------------------------------------------
(* Properties *)

\* "restore stages every blob before touching the workspace, so nothing is
\* left partially applied": until a run has everything, its workspace is as it
\* found it, and a run that reports a hit has exactly the outputs of the result
\* it looked up, whatever is evicted while it restores them.  (A run that fails
\* while it writes them may leave some.)
WholeOrUntouched ==
  \A r \in Runs :
    /\ pc[r] \in {"lookup", "fetch", "streams", "restore", "stage", "execute"}
         => ws[r] = [p \in Paths |-> None]
    /\ outcome[r] = "hit" => ws[r] = hit[r].outputs

\* "Blobs referenced by action results in this pass's snapshot survive until
\* those results are evicted": at every point of a pass, so also when it is
\* killed there, a result it saw, and that nobody has replaced since, has lost
\* no blob to it.
OwnersGoFirst ==
  gc.pc = "remove" =>
    \A a \in Range(gc.acts) \ gc.renewed :
      results[a] # None => gc.refs[a] \cap gc.removed = {}

\* A result other machines can look up is one they can restore: all its blobs
\* were uploaded before it, although their owner's store is being collected and
\* uploads fail, unless the remote tier itself dropped them.
PublishedIsComplete ==
  \A a \in Actions : rresults[a] # None => Refs(rresults[a]) \subseteq rblobs \cup evicted
=============================================================================
