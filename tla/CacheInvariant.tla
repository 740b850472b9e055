--------------------------- MODULE CacheInvariant ---------------------------
(***************************************************************************)
(* The inductive invariant of ActionCache: what the store, the runs, the   *)
(* remote tier and a pass of the collector know of each other.             *)
(***************************************************************************)
EXTENDS ActionCache

\* The files are listed once, and an action file holds a result.
StoreOK ==
  /\ results \in [Actions -> Results \cup {None}]
  /\ blobFiles \in Seq(Blobs) /\ IsInjective(blobFiles)
  /\ actionFiles \in Seq(Actions) /\ IsInjective(actionFiles)
  /\ \A a \in Range(actionFiles) : results[a] # None

\* A run has the result it works on, an untouched workspace until it commits or
\* executes, and needs exactly the outputs that differ.
RunOK(r) ==
  /\ hit[r] \in Results \cup {None}
  /\ pc[r] \in {"streams", "restore", "stage", "capture", "mirror", "publish"} => hit[r] \in Results
  /\ pc[r] \in {"lookup", "fetch", "streams", "restore", "stage", "execute"} => ws[r] = [p \in Paths |-> None]
  /\ pc[r] = "stage" => need[r] = {p \in Paths : ws[r][p] # hit[r].outputs[p]}
  /\ outcome[r] = "hit" => pc[r] = "done" /\ ws[r] = hit[r].outputs
  /\ pc[r] \in {"capture", "mirror"} => todo[r] \in Seq(Blobs)
  /\ pc[r] = "mirror" => todo[r] # <<>>

RunsOK ==
  /\ DOMAIN pc = Runs /\ DOMAIN hit = Runs /\ DOMAIN need = Runs /\ DOMAIN ws = Runs
  /\ DOMAIN outcome = Runs /\ DOMAIN todo = Runs
  /\ \A r \in Runs : RunOK(r)

\* What a process knows of, what has a mapping and what a published result
\* references has been uploaded.
TierOK ==
  /\ rresults \in [Actions -> Results \cup {None}]
  /\ DOMAIN known = Runs
  /\ mapped \subseteq rblobs \cup evicted
  /\ \A r \in Runs : known[r] \subseteq rblobs \cup evicted
  /\ PublishedIsComplete

Passes ==
  [pc : {"idle", "scan", "remove"}, max : Nat, blobs : Seq(Blobs) \cup {None}, acts : Seq(Actions) \cup {None},
   refs : (UNION {[as -> SUBSET Blobs] : as \in SUBSET Actions}) \cup {None},
   victims : SUBSET (Blobs \cup Actions), after : Nat,
   removed : SUBSET (Blobs \cup Actions), renewed : SUBSET Actions]

\* A pass lists files once, and removes what it decided to, results first.
GcOK ==
  /\ gc \in Passes
  /\ gc.blobs # None => IsInjective(gc.blobs)
  /\ gc.acts # None => IsInjective(gc.acts) /\ gc.refs \in [Range(gc.acts) -> SUBSET Blobs]
  /\ gc.pc = "remove" =>
       /\ gc.blobs # None /\ gc.acts # None /\ gc.removed \subseteq gc.victims
       /\ gc.removed \cap Blobs # {} => gc.victims \cap Actions \subseteq gc.removed
       /\ \A a \in (gc.removed \cap Actions) \ gc.renewed : results[a] = None
  /\ gc.pc = "scan" => gc.removed = {}
  /\ EvictionPolicy

CacheInv == StoreOK /\ RunsOK /\ TierOK /\ GcOK
=============================================================================
