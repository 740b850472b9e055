--------------------------- MODULE RemoteInvariant ---------------------------
(***************************************************************************)
(* The inductive invariant of RemoteLifecycle: what the step of a task and *)
(* of a pass says of locks, records and sandboxes.                         *)
(***************************************************************************)
EXTENDS RemoteLifecycle

\* The steps of a task before its record is written, and those with an Entry.
Early == {"idle", "begun", "locked"}
Holding == {"locked", "written", "ready", "sent", "made", "using",
            "deleting", "complete", "unlock", "defer"}
OwnSteps == Early \cup Holding \cup {"over", "bare"}

\* The steps of a pass with an Entry, and of those the ones before its record is erased.
Has == {"find", "found", "delete", "finish", "unlock", "defer"}
Repairing == {"find", "found", "delete", "finish", "defer"}
PassSteps == Has \cup {"off", "scanned", "orphan", "next", "opened", "claimed"}

Phases == {"none", "intent", "created"}
PassT == [pc : PassSteps, todo : Seq(Ops), locks : SUBSET Ops, acted : Nat,
          file : {"linked", "unlinked"}]

LifecycleTypeOK ==
  /\ own \in [Ops -> OwnSteps]
  /\ owner \in [Ops -> Procs \cup {Free}]
  /\ record \in [Ops -> Phases]
  /\ versions \in [Ops -> SUBSET Phases]
  /\ settled \in [Ops -> BOOLEAN]
  /\ lockHolder \in [Ops -> Ops \cup Procs \cup {Free}]
  /\ alive \in [Procs -> BOOLEAN]
  /\ rec \in [Procs -> PassT]
  /\ sandbox \in [Ops -> {"none", "pending", "live", "gone"}]

\* What the step of a task says of its locks, its record and its sandbox.
TaskOK(o) ==
  /\ own[o] \notin {"idle", "over"} => owner[o] \in Procs /\ alive[owner[o]]
  /\ own[o] \in Holding => lockHolder[o] = o
  /\ own[o] \in {"begun", "locked", "written"} => capLock = o
  /\ own[o] \in Early \cup {"unlock"} => record[o] = "none"
  /\ own[o] \in Early => versions[o] = {"none"}
  /\ own[o] \in Holding \ {"locked", "unlock"} => record[o] # "none"
  /\ own[o] \in Early \cup {"written", "ready"} => sandbox[o] = "none" /\ ~settled[o]
  /\ own[o] \in {"made", "using"} => sandbox[o] = "live"
  /\ own[o] = "complete" => sandbox[o] \notin {"pending", "live"}
  /\ own[o] = "ready" => "none" \notin versions[o]

\* What is known of a sandbox.
SandboxOK(o) ==
  /\ sandbox[o] \in {"pending", "live"} => record[o] # "none" /\ "none" \notin versions[o]
  /\ settled[o] => sandbox[o] # "pending"

\* Nobody has an Entry of the operation, and nobody will: its record is gone.
Resolved(o) ==
  /\ record[o] = "none" /\ own[o] \in {"over", "bare"}
  /\ \A q \in Procs : ~PassHas(q, o)

\* What the step of a pass says of the operation it is at.
PassOK(p) ==
  LET r == rec[p]
      o == Head(r.todo)
  IN /\ r.pc # "off" => alive[p]
     /\ r.pc \notin {"off", "scanned"} => r.todo # <<>>
     /\ \A i \in DOMAIN r.todo : (r.pc = "orphan" /\ i = 1) \/ own[r.todo[i]] \notin Early
     /\ r.pc \in {"orphan", "claimed"} \cup Has /\ r.file = "linked" => lockHolder[o] = p
     /\ r.pc \in {"orphan", "opened", "claimed"} /\ r.file = "unlinked" => Resolved(o)
     /\ r.pc \in {"off", "scanned", "next"} \cup Has => r.file = "linked"
     /\ r.pc \in Repairing => record[o] # "none"
     /\ r.pc = "unlock" => record[o] = "none"
     /\ r.pc = "finish" => sandbox[o] \notin {"pending", "live"}

LifecycleInv ==
  /\ LifecycleTypeOK
  /\ \A o \in Ops : TaskOK(o) /\ SandboxOK(o)
  /\ \A p \in Procs : PassOK(p)

\* What a step that concerns another operation leaves as it is.
Same(x) ==
  /\ own'[x] = own[x] /\ owner'[x] = owner[x] /\ record'[x] = record[x]
  /\ "none" \notin versions[x] /\ record[x] # "none" => "none" \notin versions'[x]
  /\ versions[x] = {"none"} /\ record[x] = "none" => versions'[x] = {"none"}
  /\ settled'[x] => settled[x]
  /\ lockHolder'[x] = lockHolder[x] /\ sandbox'[x] = sandbox[x]
  /\ capLock = x => capLock' = x

\* The passes that have not got to the record.
Waiting == {"off", "scanned", "next", "opened"}
=============================================================================
