--------------------------- MODULE DeferredOutputs ---------------------------
(***************************************************************************)
(* One target's declared actions, run in order (commands/graph/analysis/   *)
(* actions.rs and actions/).  An action found in the cache leaves its      *)
(* outputs there: they are put on disk when a later action that runs may   *)
(* read or overwrite them, or in a window of restorations when the target  *)
(* finishes.  Actions that touch nothing in common run as one batch.       *)
(*                                                                         *)
(* A path is known by the files at or under it, and a blob digest by the   *)
(* number of the action that made it: the blob of action k at path p holds *)
(* the bytes k in every file under p.  Each restoration of a result (its   *)
(* repair included, module OutputRecovery) is one step, except in the      *)
(* window, where restorations overlap in time.                             *)
(***************************************************************************)
EXTENDS Integers, Sequences, FiniteSets
LOCAL INSTANCE SequencesExt
LOCAL INSTANCE Functions
LOCAL INSTANCE TLC

CONSTANTS
    Files,      \* the files of the target's output directory
    Under,      \* [path |-> the files at or under it]
    Opaque,     \* the paths whose footprint cannot be resolved
    Programs,   \* the lists of declared actions a target may have
    Parallel    \* resources.limits().max_parallel_actions()

VARIABLES
    program,    \* the target's declared actions
    taken,      \* how many of them have been taken from `pending`
    batch,      \* the batch that is running: member number |-> its progress
    target,     \* DeclaredActionsState: available inputs, the two pending lists
    disk,       \* [file |-> the action whose bytes it holds, 0 for none]
    inOrder,    \* what the disk would hold had every result gone there at once
    phase,      \* "actions", "expanding", "window", "done" or "failed"
    window      \* restore_recovering: next, the active results, the failure

deferredVars == <<program, taken, batch, target, disk, inOrder, phase, window>>

Paths == DOMAIN Under
Within(p, q) == Under[p] \subseteq Under[q]
Overlap(p, q) == Within(p, q) \/ Within(q, p)
Nearest(paths) == CHOOSE p \in paths : \A q \in paths : Within(p, q)

(* The disk once the blobs `outputs` names are in place, parents first. *)
Put(files, outputs) ==
    [f \in Files |->
        LET owners == {p \in DOMAIN outputs : f \in Under[p]} IN
        IF owners = {} THEN files[f] ELSE outputs[Nearest(owners)]]

-----------------------------------------------------------------------------
(* Declared actions.                                                       *)

(* TouchedPath::Replaced: what an action writes, cleans or removes; `logs`  *)
(* stands for stdout, stderr and arg_files.                                *)
Replaced(a) == a.outputs \cup a.clean \cup a.logs

conflictsWith(a, p) ==
    \/ \E q \in Replaced(a) : Overlap(p, q)
    \/ \E d \in a.dirs : Within(d, p)

accesses(a) == Replaced(a) \cup a.inputs

conflicts(a, b) ==
    \/ \E p \in Replaced(a), q \in accesses(b) : Overlap(p, q)
    \/ \E p \in Replaced(b), q \in accesses(a) : Overlap(p, q)
    \/ \E p \in a.clean, d \in b.dirs : Overlap(p, d)
    \/ \E p \in b.clean, d \in a.dirs : Overlap(p, d)
    \/ \E d \in a.dirs, p \in Replaced(b) : Within(d, p)
    \/ \E d \in b.dirs, p \in Replaced(a) : Within(d, p)
    \/ ~a.cacheable
    \/ ~b.cacheable

(* How many actions join the one at position `first` in its batch. *)
take_batch(first) ==
    LET Joins(n) == \A k \in first + 1 .. first + n - 1 :
            /\ ~program[k].prior
            /\ \A j \in first .. k - 1 : ~conflicts(program[j], program[k])
    IN  IF program[first].prior THEN 1
        ELSE CHOOSE n \in 1 .. Parallel :
                /\ first + n - 1 <= Len(program)
                /\ Joins(n)
                /\ \/ n = Parallel
                   \/ first + n > Len(program)
                   \/ ~Joins(n + 1)

-----------------------------------------------------------------------------
(* Footprints (materialization/paths.rs): a path that cannot be resolved   *)
(* may be an alias of any other.                                           *)

disjoint(left, right) ==
    \/ left = {}
    \/ right = {}
    \/ /\ (left \cup right) \cap Opaque = {}
       /\ \A p \in left, q \in right : ~Overlap(p, q)

creation_conflicts(d, pending) ==
    /\ pending # {}
    /\ \/ (pending \cup {d}) \cap Opaque # {}
       \/ \E p \in pending : Within(d, p)

independent_members(paths, candidates) ==
    IF candidates = {} THEN {}
    ELSE IF Cardinality(paths) = 1 THEN candidates \cap paths
    ELSE IF paths \cap Opaque # {} THEN {}
    ELSE {c \in candidates \cap paths : \A p \in paths \ {c} : ~Overlap(c, p)}

batch_len(results) ==
    LET Apart(n) == \A k \in 1 .. n :
            /\ DOMAIN results[k] \cap Opaque = {}
            /\ \A j \in 1 .. k - 1 : disjoint(DOMAIN results[j], DOMAIN results[k])
    IN  IF Len(results) = 1 \/ Parallel <= 1 THEN 1
        ELSE CHOOSE n \in 1 .. Len(results) :
                /\ n = 1 \/ (n <= Parallel /\ Apart(n))
                /\ \/ n = Len(results)
                   \/ n = Parallel
                   \/ ~Apart(n + 1)

-----------------------------------------------------------------------------
(* The pending results and what is restored before an action runs          *)
(* (actions/pending_outputs.rs).                                           *)

enclosing_available_output(available, input) ==
    LET above == {p \in DOMAIN available : Within(input, p)} IN
    IF above = {} THEN {} ELSE {Nearest(above)}

pending(t) == t.cached \o t.intermediate

PathsOf(results) == UNION {DOMAIN results[k] : k \in DOMAIN results}

Required(available, a) ==
    UNION {enclosing_available_output(available, i) : i \in a.inputs}

reusable_inputs(results, available, required) ==
    LET Latest(p) == LET holders == {k \in DOMAIN results : p \in DOMAIN results[k]} IN
                   results[CHOOSE k \in holders : \A j \in holders : j <= k][p]
        prior == PathsOf(results)
    IN  independent_members(prior,
            {p \in required \cap prior : Latest(p) = available[p].digest})

(* restore_with: the new disk, the paths restored, and those now ready. *)
Restoration(results, available, a, files) ==
    LET required == Required(available, a)
        prior == PathsOf(results)
        mutations == Replaced(a) \cup {d \in a.dirs : creation_conflicts(d, prior)}
        unselected == {p \in prior : \A r \in required : ~Overlap(p, r)}
        all == \/ a.prior
               \/ ~disjoint(prior, mutations)
               \/ ~disjoint(unselected, required)
        chosen == IF all THEN prior ELSE prior \ unselected
        passed == FoldLeft(LAMBDA d, r : Put(d, Restrict(r, DOMAIN r \cap chosen)),
                           files, results)
        reusable == IF all THEN {} ELSE reusable_inputs(results, available, required)
        wanted == {p \in required \ reusable : ~available[p].materialized}
        kept == {p \in chosen : \A w \in wanted : p = w \/ ~Within(p, w)} \cup wanted
    IN  [disk |-> Put(passed, [p \in wanted |-> available[p].digest]),
         paths |-> kept, ready |-> kept \cup required]

NothingRestored == [paths |-> {}, ready |-> {}]

Drop(results, gone) ==
    SelectSeq([k \in DOMAIN results |-> Restrict(results[k], DOMAIN results[k] \ gone)],
              LAMBDA r : DOMAIN r # {})

mark_restored(t, r) ==
    [available |-> [p \in DOMAIN t.available |->
                       IF p \in r.ready
                       THEN [t.available[p] EXCEPT !.materialized = TRUE]
                       ELSE t.available[p]],
     cached |-> Drop(t.cached, r.paths),
     intermediate |-> Drop(t.intermediate, r.paths)]

-----------------------------------------------------------------------------
(* What an outcome changes (DeclaredActionsState::record).                 *)

Superseded(p, outputs) == \E q \in outputs : Within(p, q)

prune_replaced_descendants(available, outputs) ==
    Restrict(available, {p \in DOMAIN available : ~Superseded(p, outputs)})

(* Mutant: an output that was cleaned still counts as on disk. *)
ForgetNothing(available, a) == available

forget_replaced_materializations(available, a) ==
    [p \in DOMAIN available |->
        IF ~Superseded(p, a.outputs) /\ (\E q \in Replaced(a) : Within(p, q))
        THEN [available[p] EXCEPT !.materialized = FALSE]
        ELSE available[p]]

track_cached_result(results, a, k, hit, alone, intermediate) ==
    IF ~hit /\ alone /\ a.prior THEN <<>>
    ELSE LET left == Drop(results, {p \in PathsOf(results) : \/ ~hit /\ conflictsWith(a, p)
                                                             \/ Superseded(p, a.outputs)})
         IN  IF hit /\ a.intermediate = intermediate /\ a.outputs # {}
             THEN Append(left, [p \in a.outputs |-> k])
             ELSE left

record(t, k, hit, restored, alone) ==
    LET a == program[k]
        marked == mark_restored(t, restored)
        made == [p \in a.outputs |-> [digest |-> k, materialized |-> ~hit]]
        available == made @@ prune_replaced_descendants(marked.available, a.outputs)
    IN  [available |-> IF hit THEN available
                       ELSE forget_replaced_materializations(available, a),
         cached |-> track_cached_result(marked.cached, a, k, hit, alone, FALSE),
         intermediate |->
             track_cached_result(marked.intermediate, a, k, hit, alone, TRUE)]

(* The disk after the command of action k: it cleans, then writes. *)
Executed(files, k) ==
    LET a == program[k]
        cleaned == Put(files, [p \in a.clean |-> 0])
    IN  Put(cleaned, [p \in a.outputs \cup a.logs |-> k])

-----------------------------------------------------------------------------
DeferredInit ==
    /\ program \in Programs
    /\ taken = 0
    /\ batch = <<>>
    /\ target = [available |-> <<>>, cached |-> <<>>, intermediate |-> <<>>]
    /\ disk = [f \in Files |-> 0]
    /\ inOrder = [f \in Files |-> 0]
    /\ phase = "actions"
    /\ window = [next |-> 1, active |-> <<>>, failed |-> FALSE]

Members == DOMAIN batch
Alone == Cardinality(Members) = 1

(* What an action of the running batch is given to restore from: the       *)
(* pending results when it is alone, nothing when its batch restored them. *)
PriorResults == IF Alone THEN pending(target) ELSE <<>>

(* A deferred expansion puts the inputs it declares on disk, without        *)
(* recording that, and adds the actions it plans to the front of the queue.*)
BeginExpansion ==
    /\ phase = "actions"
    /\ batch = <<>>
    /\ taken < Len(program)
    /\ program[taken + 1].expands
    /\ phase' = "expanding"
    /\ disk' = LET missing == {p \in Required(target.available, program[taken + 1]) :
                                 ~target.available[p].materialized}
               IN  Put(disk, [p \in missing |-> target.available[p].digest])
    /\ UNCHANGED <<program, taken, batch, target, inOrder, window>>

EndExpansion ==
    /\ phase = "expanding"
    /\ \/ phase' = "actions" /\ taken' = taken + 1
       \/ phase' = "failed" /\ UNCHANGED taken
    /\ UNCHANGED <<program, batch, target, disk, inOrder, window>>

(* The target and the disk once the first m actions of the next batch have *)
(* restored what they need, one after the other.                           *)
Prepared(m) ==
    LET Prepare(s, k) ==
            LET r == Restoration(pending(s.target), s.target.available,
                                 program[k], s.disk)
            IN  [target |-> mark_restored(s.target, r), disk |-> r.disk]
    IN  FoldLeft(Prepare, [target |-> target, disk |-> disk],
                 [i \in 1 .. m |-> taken + i])

AtNextAction ==
    /\ phase = "actions"
    /\ batch = <<>>
    /\ taken < Len(program)
    /\ ~program[taken + 1].expands

(* Several actions restore before any of them runs; an action alone         *)
(* restores after its cache probe.                                          *)
TakeBatch ==
    /\ AtNextAction
    /\ LET n == take_batch(taken + 1)
           prepared == Prepared(IF n = 1 THEN 0 ELSE n)
       IN  /\ batch' = [k \in taken + 1 .. taken + n |->
                           [pc |-> "probe", restored |-> NothingRestored]]
           /\ taken' = taken + n
           /\ target' = prepared.target
           /\ disk' = prepared.disk
    /\ UNCHANGED <<program, inOrder, phase, window>>

(* A restoration for a batch of several fails, and with it the target. *)
PreparationFails ==
    /\ AtNextAction
    /\ take_batch(taken + 1) > 1
    /\ \E m \in 0 .. take_batch(taken + 1) - 1 :
          /\ target' = Prepared(m).target
          /\ disk' = Prepared(m).disk
    /\ phase' = "failed"
    /\ UNCHANGED <<program, taken, batch, inOrder, window>>

(* probe_cached_action finds the whole result in the cache. *)
CacheHit(k) ==
    /\ batch[k].pc = "probe"
    /\ program[k].cacheable
    /\ batch' = [batch EXCEPT ![k].pc = "hit"]
    /\ UNCHANGED <<program, taken, target, disk, inOrder, phase, window>>

(* A miss, or an action that is never cached, restores its prerequisites. *)
RestorePrerequisites(k) ==
    /\ batch[k].pc = "probe"
    /\ LET r == Restoration(PriorResults, target.available, program[k], disk) IN
       /\ disk' = r.disk
       /\ batch' = [batch EXCEPT ![k] =
                       [pc |-> "ready", restored |-> [paths |-> r.paths, ready |-> r.ready]]]
    /\ UNCHANGED <<program, taken, target, inOrder, phase, window>>

(* Another process held the action's lock and left its result behind. *)
ContendedHit(k) ==
    /\ batch[k].pc = "ready"
    /\ program[k].cacheable
    /\ batch' = [batch EXCEPT ![k].pc = "hit"]
    /\ UNCHANGED <<program, taken, target, disk, inOrder, phase, window>>

Execute(k) ==
    /\ batch[k].pc = "ready"
    /\ batch' = [batch EXCEPT ![k].pc = "ran"]
    /\ disk' = Executed(disk, k)
    /\ UNCHANGED <<program, taken, target, inOrder, phase, window>>

(* A restoration, the setup or the command fails. *)
ActionFails(k) ==
    /\ batch[k].pc \in {"probe", "ready"}
    /\ batch' = [batch EXCEPT ![k].pc = "failed"]
    /\ UNCHANGED <<program, taken, target, disk, inOrder, phase, window>>

(* join_all returned: the outcomes are recorded in the batch's order, then *)
(* the first failure ends the target.                                      *)
RecordBatch ==
    /\ batch # <<>>
    /\ \A k \in Members : batch[k].pc \in {"hit", "ran", "failed"}
    /\ LET done == {k \in Members : batch[k].pc # "failed"}
           Record(t, k) == record(t, k, batch[k].pc = "hit", batch[k].restored, Alone)
           InOrder(d, k) == IF batch[k].pc = "hit"
                            THEN Put(d, [p \in program[k].outputs |-> k])
                            ELSE Executed(d, k)
           order == SetToSortSeq(done, <)
       IN  /\ target' = FoldLeft(Record, target, order)
           /\ inOrder' = FoldLeft(InOrder, inOrder, order)
           /\ phase' = IF done = Members THEN phase ELSE "failed"
    /\ batch' = <<>>
    /\ UNCHANGED <<program, taken, disk, window>>

-----------------------------------------------------------------------------
(* The window that puts a finished target's deferred outputs on disk       *)
(* (materialization/window.rs).                                            *)

results == target.cached
Active == DOMAIN window.active

(* Mutant: a result joins the window whatever is being restored. *)
ActiveAnyway(k) == TRUE

(* disjoint_from_results *)
ActiveApart(k) == \A i \in Active : disjoint(DOMAIN results[i], DOMAIN results[k])

Admits ==
    /\ ~window.failed
    /\ window.next <= Len(results)
    /\ \/ Active = {}
       \/ Cardinality(Active) < Parallel /\ ActiveApart(window.next)

FinishActions ==
    /\ phase = "actions"
    /\ batch = <<>>
    /\ taken = Len(program)
    /\ phase' = "window"
    /\ UNCHANGED <<program, taken, batch, target, disk, inOrder, window>>

(* An empty window takes a whole batch of results, any other one result. *)
AdmitRestorations ==
    /\ phase = "window"
    /\ Admits
    /\ LET n == IF Active = {}
                THEN batch_len(SubSeq(results, window.next, Len(results)))
                ELSE 1
           admitted == [k \in window.next .. window.next + n - 1 |->
                           [pc |-> "validate", needs |-> {}]]
       IN  window' = [window EXCEPT !.next = @ + n, !.active = @ @@ admitted]
    /\ UNCHANGED <<program, taken, batch, target, disk, inOrder, phase>>

(* outputs_needing_restore: an output whose bytes are in place is left     *)
(* out, unless a parent of it is restored.                                 *)
ValidateOutputs(k) ==
    /\ ~Admits
    /\ window.active[k].pc = "validate"
    /\ LET r == results[k]
           differs == {p \in DOMAIN r : \E f \in Under[p] : disk[f] # r[p]}
           needs == {p \in DOMAIN r : \E q \in differs : Within(p, q)}
       IN  window' = [window EXCEPT !.active[k] = [pc |-> "commit", needs |-> needs]]
    /\ UNCHANGED <<program, taken, batch, target, disk, inOrder, phase>>

CommitOutputs(k) ==
    /\ ~Admits
    /\ window.active[k].pc = "commit"
    /\ disk' = Put(disk, Restrict(results[k], window.active[k].needs))
    /\ window' = [window EXCEPT !.active[k].pc = "restored"]
    /\ UNCHANGED <<program, taken, batch, target, inOrder, phase>>

RestorationFails(k) ==
    /\ ~Admits
    /\ window.active[k].pc \in {"validate", "commit"}
    /\ window' = [window EXCEPT !.active[k].pc = "failed"]
    /\ UNCHANGED <<program, taken, batch, target, disk, inOrder, phase>>

(* running.next() yields a finished restoration. *)
ReapRestoration(k) ==
    /\ ~Admits
    /\ window.active[k].pc \in {"restored", "failed"}
    /\ window' = [window EXCEPT !.active = Restrict(@, Active \ {k}),
                                !.failed = @ \/ window.active[k].pc = "failed"]
    /\ UNCHANGED <<program, taken, batch, target, disk, inOrder, phase>>

FinishTarget ==
    /\ phase = "window"
    /\ ~Admits
    /\ Active = {}
    /\ phase' = IF window.failed THEN "failed" ELSE "done"
    /\ UNCHANGED <<program, taken, batch, target, disk, inOrder, window>>

DeferredNext ==
    \/ BeginExpansion
    \/ EndExpansion
    \/ TakeBatch
    \/ PreparationFails
    \/ \E k \in Members :
          \/ CacheHit(k)
          \/ RestorePrerequisites(k)
          \/ ContendedHit(k)
          \/ Execute(k)
          \/ ActionFails(k)
    \/ RecordBatch
    \/ FinishActions
    \/ AdmitRestorations
    \/ \E k \in Active :
          \/ ValidateOutputs(k)
          \/ CommitOutputs(k)
          \/ RestorationFails(k)
          \/ ReapRestoration(k)
    \/ FinishTarget

DeferredSpec == DeferredInit /\ [][DeferredNext]_deferredVars

-----------------------------------------------------------------------------
(* Whatever was restored, deferred, replaced or forgotten before, a command *)
(* or expansion about to run finds in each of its declared inputs the bytes *)
(* its cache key stands for: those of the last action that produced the     *)
(* output the input belongs to, or, in a file that a later output of the    *)
(* target lies over, those of that output.  A command that depends on the   *)
(* actions before it finds everything else as they left it (restore_with,   *)
(* mark_restored, record).                                                  *)
InputsAsProduced ==
    LET Ready == {k \in Members : batch[k].pc = "ready"}
        Starting == Ready \cup (IF phase = "expanding" THEN {taken + 1} ELSE {})
        Declared(k) == UNION {Under[p] : p \in Required(target.available, program[k])}
    IN  /\ \A k \in Starting :
             \A i \in program[k].inputs :
               \A p \in enclosing_available_output(target.available, i), f \in Under[i] :
                 \E q \in DOMAIN target.available :
                   /\ f \in Under[q]
                   /\ Within(q, p)
                   /\ disk[f] = target.available[q].digest
        /\ \A k \in Ready : program[k].prior =>
             \A f \in Files \ Declared(k) : inOrder[f] \in {0, disk[f]}

(* A target that finished leaves on disk what its actions would have left   *)
(* there had each result been put in place in order: deferring an output    *)
(* neither loses it nor puts it back over a later one.  Only outputs of     *)
(* intermediate actions may be missing (track_cached_result,                *)
(* restore_recovering).                                                     *)
FinishedAsInOrder ==
    phase = "done" =>
        \A f \in Files : inOrder[f] # 0 =>
            \/ disk[f] = inOrder[f]
            \/ program[inOrder[f]].intermediate

=============================================================================
