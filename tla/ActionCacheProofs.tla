-------------------------- MODULE ActionCacheProofs --------------------------
(***************************************************************************)
(* Proofs about the action cache: every step of a run, of the collector    *)
(* and of the remote tier keeps the invariant of CacheInvariant, and what  *)
(* follows from it for every number of runs, actions and blobs.            *)
(***************************************************************************)
EXTENDS CacheInvariant, EvictionProofs

-----------------------------------------------------------------------------
(* Listings *)

\* A sequence over a set, and what is left of it.
LEMMA SequenceFacts ==
  /\ \A S, T : S \subseteq T => \A s \in Seq(S) : s \in Seq(T)
  /\ \A S : \A s \in Seq(S) : s # <<>> => Tail(s) \in Seq(S)
OBVIOUS

\* A new file is the youngest one.
LEMMA Appended ==
  ASSUME NEW S, NEW s \in Seq(S), IsInjective(s), NEW e \in S, e \notin Range(s)
  PROVE  /\ Append(s, e) \in Seq(S) /\ IsInjective(Append(s, e))
         /\ Range(Append(s, e)) = Range(s) \cup {e}
<1> DEFINE w == Append(s, e)
<1>1. w \in Seq(S) /\ Len(w) = Len(s) + 1 /\ DOMAIN w = 1..(Len(s) + 1) /\ DOMAIN s = 1..Len(s) /\ Len(s) \in Nat
  OBVIOUS
<1>2. w[Len(s) + 1] = e /\ \A i \in 1..Len(s) : w[i] = s[i]
  OBVIOUS
<1>3. \A i \in 1..(Len(s) + 1) : i \in 1..Len(s) \/ i = Len(s) + 1
  OBVIOUS
<1>4. (\A i \in 1..Len(s) : i \in 1..(Len(s) + 1)) /\ Len(s) + 1 \in 1..(Len(s) + 1)
  OBVIOUS
<1> HIDE DEF w
<1>5. Range(w) = Range(s) \cup {e}
  BY <1>1, <1>2, <1>3, <1>4 DEF Range
<1>6. IsInjective(w)
  BY <1>1, <1>2, <1>3 DEF IsInjective, Range
<1> QED
  BY <1>1, <1>5, <1>6 DEF w

\* A file is taken out of a listing.
LEMMA TakenOut ==
  ASSUME NEW S, NEW s \in Seq(S), IsInjective(s), NEW e
  PROVE  /\ Without(s, e) \in Seq(S) /\ IsInjective(Without(s, e))
         /\ Range(Without(s, e)) = Range(s) \ {e}
<1> DEFINE at == {i \in DOMAIN s : s[i] = e}
<1>1. CASE at = {}
  BY <1>1 DEF Without, Range
<1>2. CASE at # {}
  <2> DEFINE k == CHOOSE i \in at : TRUE
             w == [j \in 1..(Len(s) - 1) |-> IF j < k THEN s[j] ELSE s[j + 1]]
  <2>1. Without(s, e) = w
    BY <1>2 DEF Without
  <2>2. k \in 1..Len(s) /\ s[k] = e /\ Len(s) \in Nat /\ DOMAIN s = 1..Len(s)
    BY <1>2
  <2> HIDE DEF k
  <2>3. \A j \in 1..(Len(s) - 1) : j \in 1..Len(s) /\ j + 1 \in 1..Len(s)
    BY <2>2
  <2>4. Len(s) - 1 \in Nat /\ w \in [1..(Len(s) - 1) -> S]
    BY <2>2, <2>3
  <2>5. w \in Seq(S) /\ Len(w) = Len(s) - 1
    <3> HIDE DEF w
    <3> QED
      BY <2>4
  <2>6. \A j \in 1..(Len(s) - 1) : w[j] = IF j < k THEN s[j] ELSE s[j + 1]
    OBVIOUS
  <2> HIDE DEF w
  <2>7. DOMAIN w = 1..(Len(s) - 1)
    BY <2>5
  <2>8. \A i, j \in 1..Len(s) : s[i] = s[j] => i = j
    BY <2>2 DEF IsInjective
  <2>9. ASSUME NEW i \in 1..(Len(s) - 1), NEW j \in 1..(Len(s) - 1), w[i] = w[j] PROVE i = j
    BY <2>2, <2>6, <2>8, <2>9
  <2>10. IsInjective(w)
    BY <2>7, <2>9, Zenon DEF IsInjective
  <2>11. ASSUME NEW x \in Range(w) PROVE x \in Range(s) \ {e}
    <3>1. PICK i \in 1..(Len(s) - 1) : x = w[i]
      BY <2>7 DEF Range
    <3>2. PICK j \in 1..Len(s) : x = s[j] /\ j # k
      BY <2>2, <2>6, <3>1
    <3> QED
      BY <2>2, <2>8, <3>2 DEF Range
  <2>12. ASSUME NEW x \in Range(s) \ {e} PROVE x \in Range(w)
    <3>1. PICK j \in 1..Len(s) : x = s[j]
      BY <2>2 DEF Range
    <3>2. j # k
      BY <2>2, <2>12, <3>1
    <3>3. CASE j < k
      <4>1. j \in 1..(Len(s) - 1) /\ w[j] = x
        BY <2>2, <2>6, <3>1, <3>3
      <4> QED
        BY <2>7, <4>1 DEF Range
    <3>4. CASE j > k
      <4>1. j - 1 \in 1..(Len(s) - 1) /\ w[j - 1] = s[(j - 1) + 1] /\ (j - 1) + 1 = j
        BY <2>2, <2>6, <3>4
      <4> QED
        BY <2>7, <3>1, <4>1 DEF Range
    <3> QED
      BY <2>2, <3>2, <3>3, <3>4
  <2>13. Range(w) = Range(s) \ {e}
    BY <2>11, <2>12
  <2> QED
    BY <2>1, <2>5, <2>10, <2>13
<1> QED
  BY <1>1, <1>2

\* A finite set can be listed.
LEMMA ListingOf ==
  ASSUME NEW S, IsFiniteSet(S)
  PROVE  /\ Listing(S) \in Seq(S) /\ IsInjective(Listing(S))
         /\ Range(Listing(S)) \subseteq S
<1>1. Cardinality(S) \in Nat /\ ExistsBijection(1..Cardinality(S), S)
  BY FS_CardinalityType
<1>2. \E s \in [1..Cardinality(S) -> S] : IsInjective(s)
  BY <1>1 DEF ExistsBijection, Bijection, Injection
<1>3. Listing(S) \in [1..Cardinality(S) -> S] /\ IsInjective(Listing(S))
  BY <1>2 DEF Listing
<1>4. Listing(S) \in Seq(S)
  BY <1>1, <1>3
<1>5. Range(Listing(S)) \subseteq S
  BY <1>3 DEF Range
<1> QED
  BY <1>3, <1>4, <1>5

\* What a result references is blobs.
LEMMA ResultParts ==
  ASSUME NEW res \in Results
  PROVE  /\ \A p \in Paths : res.outputs[p] \in Blobs
         /\ res.streams \subseteq Blobs /\ Refs(res) \subseteq Blobs /\ res # None
         /\ IsFiniteSet(res.streams) /\ res.outputs \in Seq(Blobs)
<1>1. res.outputs \in [Paths -> Blobs] /\ res.streams \subseteq Blobs /\ res # None
  BY CacheAssumption DEF Results
<1>2. IsFiniteSet(res.streams)
  BY <1>1, EvictionAssumption, FS_Subset
<1>3. res.outputs \in Seq(Blobs)
  BY <1>1, CacheAssumption DEF Paths
<1> QED
  BY <1>1, <1>2, <1>3 DEF Refs

-----------------------------------------------------------------------------
(* The store *)

\* put_blob keeps the store.
LEMMA PutBlobKeeps ==
  ASSUME StoreOK, NEW b \in Blobs, PutBlob(b), UNCHANGED <<actionFiles, results>>
  PROVE  StoreOK'
<1>1. blobFiles' \in Seq(Blobs) /\ IsInjective(blobFiles')
  BY Appended DEF StoreOK, PutBlob, blobs
<1> QED
  BY <1>1 DEF StoreOK

\* put_action_result keeps it.
LEMMA PutResultKeeps ==
  ASSUME StoreOK, NEW a \in Actions, NEW res \in Results, PutResult(a, res), UNCHANGED blobFiles
  PROVE  StoreOK'
<1> DEFINE w == Without(actionFiles, a)
<1>1. w \in Seq(Actions) /\ IsInjective(w) /\ Range(w) = Range(actionFiles) \ {a}
  BY TakenOut DEF StoreOK
<1>2. actionFiles' = Append(w, a) /\ results' = [results EXCEPT ![a] = res]
  BY DEF PutResult
<1> HIDE DEF w
<1>3. /\ actionFiles' \in Seq(Actions) /\ IsInjective(actionFiles')
      /\ Range(actionFiles') = Range(w) \cup {a}
  BY <1>1, <1>2, Appended
<1>4. res # None /\ results \in [Actions -> Results \cup {None}]
  BY ResultParts DEF StoreOK
<1>5. results' \in [Actions -> Results \cup {None}]
  BY <1>2, <1>4
<1>6. \A c \in Range(actionFiles') : results'[c] # None
  <2> SUFFICES ASSUME NEW c \in Range(actionFiles') PROVE results'[c] # None
    OBVIOUS
  <2>1. CASE c = a
    BY <1>2, <1>4, <2>1
  <2>2. CASE c # a
    <3>1. c \in Range(actionFiles) /\ results[c] # None
      BY <1>1, <1>3, <2>2 DEF StoreOK
    <3>2. c \in Actions
      BY <3>1 DEF StoreOK, Range
    <3> QED
      BY <1>2, <1>4, <2>2, <3>1, <3>2
  <2> QED
    BY <2>1, <2>2
<1> QED
  BY <1>3, <1>5, <1>6 DEF StoreOK

\* A result that is dropped.
LEMMA DropResultKeeps ==
  ASSUME StoreOK, NEW a \in Actions, results' = [results EXCEPT ![a] = None],
         actionFiles' = Without(actionFiles, a), UNCHANGED blobFiles
  PROVE  StoreOK'
<1>1. /\ actionFiles' \in Seq(Actions) /\ IsInjective(actionFiles')
      /\ Range(actionFiles') = Range(actionFiles) \ {a}
  BY TakenOut DEF StoreOK
<1>2. results' \in [Actions -> Results \cup {None}]
  BY DEF StoreOK
<1>3. \A c \in Range(actionFiles') : results'[c] # None
  <2>1. Range(actionFiles) \subseteq Actions
    BY DEF StoreOK, Range
  <2> QED
    BY <1>1, <2>1 DEF StoreOK
<1> QED
  BY <1>1, <1>2, <1>3 DEF StoreOK

\* A blob that is dropped.
LEMMA DropBlobKeeps ==
  ASSUME StoreOK, NEW b, blobFiles' = Without(blobFiles, b), UNCHANGED <<actionFiles, results>>
  PROVE  StoreOK'
<1>1. blobFiles' \in Seq(Blobs) /\ IsInjective(blobFiles')
  BY TakenOut DEF StoreOK
<1> QED
  BY <1>1 DEF StoreOK

\* Every step keeps the store.
LEMMA StoreStep ==
  ASSUME CacheInv, [Next]_vars
  PROVE  StoreOK'
<1>1. StoreOK /\ RunsOK /\ TierOK
  BY DEF CacheInv
<1>2. CASE UNCHANGED storeVars
  BY <1>1, <1>2 DEF StoreOK, storeVars
<1>3. ASSUME NEW r \in Runs PROVE RunOK(r) /\ Act(r) \in Actions /\ Act(r) = ActionOf[r]
  BY <1>1, CacheAssumption DEF RunsOK, Act
<1>4. ASSUME NEW r \in Runs, Run(r) PROVE StoreOK'
  <2>1. CASE Lookup(r) \/ CheckStreams(r) \/ Needing(r) \/ Commit(r) \/ CommitFails(r) \/ Execute(r) \/ Mirror(r) \/ Publish(r)
    BY <1>2, <2>1, Zenon DEF Lookup, CheckStreams, Needing, Commit, CommitFails, Execute, Mirror, Publish
  <2>2. CASE \E p \in Paths : Stage(r, p)
    BY <1>2, <2>2, Zenon DEF Stage
  <2>3. CASE Fetch(r)
    <3>1. CASE UNCHANGED storeVars
      BY <1>2, <3>1
    <3>2. CASE ~UNCHANGED storeVars
      <4>1. PutResult(Act(r), rresults[Act(r)]) /\ UNCHANGED blobFiles /\ rresults[Act(r)] # None
        BY <2>3, <3>2, Zenon DEF Fetch
      <4>2. rresults[Act(r)] \in Results
        BY <1>1, <1>3, <4>1 DEF TierOK
      <4> QED
        BY <1>1, <1>3, <4>1, <4>2, PutResultKeeps
    <3> QED
      BY <3>1, <3>2
  <2>4. CASE \E p \in Paths : Ensure(r, p)
    <3>1. PICK p \in Paths : Ensure(r, p)
      BY <2>4
    <3>2. CASE UNCHANGED blobFiles
      BY <1>2, <3>1, <3>2 DEF Ensure, storeVars
    <3>3. CASE ~UNCHANGED blobFiles
      <4>1. PutBlob(hit[r].outputs[p]) /\ UNCHANGED <<actionFiles, results>> /\ At(r, "stage")
        BY <3>1, <3>3, Zenon DEF Ensure
      <4>2. hit[r].outputs[p] \in Blobs
        BY <1>3, <4>1, ResultParts DEF RunOK, At
      <4> QED
        BY <1>1, <4>1, <4>2, PutBlobKeeps
    <3> QED
      BY <3>2, <3>3
  <2>5. CASE Capture(r)
    <3>1. PutBlob(Head(todo[r])) /\ UNCHANGED <<actionFiles, results>> /\ At(r, "capture") /\ todo[r] # <<>>
      BY <2>5 DEF Capture
    <3>2. Head(todo[r]) \in Blobs
      BY <1>3, <3>1 DEF RunOK, At
    <3> QED
      BY <1>1, <3>1, <3>2, PutBlobKeeps
  <2>6. CASE Store(r)
    <3>1. CASE hit[r].exit = 0
      <4>1. PutResult(Act(r), hit[r]) /\ UNCHANGED blobFiles /\ At(r, "capture")
        BY <2>6, <3>1 DEF Store
      <4>2. hit[r] \in Results
        BY <1>3, <4>1 DEF RunOK, At
      <4> QED
        BY <1>1, <1>3, <4>1, <4>2, PutResultKeeps
    <3>2. CASE hit[r].exit # 0
      BY <1>2, <2>6, <3>2 DEF Store, storeVars
    <3> QED
      BY <3>1, <3>2
  <2> QED
    BY <1>4, <2>1, <2>2, <2>3, <2>4, <2>5, <2>6, Zenon DEF Run
<1>5. CASE Collect
  <2>1. CASE StartPass \/ ScanBlobs \/ ScanActions \/ Plan \/ EndPass
    BY <1>2, <2>1, Zenon DEF StartPass, ScanBlobs, ScanActions, Plan, EndPass
  <2>2. ASSUME NEW e \in Blobs \cup Actions, RemoveFile(e) PROVE StoreOK'
    <3>1. CASE e \in Blobs
      <4>1. blobFiles' = Without(blobFiles, e) /\ UNCHANGED <<actionFiles, results>>
        BY <2>2, <3>1 DEF RemoveFile
      <4> QED
        BY <1>1, <4>1, DropBlobKeeps
    <3>2. CASE e \notin Blobs
      <4>1. /\ actionFiles' = Without(actionFiles, e) /\ results' = [results EXCEPT ![e] = None]
            /\ UNCHANGED blobFiles /\ e \in Actions
        BY <2>2, <3>2 DEF RemoveFile
      <4> QED
        BY <1>1, <4>1, DropResultKeeps, Zenon
    <3> QED
      BY <3>1, <3>2
  <2> QED
    BY <1>5, <2>1, <2>2, Zenon DEF Collect
<1>6. CASE Interrupt \/ \E b \in Blobs : EvictRemote(b)
  BY <1>2, <1>6, Zenon DEF Interrupt, EvictRemote
<1>7. ASSUME NEW a \in Actions, Forget(a) PROVE StoreOK'
  <2>1. /\ actionFiles' = Without(actionFiles, a) /\ results' = [results EXCEPT ![a] = None]
        /\ UNCHANGED blobFiles
    BY <1>7 DEF Forget
  <2> QED
    BY <1>1, <2>1, DropResultKeeps, Zenon
<1>8. CASE UNCHANGED vars
  BY <1>1, <1>8 DEF vars, StoreOK
<1> QED
  BY <1>4, <1>5, <1>6, <1>7, <1>8, Zenon DEF Next

-----------------------------------------------------------------------------
(* The runs *)

\* A run whose lookup fails starts over or executes, in an untouched workspace.
LEMMA MissedKeeps ==
  ASSUME RunsOK, NEW r \in Runs, Missed(r), UNCHANGED <<todo, ws, outcome>>,
         pc[r] \in {"lookup", "fetch", "streams", "restore", "stage", "execute"}
  PROVE  RunsOK'
<1>1. /\ DOMAIN pc' = Runs /\ DOMAIN hit' = Runs /\ DOMAIN need' = Runs /\ DOMAIN ws' = Runs
      /\ DOMAIN outcome' = Runs /\ DOMAIN todo' = Runs
  BY DEF RunsOK, Missed, Goto
<1>2. pc'[r] \in {"lookup", "execute"} /\ hit'[r] = None
  BY DEF RunsOK, Missed, Goto
<1>3. outcome[r] # "hit"
  BY DEF RunsOK, RunOK
<1>4. RunOK(r)'
  BY <1>2, <1>3 DEF RunsOK, RunOK
<1>5. ASSUME NEW s \in Runs, s # r PROVE RunOK(s)'
  <2>1. pc'[s] = pc[s] /\ hit'[s] = hit[s] /\ need'[s] = need[s]
    BY <1>5 DEF RunsOK, Missed, Goto
  <2> QED
    BY <2>1 DEF RunsOK, RunOK
<1> QED
  BY <1>1, <1>4, <1>5 DEF RunsOK

\* What the steps of a run other than a miss do to the runs.
LEMMA RunMoves ==
  ASSUME RunsOK, NEW r \in Runs,
         \A s \in Runs \ {r} : /\ pc'[s] = pc[s] /\ hit'[s] = hit[s] /\ need'[s] = need[s] /\ ws'[s] = ws[s]
                               /\ outcome'[s] = outcome[s] /\ todo'[s] = todo[s],
         DOMAIN pc' = Runs, DOMAIN hit' = Runs, DOMAIN need' = Runs, DOMAIN ws' = Runs,
         DOMAIN outcome' = Runs, DOMAIN todo' = Runs,
         RunOK(r)'
  PROVE  RunsOK'
<1>1. ASSUME NEW s \in Runs, s # r PROVE RunOK(s)'
  <2>1. /\ pc'[s] = pc[s] /\ hit'[s] = hit[s] /\ need'[s] = need[s] /\ ws'[s] = ws[s]
        /\ outcome'[s] = outcome[s] /\ todo'[s] = todo[s]
    BY <1>1
  <2> QED
    BY <2>1 DEF RunsOK, RunOK
<1> QED
  BY <1>1 DEF RunsOK

\* Every step of a run keeps them.
LEMMA RunStep ==
  ASSUME CacheInv, NEW r \in Runs, Run(r)
  PROVE  RunsOK'
<1>1. StoreOK /\ RunsOK /\ TierOK /\ RunOK(r) /\ Act(r) \in Actions /\ Act(r) = ActionOf[r]
  BY CacheAssumption DEF CacheInv, RunsOK, Act
<1>2. /\ DOMAIN pc = Runs /\ DOMAIN hit = Runs /\ DOMAIN need = Runs /\ DOMAIN ws = Runs
      /\ DOMAIN outcome = Runs /\ DOMAIN todo = Runs
  BY <1>1 DEF RunsOK
<1> DEFINE others == \A s \in Runs \ {r} :
             /\ pc'[s] = pc[s] /\ hit'[s] = hit[s] /\ need'[s] = need[s] /\ ws'[s] = ws[s]
             /\ outcome'[s] = outcome[s] /\ todo'[s] = todo[s]
           same == /\ DOMAIN pc' = Runs /\ DOMAIN hit' = Runs /\ DOMAIN need' = Runs /\ DOMAIN ws' = Runs
                   /\ DOMAIN outcome' = Runs /\ DOMAIN todo' = Runs
<1>3. ASSUME others, same, RunOK(r)' PROVE RunsOK'
  BY <1>1, <1>3, RunMoves
<1> HIDE DEF RunOK
<1>4. CASE Missed(r) /\ UNCHANGED <<todo, ws, outcome>>
             /\ pc[r] \in {"lookup", "fetch", "streams", "restore", "stage", "execute"}
  BY <1>1, <1>4, MissedKeeps
<1>5. CASE Lookup(r)
  <2>1. CASE results[Act(r)] # None
    <3>1. results[Act(r)] \in Results
      BY <1>1, <2>1 DEF StoreOK
    <3>2. others /\ same
      BY <1>2, <1>5, <2>1 DEF Lookup, Goto
    <3>3. RunOK(r)'
      BY <1>1, <1>2, <1>5, <2>1, <3>1 DEF Lookup, Goto, At, RunOK
    <3> QED
      BY <1>3, <3>2, <3>3
  <2>2. CASE results[Act(r)] = None /\ Remote
    <3>2. others /\ same
      BY <1>2, <1>5, <2>2, Zenon DEF Lookup, Goto
    <3>3. RunOK(r)'
      BY <1>1, <1>2, <1>5, <2>2 DEF Lookup, Goto, At, RunOK
    <3> QED
      BY <1>3, <3>2, <3>3
  <2>3. CASE results[Act(r)] = None /\ ~Remote
    BY <1>4, <1>5, <2>3 DEF Lookup, At
  <2> QED
    BY <2>1, <2>2, <2>3
<1>6. CASE Fetch(r)
  <2>1. CASE Missed(r)
    BY <1>4, <1>6, <2>1 DEF Fetch, At
  <2>2. CASE ~Missed(r)
    <3> DEFINE res == rresults[Act(r)]
    <3>1. /\ res # None /\ hit' = [hit EXCEPT ![r] = res] /\ Goto(r, "restore") /\ At(r, "fetch")
          /\ UNCHANGED <<need, todo, ws, outcome>>
      BY <1>6, <2>2, Zenon DEF Fetch
    <3>2. res \in Results
      BY <1>1, <3>1 DEF TierOK
    <3> HIDE DEF res
    <3>3. others /\ same
      BY <1>2, <3>1, Zenon DEF Goto
    <3>4. RunOK(r)'
      BY <1>1, <1>2, <3>1, <3>2 DEF Goto, At, RunOK
    <3> QED
      BY <1>3, <3>3, <3>4
  <2> QED
    BY <2>1, <2>2
<1>7. CASE CheckStreams(r)
  <2>1. CASE Missed(r)
    BY <1>4, <1>7, <2>1, Zenon DEF CheckStreams, At
  <2>2. CASE ~Missed(r)
    <3>1. Goto(r, "restore") /\ At(r, "streams") /\ UNCHANGED <<need, hit, todo, ws, outcome>>
      BY <1>7, <2>2, Zenon DEF CheckStreams
    <3>2. others /\ same
      BY <1>2, <3>1 DEF Goto
    <3>3. RunOK(r)'
      BY <1>1, <1>2, <3>1 DEF Goto, At, RunOK
    <3> QED
      BY <1>3, <3>2, <3>3
  <2> QED
    BY <2>1, <2>2
<1>8. CASE Needing(r)
  <2> DEFINE wanted == {p \in Paths : ws[r][p] # hit[r].outputs[p]}
  <2>1. At(r, "restore") /\ UNCHANGED <<hit, todo, ws>> /\ hit[r] \in Results /\ ws[r] = [p \in Paths |-> None]
    BY <1>1, <1>8 DEF Needing, At, RunOK
  <2>2. hit[r].outputs \in [Paths -> Blobs]
    BY <2>1 DEF Results
  <2>3. CASE wanted = {}
    <3>1. Return(r, "hit") /\ UNCHANGED need
      BY <1>8, <2>3, Zenon DEF Needing
    <3>2. ws[r] = hit[r].outputs
      BY <2>1, <2>2, <2>3
    <3>3. others /\ same
      BY <1>2, <2>1, <3>1 DEF Return, Goto
    <3>4. RunOK(r)'
      BY <1>1, <1>2, <2>1, <3>1, <3>2, Zenon DEF Return, Goto, At, RunOK
    <3> QED
      BY <1>3, <3>3, <3>4
  <2>4. CASE wanted # {}
    <3>1. need' = [need EXCEPT ![r] = wanted] /\ Goto(r, "stage") /\ UNCHANGED outcome
      BY <1>8, <2>4 DEF Needing
    <3>2. others /\ same
      BY <1>2, <2>1, <3>1 DEF Goto
    <3>3. RunOK(r)'
      BY <1>1, <1>2, <2>1, <3>1 DEF Goto, At, RunOK
    <3> QED
      BY <1>3, <3>2, <3>3
  <2> QED
    BY <2>3, <2>4
<1>9. CASE Commit(r)
  <2>1. /\ At(r, "stage") /\ UNCHANGED <<hit, need, todo>> /\ Return(r, "hit")
        /\ ws' = [ws EXCEPT ![r] = [p \in Paths |-> IF p \in need[r] THEN hit[r].outputs[p] ELSE ws[r][p]]]
    BY <1>2, <1>9, Zenon DEF Commit
  <2>2. hit[r] \in Results /\ need[r] = {p \in Paths : ws[r][p] # hit[r].outputs[p]}
    BY <1>1, <2>1, Zenon DEF RunOK, At
  <2>3. hit[r].outputs \in [Paths -> Blobs]
    BY <2>2 DEF Results
  <2>4. [p \in Paths |-> IF p \in need[r] THEN hit[r].outputs[p] ELSE ws[r][p]] = hit[r].outputs
    BY <2>2, <2>3
  <2>5. ws' = [ws EXCEPT ![r] = hit[r].outputs]
    BY <2>1, <2>4, Zenon
  <2>6. others /\ same
    BY <1>2, <2>1, <2>5 DEF Return, Goto
  <2>7. RunOK(r)'
    BY <1>1, <1>2, <2>1, <2>2, <2>5, Zenon DEF Return, Goto, At, RunOK
  <2> QED
    BY <1>3, <2>6, <2>7
<1>10. CASE \E p \in Paths : Ensure(r, p) \/ Stage(r, p)
  <2>1. At(r, "stage") /\ UNCHANGED <<todo, ws, outcome>>
    BY <1>10, Zenon DEF Ensure, Stage
  <2>2. Missed(r) \/ UNCHANGED <<pc, hit, need>>
    BY <1>10, Zenon DEF Ensure, Stage
  <2>3. CASE UNCHANGED <<pc, hit, need>>
    BY <1>1, <2>1, <2>3, Zenon DEF RunsOK, RunOK
  <2> QED
    BY <1>4, <2>1, <2>2, <2>3 DEF At
<1>11. CASE Execute(r)
  <2>1. PICK res \in Produced[Act(r)] :
          /\ hit' = [hit EXCEPT ![r] = res] /\ ws' = [ws EXCEPT ![r] = res.outputs]
          /\ todo' = [todo EXCEPT ![r] = Listing(res.streams) \o (IF res.exit = 0 THEN res.outputs ELSE <<>>)]
    BY <1>11, Zenon DEF Execute
  <2>2. Goto(r, "capture") /\ At(r, "execute") /\ UNCHANGED <<need, outcome>>
    BY <1>11, Zenon DEF Execute
  <2>3. res \in Results
    BY <1>1, CacheAssumption
  <2>4. Listing(res.streams) \in Seq(Blobs)
    <3>1. Listing(res.streams) \in Seq(res.streams) /\ res.streams \subseteq Blobs
      BY <2>3, ResultParts, ListingOf, Zenon
    <3> QED
      BY <3>1, SequenceFacts, Zenon
  <2>5. Listing(res.streams) \o (IF res.exit = 0 THEN res.outputs ELSE <<>>) \in Seq(Blobs)
    BY <2>3, <2>4, ResultParts
  <2>6. others /\ same
    BY <1>2, <2>1, <2>2 DEF Goto
  <2>7. outcome[r] # "hit"
    BY <1>1, <2>2, Zenon DEF RunOK, At
  <2>8. hit'[r] = res /\ pc'[r] = "capture" /\ outcome'[r] = outcome[r] /\ todo'[r] \in Seq(Blobs)
    BY <1>2, <2>1, <2>2, <2>5 DEF Goto
  <2>9. RunOK(r)'
    BY <2>3, <2>7, <2>8, Zenon DEF RunOK
  <2> QED
    BY <1>3, <2>6, <2>9, Zenon
<1>12. CASE Capture(r)
  <2>1. At(r, "capture") /\ todo[r] # <<>> /\ UNCHANGED <<hit, need, ws, outcome>>
        /\ \/ Goto(r, "mirror") /\ UNCHANGED todo
           \/ todo' = [todo EXCEPT ![r] = Tail(todo[r])] /\ UNCHANGED pc
    BY <1>2, <1>12 DEF Capture
  <2>2. others /\ same
    BY <1>2, <2>1 DEF Goto
  <2>3. todo[r] \in Seq(Blobs) /\ Tail(todo[r]) \in Seq(Blobs)
    <3>1. todo[r] \in Seq(Blobs) /\ todo[r] # <<>>
      BY <1>1, <2>1, Zenon DEF RunOK, At
    <3> QED
      BY <3>1, SequenceFacts, Zenon
  <2>4. RunOK(r)'
    BY <1>1, <1>2, <2>1, <2>3 DEF Goto, At, RunOK
  <2> QED
    BY <1>3, <2>2, <2>4
<1>13. CASE Mirror(r)
  <2>1. At(r, "mirror") /\ UNCHANGED <<hit, need, ws>>
        /\ \/ Return(r, "failed") /\ UNCHANGED todo
           \/ Goto(r, "capture") /\ UNCHANGED outcome /\ todo' = [todo EXCEPT ![r] = Tail(todo[r])]
    BY <1>2, <1>13 DEF Mirror
  <2>2. others /\ same
    BY <1>2, <2>1 DEF Return, Goto
  <2>3. todo[r] \in Seq(Blobs) /\ Tail(todo[r]) \in Seq(Blobs)
    <3>1. todo[r] \in Seq(Blobs) /\ todo[r] # <<>>
      BY <1>1, <2>1, Zenon DEF RunOK, At
    <3> QED
      BY <3>1, SequenceFacts, Zenon
  <2>4. RunOK(r)'
    BY <1>1, <1>2, <2>1, <2>3, Zenon DEF Return, Goto, At, RunOK
  <2> QED
    BY <1>3, <2>2, <2>4
<1>14. CASE Store(r)
  <2>1. At(r, "capture") /\ UNCHANGED <<hit, need, todo, ws>>
        /\ \/ Goto(r, "publish") /\ UNCHANGED outcome
           \/ Return(r, "miss")
    BY <1>14, Zenon DEF Store
  <2>2. others /\ same
    BY <1>2, <2>1, Zenon DEF Return, Goto
  <2>3. RunOK(r)'
    BY <1>1, <1>2, <2>1, Zenon DEF Return, Goto, At, RunOK
  <2> QED
    BY <1>3, <2>2, <2>3
<1>15. CASE Publish(r)
  <2>1. Return(r, "miss") /\ At(r, "publish") /\ UNCHANGED <<hit, need, todo, ws>>
    BY <1>15 DEF Publish
  <2>2. others /\ same
    BY <1>2, <2>1 DEF Return, Goto
  <2>3. RunOK(r)'
    BY <1>1, <1>2, <2>1, Zenon DEF Return, Goto, At, RunOK
  <2> QED
    BY <1>3, <2>2, <2>3
<1>16. CASE CommitFails(r)
  <2>1. /\ At(r, "stage") /\ UNCHANGED <<hit, need, todo>> /\ Return(r, "failed")
        /\ \E new : ws' = [ws EXCEPT ![r] = new]
    BY <1>16, Zenon DEF CommitFails
  <2>2. others /\ same
    BY <1>2, <2>1 DEF Return, Goto
  <2>3. RunOK(r)'
    BY <1>1, <1>2, <2>1, Zenon DEF Return, Goto, At, RunOK
  <2> QED
    BY <1>3, <2>2, <2>3
<1> QED
  BY <1>5, <1>6, <1>7, <1>8, <1>9, <1>10, <1>11, <1>12, <1>13, <1>14, <1>15, <1>16, Zenon DEF Run

-----------------------------------------------------------------------------
(* The remote tier *)

\* An upload keeps it.
LEMMA UploadKeeps ==
  ASSUME TierOK, NEW r \in Runs, NEW bs, Upload(r, bs) \/ UploadSome(r, bs), UNCHANGED evicted
  PROVE  /\ rblobs \subseteq rblobs' /\ mapped' \subseteq rblobs' \cup evicted'
         /\ DOMAIN known' = Runs /\ \A s \in Runs : known'[s] \subseteq rblobs' \cup evicted'
         /\ Upload(r, bs) => bs \subseteq rblobs' \cup evicted'
<1>1. DOMAIN known = Runs /\ mapped \subseteq rblobs \cup evicted /\ \A s \in Runs : known[s] \subseteq rblobs \cup evicted
  BY DEF TierOK
<1>2. CASE Upload(r, bs)
  BY <1>1, <1>2 DEF Upload
<1>3. CASE UploadSome(r, bs) /\ ~Upload(r, bs)
  <2>1. PICK sent, half : /\ rblobs' = rblobs \cup sent \cup half /\ mapped' = mapped \cup sent
                          /\ known' = [known EXCEPT ![r] = known[r] \cup sent]
    BY <1>1, <1>3, Zenon DEF UploadSome
  <2> QED
    BY <1>1, <1>3, <2>1
<1> QED
  BY <1>2, <1>3

\* Remembering names keeps it.
LEMMA RememberKeeps ==
  ASSUME TierOK, NEW r \in Runs, NEW bs, Remember(r, bs) \/ UNCHANGED known, UNCHANGED tierVars
  PROVE  TierOK'
<1>1. DOMAIN known' = Runs /\ \A s \in Runs : known'[s] \subseteq known[s] \cup mapped
  BY DEF TierOK, Remember
<1> QED
  BY <1>1 DEF TierOK, tierVars, PublishedIsComplete

\* Every step keeps it.
LEMMA TierStep ==
  ASSUME CacheInv, [Next]_vars
  PROVE  TierOK'
<1>1. TierOK /\ RunsOK
  BY DEF CacheInv
<1>2. CASE UNCHANGED remoteVars
  BY <1>1, <1>2 DEF TierOK, remoteVars, PublishedIsComplete
<1>3. ASSUME NEW r \in Runs, Run(r) PROVE TierOK'
  <2>0. RunOK(r) /\ Act(r) \in Actions
    BY <1>1, CacheAssumption DEF RunsOK, Act
  <2>1. CASE Lookup(r) \/ Needing(r) \/ Commit(r) \/ CommitFails(r) \/ Execute(r) \/ Capture(r) \/ Store(r)
    BY <1>2, <2>1, Zenon DEF Lookup, Needing, Commit, CommitFails, Execute, Capture, Store
  <2>2. CASE \E p \in Paths : Stage(r, p)
    BY <1>2, <2>2, Zenon DEF Stage
  <2>3. CASE Fetch(r)
    <3>1. UNCHANGED tierVars
      BY <2>3 DEF Fetch
    <3>2. CASE UNCHANGED known
      BY <1>1, <3>1, <3>2, RememberKeeps
    <3>3. CASE ~UNCHANGED known
      <4>1. /\ Refs(rresults[Act(r)]) \subseteq rblobs
            /\ known' = [known EXCEPT ![r] = known[r] \cup Refs(rresults[Act(r)])]
        BY <2>3, <3>3, <1>1 DEF Fetch, TierOK
      <4>2. DOMAIN known' = Runs /\ \A s \in Runs : known'[s] \subseteq known[s] \cup rblobs
        BY <1>1, <4>1 DEF TierOK
      <4> QED
        BY <1>1, <3>1, <4>2 DEF TierOK, tierVars, PublishedIsComplete
    <3> QED
      BY <3>2, <3>3
  <2>4. CASE CheckStreams(r)
    <3>1. UNCHANGED tierVars /\ (Remember(r, hit[r].streams \ blobs) \/ UNCHANGED known)
      BY <2>4, Zenon DEF CheckStreams
    <3> QED
      BY <1>1, <3>1, RememberKeeps, Zenon
  <2>5. ASSUME NEW p \in Paths, Ensure(r, p) PROVE TierOK'
    <3>1. UNCHANGED tierVars /\ (Remember(r, {hit[r].outputs[p]}) \/ UNCHANGED known)
      BY <2>5, Zenon DEF Ensure
    <3> QED
      BY <1>1, <3>1, RememberKeeps, Zenon
  <2>6. CASE Mirror(r)
    <3> DEFINE b == Head(todo[r])
    <3>1. UNCHANGED remoteVars \/ ((Upload(r, {b}) \/ UploadSome(r, {b})) /\ UNCHANGED <<rresults, evicted>>)
      BY <2>6, Zenon DEF Mirror, remoteVars
    <3> HIDE DEF b
    <3>2. CASE (Upload(r, {b}) \/ UploadSome(r, {b})) /\ UNCHANGED <<rresults, evicted>>
      <4>1. /\ rblobs \subseteq rblobs' /\ mapped' \subseteq rblobs' \cup evicted'
            /\ DOMAIN known' = Runs /\ \A s \in Runs : known'[s] \subseteq rblobs' \cup evicted'
        BY <1>1, <3>2, UploadKeeps
      <4> QED
        BY <1>1, <3>2, <4>1 DEF TierOK, PublishedIsComplete
    <3> QED
      BY <1>2, <3>1, <3>2
  <2>7. CASE Publish(r)
    <3> DEFINE bs == Refs(hit[r])
    <3>1. hit[r] \in Results /\ UNCHANGED evicted
      BY <2>0, <2>7, Zenon DEF RunOK, Publish, At
    <3>2. CASE Upload(r, bs) /\ rresults' = [rresults EXCEPT ![Act(r)] = hit[r]]
      <4>1. /\ rblobs \subseteq rblobs' /\ mapped' \subseteq rblobs' \cup evicted'
            /\ DOMAIN known' = Runs /\ \A s \in Runs : known'[s] \subseteq rblobs' \cup evicted'
            /\ Refs(hit[r]) \subseteq rblobs' \cup evicted'
        BY <1>1, <3>1, <3>2, UploadKeeps
      <4>2. rresults' \in [Actions -> Results \cup {None}]
        BY <1>1, <3>1, <3>2, Zenon DEF TierOK
      <4>3. ASSUME NEW a \in Actions, rresults'[a] # None PROVE Refs(rresults'[a]) \subseteq rblobs' \cup evicted'
        <5>1. CASE a = Act(r)
          <6>1. rresults'[a] = hit[r]
            BY <1>1, <3>2, <5>1 DEF TierOK
          <6> QED
            BY <4>1, <6>1
        <5>2. CASE a # Act(r)
          <6>1. rresults'[a] = rresults[a]
            BY <1>1, <3>2, <5>2 DEF TierOK
          <6>2. Refs(rresults[a]) \subseteq rblobs \cup evicted
            BY <1>1, <4>3, <6>1 DEF TierOK, PublishedIsComplete
          <6> QED
            BY <3>1, <4>1, <6>1, <6>2
        <5> QED
          BY <5>1, <5>2
      <4> QED
        BY <4>1, <4>2, <4>3 DEF TierOK, PublishedIsComplete, Refs
    <3>3. CASE UploadSome(r, bs \cap blobs) /\ UNCHANGED rresults
      <4>1. /\ rblobs \subseteq rblobs' /\ mapped' \subseteq rblobs' \cup evicted'
            /\ DOMAIN known' = Runs /\ \A s \in Runs : known'[s] \subseteq rblobs' \cup evicted'
        BY <1>1, <3>1, <3>3, UploadKeeps
      <4> QED
        BY <1>1, <3>1, <3>3, <4>1 DEF TierOK, PublishedIsComplete
    <3> QED
      BY <2>7, <3>2, <3>3, Zenon DEF Publish
  <2> QED
    BY <1>3, <2>1, <2>2, <2>3, <2>4, <2>5, <2>6, <2>7, Zenon DEF Run
<1>4. CASE Collect
  <2>1. CASE StartPass \/ ScanBlobs \/ ScanActions \/ Plan \/ EndPass
    BY <1>2, <2>1, Zenon DEF StartPass, ScanBlobs, ScanActions, Plan, EndPass
  <2>2. CASE \E e \in Blobs \cup Actions : RemoveFile(e)
    BY <1>2, <2>2, Zenon DEF RemoveFile
  <2> QED
    BY <1>4, <2>1, <2>2, Zenon DEF Collect
<1>5. CASE Interrupt \/ \E a \in Actions : Forget(a)
  BY <1>2, <1>5, Zenon DEF Interrupt, Forget
<1>6. ASSUME NEW b \in Blobs, EvictRemote(b) PROVE TierOK'
  <2>1. /\ rblobs \cup evicted \subseteq rblobs' \cup evicted' /\ mapped' \subseteq mapped
        /\ UNCHANGED <<rresults, known>>
    BY <1>6 DEF EvictRemote
  <2> QED
    BY <1>1, <2>1 DEF TierOK, PublishedIsComplete
<1>7. CASE UNCHANGED vars
  BY <1>2, <1>7 DEF vars, remoteVars
<1> QED
  BY <1>3, <1>4, <1>5, <1>6, <1>7, Zenon DEF Next

-----------------------------------------------------------------------------
(* The collector *)

\* The policy is about the plan of the pass and nothing else.
LEMMA PolicyKept ==
  ASSUME EvictionPolicy, gc'.pc = gc.pc, gc'.max = gc.max, gc'.blobs = gc.blobs, gc'.acts = gc.acts,
         gc'.refs = gc.refs, gc'.victims = gc.victims, gc'.after = gc.after
  PROVE  EvictionPolicy'
BY Zenon DEF EvictionPolicy

\* The plan is one of files that were listed.
LEMMA VictimsListed ==
  ASSUME Listed
  PROVE  TierTwo[Len(gc.acts)].victims \subseteq Snapshot
<1>1. PICK c \in 0..Len(gc.acts) : TierTwo[Len(gc.acts)].victims = VictimsOf(c)
  BY ActionsOldestFirst, Zenon DEF ActionsGone
<1>2. Firsts(gc.acts, c) \subseteq Range(gc.acts)
  BY FirstsOf DEF Listed
<1>3. OrphanVictims \subseteq Range(gc.blobs)
  BY OrphansFirst, Zenon DEF OrphansGone, OrphanVictims, Orphans
<1>4. OnlyTheirs(c) \subseteq Range(gc.blobs)
  BY DEF OnlyTheirs
<1> QED
  BY <1>1, <1>2, <1>3, <1>4 DEF VictimsOf, Snapshot

\* An idle collector is as it should be.
LEMMA IdleFields ==
  /\ Idle \in Passes /\ Idle.pc = "idle" /\ Idle.blobs = None /\ Idle.acts = None /\ Idle.refs = None
  /\ Idle.removed = {}
<1>1. "idle" \in {"idle", "scan", "remove"} /\ 0 \in Nat
  OBVIOUS
<1>2. None \in Seq(Blobs) \cup {None} /\ None \in Seq(Actions) \cup {None}
  OBVIOUS
<1>3. {} \in SUBSET (Blobs \cup Actions) /\ {} \in SUBSET Actions
  OBVIOUS
<1>4. None \in (UNION {[as -> SUBSET Blobs] : as \in SUBSET Actions}) \cup {None}
  OBVIOUS
<1>5. Idle \in Passes
  BY <1>1, <1>2, <1>3, <1>4, Zenon DEF Idle, Passes
<1> QED
  BY <1>5, Zenon DEF Idle

\* A pass of which only a renewed result is new.
LEMMA RenewKeeps ==
  ASSUME GcOK, StoreOK, NEW a \in Actions, NEW res, PutResult(a, res)
  PROVE  GcOK'
<1>1. gc \in Passes /\ gc' = [gc EXCEPT !.renewed = gc.renewed \cup {a}]
  BY DEF GcOK, PutResult
<1>2. /\ gc' \in Passes /\ gc'.renewed = gc.renewed \cup {a} /\ gc'.pc = gc.pc /\ gc'.max = gc.max
      /\ gc'.blobs = gc.blobs /\ gc'.acts = gc.acts /\ gc'.refs = gc.refs /\ gc'.victims = gc.victims
      /\ gc'.after = gc.after /\ gc'.removed = gc.removed
  BY <1>1, Zenon DEF Passes
<1>3. EvictionPolicy'
  BY <1>2, PolicyKept, Zenon DEF GcOK
<1>4. \A c \in Actions : c # a => results'[c] = results[c]
  BY DEF PutResult, StoreOK
<1> QED
  BY <1>2, <1>3, <1>4, Zenon DEF GcOK

\* The store forgets results at most.
LEMMA SamePass ==
  ASSUME GcOK, UNCHANGED gc, \A a \in Actions : results'[a] \in {results[a], None}
  PROVE  GcOK'
<1>1. EvictionPolicy'
  BY PolicyKept, Zenon DEF GcOK
<1> QED
  BY <1>1, Zenon DEF GcOK

\* A pass that ends.
LEMMA IdleKeeps ==
  ASSUME gc' = Idle
  PROVE  GcOK'
<1>1. /\ gc' \in Passes /\ gc'.pc = "idle" /\ gc'.blobs = None /\ gc'.acts = None
  BY IdleFields
<1> QED
  BY <1>1 DEF GcOK, EvictionPolicy

\* A pass that plans.
LEMMA PlanKeeps ==
  ASSUME GcOK, Plan
  PROVE  GcOK'
<1>1. gc \in Passes /\ gc.pc = "scan" /\ gc.blobs # None /\ gc.acts # None /\ gc.removed = {} /\ UNCHANGED results
  BY DEF GcOK, Plan, storeVars
<1>2. Listed
  BY <1>1, Zenon DEF GcOK, Listed, Passes
<1>3. CASE Total(Snapshot) <= gc.max
  BY <1>3, IdleKeeps DEF Plan
<1>4. CASE ~(Total(Snapshot) <= gc.max)
  <2> DEFINE t == TierTwo[Len(gc.acts)]
  <2>1. gc' = [gc EXCEPT !.pc = "remove", !.victims = t.victims, !.after = t.after]
    BY <1>4 DEF Plan
  <2>2. Total(Snapshot) > gc.max
    <3>1. Total(Snapshot) \in Nat /\ gc.max \in Nat
      BY <1>2, ListedFiles, TotalOf, Zenon DEF Listed
    <3> QED
      BY <1>4, <3>1
  <2>3. t.victims \subseteq Snapshot
    BY <1>2, VictimsListed
  <2>4. Meets(t.victims, t.after)
    BY <1>2, <2>2, PlanMeets
  <2> HIDE DEF t
  <2>5. t.victims \in SUBSET (Blobs \cup Actions) /\ t.after \in Nat
    <3>1. Snapshot \subseteq Blobs \cup Actions
      BY <1>2, ListedFiles
    <3>2. Total(Snapshot \ t.victims) \in Nat
      BY <3>1, TotalOf
    <3> QED
      BY <2>3, <2>4, <3>1, <3>2, Zenon DEF Meets, WellChosen, Snapshot
  <2>6. /\ gc' \in Passes /\ gc'.pc = "remove" /\ gc'.max = gc.max /\ gc'.blobs = gc.blobs /\ gc'.acts = gc.acts
        /\ gc'.refs = gc.refs /\ gc'.victims = t.victims /\ gc'.after = t.after /\ gc'.removed = gc.removed
    BY <1>1, <2>1, <2>5, Zenon DEF Passes
  <2>7. EvictionPolicy'
    BY <2>4, <2>6, Zenon DEF EvictionPolicy, Meets
  <2> QED
    BY <1>1, <2>6, <2>7, Zenon DEF GcOK
<1> QED
  BY <1>3, <1>4

\* A pass that removes a file.
LEMMA RemoveKeeps ==
  ASSUME GcOK, StoreOK, NEW e \in Blobs \cup Actions, RemoveFile(e)
  PROVE  GcOK'
<1>1. gc \in Passes /\ gc.pc = "remove" /\ gc' = [gc EXCEPT !.removed = gc.removed \cup {e}] /\ Removable(e)
  BY DEF GcOK, RemoveFile
<1>2. /\ gc' \in Passes /\ gc'.removed = gc.removed \cup {e} /\ gc'.pc = gc.pc /\ gc'.max = gc.max
      /\ gc'.blobs = gc.blobs /\ gc'.acts = gc.acts /\ gc'.refs = gc.refs /\ gc'.victims = gc.victims
      /\ gc'.after = gc.after /\ gc'.renewed = gc.renewed
  BY <1>1, Zenon DEF Passes
<1>3. EvictionPolicy'
  BY <1>2, PolicyKept, Zenon DEF GcOK
<1>4. e \in gc.victims /\ (e \in Blobs => gc.victims \cap Actions \subseteq gc.removed)
  BY <1>1 DEF Removable
<1>5. /\ \A a \in Actions : results'[a] \in {results[a], None}
      /\ e \notin Blobs => results'[e] = None
  BY DEF RemoveFile, StoreOK
<1>6. \A a \in (gc'.removed \cap Actions) \ gc'.renewed : results'[a] = None
  BY <1>1, <1>2, <1>5, EvictionAssumption DEF GcOK
<1>7. gc'.removed \subseteq gc'.victims /\ (gc'.removed \cap Blobs # {} => gc'.victims \cap Actions \subseteq gc'.removed)
  BY <1>1, <1>2, <1>4 DEF GcOK
<1> QED
  BY <1>1, <1>2, <1>3, <1>6, <1>7 DEF GcOK

\* A pass that starts, or lists files.
LEMMA ScanKeeps ==
  ASSUME GcOK, StoreOK, StartPass \/ ScanBlobs \/ ScanActions
  PROVE  GcOK'
<1>1. gc \in Passes /\ blobFiles \in Seq(Blobs) /\ actionFiles \in Seq(Actions) /\ IsInjective(blobFiles) /\ IsInjective(actionFiles)
  BY Zenon DEF GcOK, StoreOK
<1>2. CASE StartPass
  <2>1. PICK max \in Nat : gc' = [Idle EXCEPT !.pc = "scan", !.max = max]
    <3>1. MaxBytes \in Nat /\ (CapBytes * 4) \div 5 \in Nat
      BY CacheAssumption
    <3> QED
      BY <1>2, <3>1, Zenon DEF StartPass
  <2>2. gc' \in Passes /\ gc'.pc = "scan" /\ gc'.blobs = None /\ gc'.acts = None /\ gc'.removed = {}
    BY <2>1, IdleFields, Zenon DEF Passes
  <2> QED
    BY <2>2, Zenon DEF GcOK, EvictionPolicy
<1>3. CASE ScanBlobs
  <2>1. gc.pc = "scan" /\ gc' = [gc EXCEPT !.blobs = blobFiles]
    BY <1>3 DEF ScanBlobs
  <2>2. /\ gc' \in Passes /\ gc'.pc = "scan" /\ gc'.blobs = blobFiles /\ gc'.acts = gc.acts /\ gc'.refs = gc.refs
        /\ gc'.removed = gc.removed
    BY <1>1, <2>1, Zenon DEF Passes
  <2> QED
    BY <1>1, <2>1, <2>2 DEF GcOK, EvictionPolicy
<1>4. CASE ScanActions
  <2> DEFINE refs == [a \in Range(actionFiles) |-> Refs(results[a])]
  <2>1. gc.pc = "scan" /\ gc' = [gc EXCEPT !.acts = actionFiles, !.refs = refs, !.renewed = {}]
    BY <1>4 DEF ScanActions
  <2>2. Range(actionFiles) \subseteq Actions
    BY <1>1 DEF Range
  <2>3. \A a \in Range(actionFiles) : Refs(results[a]) \subseteq Blobs
    <3>1. \A a \in Range(actionFiles) : results[a] \in Results
      BY <2>2 DEF StoreOK
    <3> QED
      BY <3>1, ResultParts, Zenon
  <2>4. refs \in [Range(actionFiles) -> SUBSET Blobs]
    BY <2>3
  <2> HIDE DEF refs
  <2>5. refs \in UNION {[as -> SUBSET Blobs] : as \in SUBSET Actions}
    BY <2>2, <2>4
  <2>6. /\ gc' \in Passes /\ gc'.pc = "scan" /\ gc'.blobs = gc.blobs /\ gc'.acts = actionFiles /\ gc'.refs = refs
        /\ gc'.removed = gc.removed
    BY <1>1, <2>1, <2>5, Zenon DEF Passes
  <2> QED
    BY <1>1, <2>1, <2>4, <2>6 DEF GcOK, EvictionPolicy
<1> QED
  BY <1>2, <1>3, <1>4

\* Every step keeps the collector.
LEMMA GcStep ==
  ASSUME CacheInv, [Next]_vars
  PROVE  GcOK'
<1>1. GcOK /\ StoreOK /\ RunsOK
  BY DEF CacheInv
<1>2. CASE UNCHANGED <<gc, results>>
  BY <1>1, <1>2, SamePass
<1>3. ASSUME NEW r \in Runs, Run(r) PROVE GcOK'
  <2>0. Act(r) \in Actions
    BY CacheAssumption DEF Act
  <2>1. CASE Lookup(r) \/ CheckStreams(r) \/ Needing(r) \/ Commit(r) \/ CommitFails(r)
               \/ Execute(r) \/ Capture(r) \/ Mirror(r) \/ Publish(r)
    <3>1. UNCHANGED <<gc, results>>
      BY <2>1, Zenon DEF Lookup, CheckStreams, Needing, Commit, CommitFails, Execute, Capture, Mirror, Publish, storeVars, gcVars
    <3> QED
      BY <1>2, <3>1
  <2>2. CASE \E p \in Paths : Ensure(r, p) \/ Stage(r, p)
    <3>1. UNCHANGED <<gc, results>>
      BY <2>2, Zenon DEF Ensure, Stage, storeVars, gcVars
    <3> QED
      BY <1>2, <3>1
  <2>3. CASE Fetch(r)
    <3>1. UNCHANGED <<gc, results>> \/ PutResult(Act(r), rresults[Act(r)])
      BY <2>3, Zenon DEF Fetch, storeVars
    <3> QED
      BY <1>1, <1>2, <2>0, <3>1, RenewKeeps
  <2>4. CASE Store(r)
    <3>1. UNCHANGED <<gc, results>> \/ PutResult(Act(r), hit[r])
      BY <2>4, Zenon DEF Store
    <3> QED
      BY <1>1, <1>2, <2>0, <3>1, RenewKeeps
  <2> QED
    BY <1>3, <2>1, <2>2, <2>3, <2>4, Zenon DEF Run
<1>4. CASE Collect
  <2>1. CASE EndPass
    BY <2>1, IdleKeeps DEF EndPass
  <2> QED
    BY <1>1, <1>4, <2>1, ScanKeeps, PlanKeeps, RemoveKeeps, Zenon DEF Collect
<1>5. CASE Interrupt
  BY <1>5, IdleKeeps DEF Interrupt
<1>6. ASSUME NEW a \in Actions, Forget(a) PROVE GcOK'
  <2>1. UNCHANGED gc /\ results' = [results EXCEPT ![a] = None]
    BY <1>6 DEF Forget, gcVars
  <2>2. \A c \in Actions : results'[c] \in {results[c], None}
    BY <1>1, <2>1 DEF StoreOK
  <2> QED
    BY <1>1, <2>1, <2>2, SamePass
<1>7. CASE \E b \in Blobs : EvictRemote(b)
  <2>1. UNCHANGED <<gc, results>>
    BY <1>7, Zenon DEF EvictRemote, storeVars, gcVars
  <2> QED
    BY <1>2, <2>1
<1>8. CASE UNCHANGED vars
  BY <1>2, <1>8 DEF vars
<1> QED
  BY <1>3, <1>4, <1>5, <1>6, <1>7, <1>8, Zenon DEF Next

-----------------------------------------------------------------------------
(* The invariant holds *)

\* Every step keeps the runs.
LEMMA RunsStep ==
  ASSUME CacheInv, [Next]_vars
  PROVE  RunsOK'
<1>1. CASE UNCHANGED <<pc, hit, need, ws, outcome, todo>>
  BY <1>1, Zenon DEF CacheInv, RunsOK, RunOK
<1>2. CASE Collect \/ Interrupt \/ (\E a \in Actions : Forget(a)) \/ (\E b \in Blobs : EvictRemote(b)) \/ UNCHANGED vars
  <2>1. UNCHANGED <<pc, hit, need, ws, outcome, todo>>
    BY <1>2, Zenon DEF Collect, StartPass, ScanBlobs, ScanActions, Plan, RemoveFile, EndPass, Interrupt, Forget,
                       EvictRemote, runVars, vars
  <2> QED
    BY <1>1, <2>1
<1> QED
  BY <1>2, RunStep, Zenon DEF Next

\* The cache starts as it should be.
LEMMA CacheInit ==
  ASSUME Init
  PROVE  CacheInv
<1> DEFINE left == {a \in Seeds : results[a] # None}
           refd == UNION {Refs(results[a]) : a \in left}
<1>1. Seeds \subseteq Actions /\ IsFiniteSet(Actions) /\ IsFiniteSet(Blobs)
  BY CacheAssumption, EvictionAssumption, FS_Subset
<1>2. results \in [Actions -> Results \cup {None}]
  BY CacheAssumption, Zenon DEF Init
<1>3. \A a \in left : results[a] \in Results /\ Refs(results[a]) \subseteq Blobs
  BY <1>1, <1>2, ResultParts, Zenon
<1>4. left \subseteq Actions /\ refd \subseteq Blobs
  BY <1>1, <1>3
<1>5. IsFiniteSet(left) /\ IsFiniteSet(refd)
  BY <1>1, <1>4, FS_Subset
<1>6. actionFiles = Listing(left) /\ blobFiles = Listing(refd)
  BY Zenon DEF Init
<1> HIDE DEF left, refd
<1>7. /\ actionFiles \in Seq(left) /\ IsInjective(actionFiles) /\ Range(actionFiles) \subseteq left
      /\ blobFiles \in Seq(refd) /\ IsInjective(blobFiles)
  BY <1>5, <1>6, ListingOf
<1>8. StoreOK
  <2>1. actionFiles \in Seq(Actions) /\ blobFiles \in Seq(Blobs)
    BY <1>4, <1>7
  <2>2. \A a \in Range(actionFiles) : results[a] # None
    BY <1>7 DEF left
  <2> QED
    BY <1>2, <1>7, <2>1, <2>2 DEF StoreOK
<1>9. RunsOK
  BY DEF Init, RunsOK, RunOK
<1>10. TierOK
  BY Zenon DEF Init, TierOK, PublishedIsComplete
<1>11. GcOK
  BY IdleFields, Zenon DEF Init, GcOK, EvictionPolicy
<1> QED
  BY <1>8, <1>9, <1>10, <1>11 DEF CacheInv

\* The invariant of the cache: it holds in every state.
THEOREM CacheInvariant == Spec => []CacheInv
<1>1. Init => CacheInv
  BY CacheInit
<1>2. CacheInv /\ [Next]_vars => CacheInv'
  BY StoreStep, RunsStep, TierStep, GcStep DEF CacheInv
<1> QED
  BY <1>1, <1>2, PTL DEF Spec

\* A workspace is untouched until everything is there, and holds exactly the
\* result when the run reports a hit, whatever is collected meanwhile.
THEOREM WorkspaceWholeOrUntouched == Spec => []WholeOrUntouched
<1>1. CacheInv => WholeOrUntouched
  BY Zenon DEF CacheInv, RunsOK, RunOK, WholeOrUntouched
<1> QED
  BY <1>1, CacheInvariant, PTL

\* A result other machines can look up never lacks a blob its uploader did
\* not upload.
THEOREM PublishedResultsComplete == Spec => []PublishedIsComplete
<1>1. CacheInv => PublishedIsComplete
  BY DEF CacheInv, TierOK
<1> QED
  BY <1>1, CacheInvariant, PTL

\* Every pass of the collector evicts what its policy says and no more.
THEOREM PassesKeepPolicy == Spec => []EvictionPolicy
<1>1. CacheInv => EvictionPolicy
  BY DEF CacheInv, GcOK
<1> QED
  BY <1>1, CacheInvariant, PTL

\* At every point of a pass a result it saw, and that nobody replaced, has all
\* the blobs it had.
THEOREM OwnersEvictedFirst == Spec => []OwnersGoFirst
<1>1. ASSUME CacheInv PROVE OwnersGoFirst
  <2> SUFFICES ASSUME gc.pc = "remove", NEW a \in Range(gc.acts) \ gc.renewed, results[a] # None,
                      NEW b \in gc.refs[a], b \in gc.removed
               PROVE  FALSE
    BY DEF OwnersGoFirst
  <2>1. /\ gc \in Passes /\ gc.acts # None /\ gc.refs \in [Range(gc.acts) -> SUBSET Blobs]
        /\ gc.removed \subseteq gc.victims /\ (gc.removed \cap Blobs # {} => gc.victims \cap Actions \subseteq gc.removed)
        /\ \A c \in (gc.removed \cap Actions) \ gc.renewed : results[c] = None
    BY <1>1, Zenon DEF CacheInv, GcOK
  <2>2. a \in Actions /\ b \in Blobs
    BY <2>1 DEF Passes, Range
  <2>3. a \notin gc.victims
    BY <2>1, <2>2, Zenon
  <2>4. (UNION {gc.refs[c] : c \in Range(gc.acts) \ gc.victims}) \cap gc.victims = {}
    BY <1>1, Zenon DEF CacheInv, GcOK, EvictionPolicy, WellChosen
  <2> QED
    BY <2>1, <2>3, <2>4
<1> QED
  BY <1>1, CacheInvariant, PTL
=============================================================================
