------------------------------ MODULE MCCaches -------------------------------
(***************************************************************************)
(* Three parts that do not touch each other, one of them in each           *)
(* behaviour: runs of actions over the action cache, invocations of a      *)
(* build that decide by receipts and the change tracker whether there is   *)
(* work, and readers of the remote cache.                                  *)
(***************************************************************************)
EXTENDS ActionCache, BuildReceipt, BatchDownload

CONSTANTS r1, r2, a1, a2, b1, b2, b3, b4, s2, v1

VARIABLE part

\* Two runs of an action that is not reproducible, and another action's result
\* that shares a blob with it.
Res(x, y, s) == [exit |-> 0, outputs |-> <<x, y>>, streams |-> s]
Failed == [Res(b1, b2, {b4}) EXCEPT !.exit = 1]
MCProduced == (a1 :> {Res(b1, b2, {b4}), Res(b3, b2, {b4}), Failed}) @@ (a2 :> {Res(b2, b2, {})})
MCActionOf == [r \in Runs |-> a1]
MCSize == [e \in Blobs \cup Actions |-> IF e \in Actions THEN 1 ELSE IF e = b3 THEN 3 ELSE 2]
Symmetry == Permutations(Runs)

\* Bound: with a remote tier, a fault and a pass of the collector are not both
\* explored next to a second run.
Waiting == {r \in Runs : pc[r] = "lookup" /\ tries[r] = 1}
CacheScope == provider = "local" \/ faults = 0 \/ passes = 0 \/ Waiting # {}

\* One target that reads both sources.
MCReads == [t \in Targets |-> Sources]

\* Bound: two invocations and two writes or mishaps, or three and one; the
\* last invocation is followed until it has decided.  One of the sources is
\* only written with the content it has; three writes are unreported at most;
\* a sentinel is repeated next to one write or mishap.
Spent == builds + writes + mishaps
Retrying == fence # Nothing /\ fence.token % FenceAttempts # 0
ReceiptScope ==
  /\ disk[s2] = v1 /\ Len(pending) <= 3
  /\ Retrying => writes + mishaps <= 1
  /\ writes + mishaps <= 2 /\ Spent <= 4
  /\ Spent = 4 => \/ step \in {"barrier", "load", "hit"}
                  \/ step = "build" /\ unread = Reads[target]

\* Readers whose windows overlap, and one of a single blob.  Two blobs fit a batch
\* together, the third alone, the last not at all.
MCAsks == <<<<2, 1, 3, 4>>, <<1, 2>>, <<3>>>>
MCWays == <<"prefetch", "prefetch", "ensure">>
MCBlobBytes == <<1, 1, 2, 3>>

allVars == <<part, vars, receiptVars, downloadVars>>

\* The parts that do not run stay where they start.
MCInit ==
  /\ Init /\ ReceiptInit /\ DownloadInit
  /\ part \in {"cache", "receipt", "downloads"}
  /\ part # "cache" => provider = "local" /\ blobs = {}
  /\ part # "downloads" => ~unsupported

MCNext ==
  \/ part = "cache" /\ Next /\ CacheScope' /\ UNCHANGED <<part, receiptVars, downloadVars>>
  \/ part = "receipt" /\ ReceiptNext /\ ReceiptScope' /\ UNCHANGED <<part, vars, downloadVars>>
  \/ part = "downloads" /\ DownloadNext /\ UNCHANGED <<part, vars, receiptVars>>

MCSpec == MCInit /\ [][MCNext]_allVars

\* Invocations only.
ReceiptMCSpec == MCInit /\ part = "receipt" /\ [][MCNext]_allVars
=============================================================================
