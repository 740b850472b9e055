------------------------------- MODULE LossSet -------------------------------
(***************************************************************************)
(* What LossIntervals promises its caller: a set of lost sequence numbers, *)
(* each lost for one reason, that only forgets what was acknowledged.      *)
(***************************************************************************)
EXTENDS Naturals

CONSTANTS
  Top,         \* the largest sequence number (u64::MAX)
  LossReasons  \* loss reasons

VARIABLES
  loss,     \* pairs <<sequence number, reason>>
  outcome,  \* what record last returned
  panicked  \* a call failed an assertion

vars == <<loss, outcome, panicked>>

Seqs == 0..Top

Init == loss = {} /\ outcome = "none" /\ panicked = FALSE

\* A range may be recorded once, for one reason.
Record(first, last, reason) ==
  /\ ~panicked
  /\ IF \/ last < first
        \/ \E l \in loss : l[1] \in first..last /\ l[2] # reason
       THEN panicked' = TRUE /\ UNCHANGED <<loss, outcome>>
       ELSE /\ loss' = loss \cup ((first..last) \X {reason})
            /\ outcome' = IF \E l \in loss : /\ l[2] = reason
                                             /\ first <= l[1] + 1 /\ l[1] <= last + 1
                            THEN "merged" ELSE "inserted"
            /\ UNCHANGED panicked

AcknowledgeUpTo(seq) ==
  /\ ~panicked
  /\ loss' = {l \in loss : seq < l[1]}
  /\ UNCHANGED <<outcome, panicked>>

Drain ==
  /\ ~panicked
  /\ loss' = {}
  /\ UNCHANGED <<outcome, panicked>>

\* What was lost before a number.
Before(seq) == {l \in loss : l[1] < seq}

Next == \/ \E first, last \in Seqs, reason \in LossReasons : Record(first, last, reason)
        \/ \E seq \in Seqs : AcknowledgeUpTo(seq)
        \/ Drain

Spec == Init /\ [][Next]_vars
=============================================================================
