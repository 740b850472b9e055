--------------------------- MODULE ComponentProofs ---------------------------
(***************************************************************************)
(* Proofs about three components that stand alone: the probe of the remote *)
(* cache, the intervals of lost events, and the scheduler of plans.        *)
(***************************************************************************)
EXTENDS PlanScheduler, RemoteProbe, LossIntervals, FiniteSetTheorems, WellFoundedInduction, TLAPS

-----------------------------------------------------------------------------
(* The probe: every caller that waited for one receives its outcome unless *)
(* it looks too late, for any number of callers and any cooldowns.         *)

Outcomes == {"ok"} \cup Errors

ProbeTypeOK ==
  /\ available \in BOOLEAN
  /\ phase \in {"idle", "probing", "failed"}
  /\ error \in Errors
  /\ failures \in 0..FailureCap
  /\ left \in Nat
  /\ probe \in {"none", "running"}
  /\ caller \in [Callers -> {"away", "called", "waiting", "woken"}]
  /\ started \in [Callers -> BOOLEAN]
  /\ answer \in [Callers -> Outcomes \cup {"none"}]
  /\ owed \in [Callers -> Outcomes \cup {"none"}]
  /\ expired \subseteq Callers

\* What a caller finds that looks at the phase now is o.
Settled(o) ==
  IF o = "ok" THEN available
  ELSE /\ ~available /\ phase = "failed" /\ error = o
       /\ o \in Errors /\ (o = "permanent" \/ left > 0)

\* The slot is taken exactly while a probe runs.
SlotTaken ==
  /\ phase = "probing" <=> probe = "running"
  /\ phase = "probing" => ~available

\* The failure a caller is owed may be gone: its cooldown was over before it looked.
Missed(c) == owed[c] = "transient" /\ c \in expired

\* A caller waits only while a probe runs, and one that was woken will find
\* the outcome, unless it missed it.
WaitersOwed ==
  \A c \in Callers :
    /\ caller[c] = "called" => owed[c] = "none"
    /\ caller[c] = "waiting" => probe = "running"
    /\ caller[c] = "woken" => Missed(c) \/ Settled(owed[c])
    /\ caller[c] \in {"called", "waiting", "woken"} => answer[c] = "none"

ProbeInv == ProbeTypeOK /\ SlotTaken /\ WaitersOwed /\ OneOutcome

-----------------------------------------------------------------------------
(* The steps *)

\* A call starts with no answer and no outcome owed.
LEMMA CallInitInductive ==
  ASSUME ProbeInv, NEW c \in Callers, CallInit(c)
  PROVE  ProbeInv'
<1> USE DEF ProbeInv
<1>1. ProbeTypeOK'
  BY DEF ProbeTypeOK, CallInit
<1>2. SlotTaken'
  BY DEF SlotTaken, CallInit
<1>3. WaitersOwed'
  BY DEF WaitersOwed, Settled, Missed, ProbeTypeOK, CallInit
<1>4. OneOutcome'
  BY DEF OneOutcome, ProbeTypeOK, CallInit
<1> QED
  BY <1>1, <1>2, <1>3, <1>4

\* A caller that returns leaves the phase alone, and one that is owed an
\* outcome finds it.
LEMMA AnswerInductive ==
  ASSUME ProbeInv, NEW c \in Callers, NEW what \in Outcomes,
         caller[c] \in {"called", "woken"}, owed[c] # "none" => Missed(c) \/ owed[c] = what,
         Answer(c, what), UNCHANGED <<available, error, failures, left, owed, expired>>
  PROVE  ProbeInv'
<1> USE DEF ProbeInv
<1>1. ProbeTypeOK'
  BY DEF ProbeTypeOK, Answer
<1>2. SlotTaken'
  BY DEF SlotTaken, Answer
<1>3. WaitersOwed'
  BY DEF WaitersOwed, Settled, Missed, ProbeTypeOK, Answer
<1>4. OneOutcome'
  BY DEF OneOutcome, Missed, ProbeTypeOK, Answer
<1> QED
  BY <1>1, <1>2, <1>3, <1>4

\* A caller that joins a probe, or starts one, missed what it was owed, and so
\* did every other that was woken.
LEMMA WaitInductive ==
  ASSUME ProbeInv, NEW c \in Callers, caller[c] \in {"called", "woken"},
         caller' = [caller EXCEPT ![c] = "waiting"],
         phase' = "probing", probe' = "running", started' \in [Callers -> BOOLEAN],
         ~available, ~(phase = "failed" /\ (error = "permanent" \/ left > 0)),
         UNCHANGED <<answer, available, error, failures, left, owed, expired>>
  PROVE  ProbeInv'
<1> USE DEF ProbeInv
<1>1. \A o \in Outcomes : ~Settled(o)
  BY DEF Settled, Outcomes, Errors
<1>2. \A d \in Callers : caller[d] = "woken" => Missed(d)
  BY <1>1 DEF WaitersOwed, Settled, ProbeTypeOK
<1>3. ProbeTypeOK'
  BY Zenon DEF ProbeTypeOK
<1>4. SlotTaken'
  BY DEF SlotTaken
<1>5. WaitersOwed'
  BY <1>2 DEF WaitersOwed, ProbeTypeOK, Missed
<1>6. OneOutcome'
  BY DEF OneOutcome
<1> QED
  BY <1>3, <1>4, <1>5, <1>6

\* A caller that looks at the phase returns it, waits, or takes the slot.
LEMMA InspectInductive ==
  ASSUME ProbeInv, NEW c \in Callers, Inspect(c)
  PROVE  ProbeInv'
<1> DEFINE closed == phase = "failed" /\ (error = "permanent" \/ left > 0)
           wait == caller' = [caller EXCEPT ![c] = "waiting"] /\ UNCHANGED answer
<1>1. /\ caller[c] \in {"called", "woken"}
      /\ UNCHANGED <<available, error, failures, left, owed, expired>>
  BY DEF Inspect
<1>2. caller[c] = "woken" => Missed(c) \/ Settled(owed[c])
  BY DEF ProbeInv, WaitersOwed
<1>3. caller[c] = "called" => owed[c] = "none"
  BY DEF ProbeInv, WaitersOwed
<1>4. started \in [Callers -> BOOLEAN] /\ error \in Errors
  BY DEF ProbeInv, ProbeTypeOK
<1>5. CASE available /\ Answer(c, "ok")
  BY <1>1, <1>2, <1>3, <1>5, AnswerInductive DEF Settled, Outcomes
<1>6. CASE ~available /\ phase = "probing" /\ wait /\ UNCHANGED <<phase, probe, started>>
  <2>1. probe = "running"
    BY <1>6 DEF ProbeInv, SlotTaken
  <2> QED
    BY <1>1, <1>4, <1>6, <2>1, WaitInductive, Zenon
<1>7. CASE ~available /\ closed /\ Answer(c, error)
  BY <1>1, <1>2, <1>3, <1>4, <1>7, AnswerInductive, Zenon DEF Settled, Outcomes
<1>8. CASE ~available /\ phase # "probing" /\ ~closed /\ started[c] /\ Answer(c, error)
  <2>1. caller[c] = "called" \/ Missed(c)
    BY <1>1, <1>2, <1>8 DEF Settled
  <2> QED
    BY <1>1, <1>3, <1>4, <1>8, <2>1, AnswerInductive, Zenon DEF Outcomes
<1>9. CASE /\ ~available /\ phase # "probing" /\ ~closed /\ ~started[c]
           /\ phase' = "probing" /\ probe' = "running"
           /\ started' = [started EXCEPT ![c] = TRUE]
           /\ wait
  <2>1. started' \in [Callers -> BOOLEAN]
    BY <1>4, <1>9
  <2> QED
    BY <1>1, <1>9, <2>1, WaitInductive, Zenon
<1> QED
  BY <1>5, <1>6, <1>7, <1>8, <1>9 DEF Inspect

\* The outcome is owed to those who wait when it is recorded.
LEMMA RecordInductive ==
  ASSUME ProbeInv, NEW verdict \in Outcomes, Record(verdict)
  PROVE  ProbeInv'
<1> USE DEF ProbeInv
<1>1. probe = "running" /\ phase = "probing" /\ ~available
  BY DEF Record, SlotTaken
<1>2. \A c \in Callers : caller[c] = "woken" => Missed(c)
  BY <1>1 DEF WaitersOwed, Settled
<1>3. /\ available' \in BOOLEAN /\ phase' \in {"idle", "failed"}
      /\ error' \in Errors /\ failures' \in 0..FailureCap /\ left' \in Nat
      /\ Settled(verdict)'
  <2>1. CASE verdict = "ok"
    BY <1>1, <2>1 DEF Record, Settled, ProbeTypeOK
  <2>2. CASE verdict \in Errors
    <3>1. verdict # "ok"
      BY <2>2 DEF Errors
    <3>2. /\ phase' = "failed" /\ error' = verdict /\ available' = available
          /\ failures' = IF failures < FailureCap THEN failures + 1 ELSE failures
          /\ left' = cooldown(failures')
      BY <3>1 DEF Record
    <3>3. failures' \in 1..FailureCap
      BY <3>2, CooldownAssumption DEF ProbeTypeOK
    <3>4. left' \in Nat \ {0}
      BY <3>2, <3>3, CooldownAssumption
    <3>5. Settled(verdict)'
      BY <1>1, <2>2, <3>1, <3>2, <3>4 DEF Settled
    <3>6. available' \in BOOLEAN
      BY <3>2 DEF ProbeTypeOK
    <3>7. failures' \in 0..FailureCap
      BY <3>3, CooldownAssumption
    <3> QED
      BY <2>2, <3>2, <3>4, <3>5, <3>6, <3>7
  <2> QED
    BY <2>1, <2>2 DEF Outcomes
<1>4. /\ probe' = "none"
      /\ caller' = [c \in Callers |-> IF caller[c] = "waiting" THEN "woken" ELSE caller[c]]
      /\ owed' = [c \in Callers |-> IF caller[c] = "waiting" THEN verdict ELSE owed[c]]
      /\ expired' = expired \ {c \in Callers : caller[c] = "waiting"}
      /\ UNCHANGED <<started, answer>>
  BY DEF Record, Waken
<1>5. ProbeTypeOK'
  BY <1>3, <1>4 DEF ProbeTypeOK
<1>6. SlotTaken'
  BY <1>3, <1>4 DEF SlotTaken
<1>7. WaitersOwed'
  BY <1>2, <1>3, <1>4 DEF WaitersOwed, Missed, ProbeTypeOK
<1>8. OneOutcome'
  BY <1>4 DEF OneOutcome, WaitersOwed
<1> QED
  BY <1>5, <1>6, <1>7, <1>8

\* A caller that is dropped leaves the slot as it is.
LEMMA CancelInductive ==
  ASSUME ProbeInv, NEW c \in Callers, CancelCaller(c)
  PROVE  ProbeInv'
<1> USE DEF ProbeInv
<1>1. ProbeTypeOK'
  BY DEF ProbeTypeOK, CancelCaller
<1>2. SlotTaken'
  BY DEF SlotTaken, CancelCaller
<1>3. WaitersOwed'
  BY DEF WaitersOwed, Settled, Missed, ProbeTypeOK, CancelCaller
<1>4. OneOutcome'
  BY DEF OneOutcome, CancelCaller
<1> QED
  BY <1>1, <1>2, <1>3, <1>4

\* Who has not looked when the cooldown is over has missed it.
LEMMA TickInductive ==
  ASSUME ProbeInv, CooldownTick
  PROVE  ProbeInv'
<1> USE DEF ProbeInv
<1>1. ProbeTypeOK'
  BY DEF ProbeTypeOK, CooldownTick
<1>2. SlotTaken'
  BY DEF SlotTaken, CooldownTick
<1>3. WaitersOwed'
  <2>1. /\ left' > 0 \/ left' = 0
        /\ left' > 0 => expired' = expired
        /\ left' = 0 => expired' = expired \cup {c \in Callers : caller[c] = "woken"}
        /\ UNCHANGED <<available, phase, error, probe, caller, answer, owed>>
    BY DEF ProbeTypeOK, CooldownTick
  <2>2. \A c \in Callers : Missed(c) => Missed(c)'
    BY <2>1 DEF Missed
  <2>3. \A c \in Callers : caller[c] = "woken" /\ Settled(owed[c]) => Missed(c)' \/ Settled(owed[c])'
    BY <2>1 DEF Missed, Settled, Errors
  <2> QED
    BY <2>1, <2>2, <2>3 DEF WaitersOwed
<1>4. OneOutcome'
  BY DEF OneOutcome, CooldownTick
<1> QED
  BY <1>1, <1>2, <1>3, <1>4

-----------------------------------------------------------------------------
(* The theorems *)

\* The slot is taken exactly while a probe runs, callers wait only then, and
\* what a probe recorded stands until its waiters have read it or its cooldown
\* is over, however time passes: ProbeInv holds in every state.
THEOREM ProbeInductive == ProbeSpec => []ProbeInv
<1>1. ProbeInit => ProbeInv
  <2> SUFFICES ASSUME ProbeInit
               PROVE  ProbeInv
    OBVIOUS
  <2> USE DEF ProbeInit
  <2>1. ProbeTypeOK
    <3>1. 0 \in 0..FailureCap
      BY CooldownAssumption
    <3>2. available \in BOOLEAN /\ started \in [Callers -> BOOLEAN]
      BY Zenon
    <3>3. "transient" \in Errors /\ "none" \in Outcomes \cup {"none"}
      BY DEF Errors
    <3> QED
      BY <3>1, <3>2, <3>3 DEF ProbeTypeOK
  <2>2. SlotTaken /\ WaitersOwed /\ OneOutcome
    BY DEF SlotTaken, WaitersOwed, OneOutcome
  <2> QED
    BY <2>1, <2>2 DEF ProbeInv
<1>2. ProbeInv /\ [ProbeNext]_probeVars => ProbeInv'
  <2> SUFFICES ASSUME ProbeInv, [ProbeNext]_probeVars
               PROVE  ProbeInv'
    OBVIOUS
  <2>1. ASSUME NEW c \in Callers, CallInit(c) \/ Inspect(c) \/ CancelCaller(c)
        PROVE  ProbeInv'
    BY <2>1, CallInitInductive, InspectInductive, CancelInductive
  <2>2. CASE ProbeEnds
    BY <2>2, RecordInductive DEF ProbeEnds, Outcomes
  <2>3. CASE ProbeDropped
    <3>1. "transient" \in Outcomes
      BY DEF Outcomes, Errors
    <3> QED
      BY <2>3, <3>1, RecordInductive DEF ProbeDropped
  <2>4. CASE CooldownTick
    BY <2>4, TickInductive
  <2>5. CASE UNCHANGED probeVars
    BY <2>5 DEF probeVars, ProbeInv, ProbeTypeOK, SlotTaken, WaitersOwed, Missed, OneOutcome, Settled
  <2> QED
    BY <2>1, <2>2, <2>3, <2>4, <2>5 DEF ProbeNext
<1> QED
  BY <1>1, <1>2, PTL DEF ProbeSpec

\* A caller returns how the probe ended that it waited for last, unless that
\* was a failure that may be retried and whose cooldown passed before the caller
\* looked (recovery.rs), for any callers, cooldowns and delays.
THEOREM ProbeOneOutcome == ProbeSpec => []OneOutcome
<1>1. ProbeInv => OneOutcome
  BY DEF ProbeInv
<1> QED
  BY <1>1, ProbeInductive, PTL

-----------------------------------------------------------------------------
(* The intervals: LossIntervals implements LossSet call by call, for every *)
(* largest sequence number and every set of reasons.                       *)

\* The lowest member of a set of numbers is the one that is below all others.
LEMMA LowestIs ==
  ASSUME NEW S \in SUBSET Nat, NEW m \in S, \A y \in S : m <= y
  PROVE  Lowest(S) = m
<1>1. \A x \in S : (\A y \in S : x <= y) => x = m
  OBVIOUS
<1> QED
  BY <1>1, Zenon DEF Lowest

\* A set of sequence numbers that is not empty has a highest member.
LEMMA HighestOf ==
  ASSUME NEW S \in SUBSET Seqs, S # {}
  PROVE  Highest(S) \in S /\ \A y \in S : y <= Highest(S)
<1> DEFINE T == {Top - x : x \in S}
           R == OpToRel(<, Nat)
<1>1. \A x \in S : x \in Nat /\ Top - x \in Nat
  BY TopAssumption DEF Seqs
<1>2. T \subseteq Nat /\ T # {}
  BY <1>1
<1>3. \E d \in T : \A e \in T : <<e, d>> \notin R
  BY <1>2, NatLessThanWellFounded, WFMin, Zenon
<1>4. PICK d \in T : \A e \in T : <<e, d>> \notin R
  BY <1>3, Zenon
<1>5. \A e \in T : ~(e < d)
  <2>1. \A e \in T : e < d => <<e, d>> \in R
    BY <1>2 DEF OpToRel
  <2> QED
    BY <1>4, <2>1, Zenon
<1>6. PICK x \in S : d = Top - x
  OBVIOUS
<1>7. \A y \in S : y <= x
  <2> TAKE y \in S
  <2>1. ~(Top - y < Top - x)
    BY <1>5, <1>6
  <2> HIDE DEF T
  <2> QED
    BY <1>1, <2>1, TopAssumption
<1>8. \E z \in S : \A y \in S : y <= z
  BY <1>7
<1> QED
  BY <1>8 DEF Highest

-----------------------------------------------------------------------------
(* The inductive invariant *)

\* The intervals are ranges of sequence numbers, and no two of them overlap.
LossInv ==
  /\ Keys \subseteq Seqs
  /\ \A k \in Keys : /\ intervals[k].last \in Seqs /\ k <= intervals[k].last
                     /\ intervals[k].reason \in LossReasons
  /\ \A j, k \in Keys : j < k => intervals[j].last < k

\* A number is covered for a reason by the interval of one key.
LEMMA CoveredBy ==
  ASSUME LossInv, NEW keys \in SUBSET Keys, NEW n \in Seqs, NEW q \in LossReasons
  PROVE  <<n, q>> \in Covered(keys)
           <=> \E k \in keys : k <= n /\ n <= intervals[k].last /\ q = intervals[k].reason
BY DEF Covered

-----------------------------------------------------------------------------
(* record *)

Low(first, reason) == Lowest({first} \cup LeftAbsorbed(first, reason))
High(first, last, reason) == Highest({last} \cup Lasts(LeftAbsorbed(first, reason)))

\* What the left neighbour is, and what it means that it is not absorbed.
LEMMA LeftNeighbour ==
  ASSUME LossInv, NEW first \in Seqs, NEW reason \in LossReasons
  PROVE  /\ \A p \in LeftAbsorbed(first, reason) :
              /\ p \in Keys /\ p < first /\ first <= intervals[p].last + 1
              /\ intervals[p].reason = reason
              /\ \A k \in Keys : k < first => k <= p
         /\ LeftAbsorbed(first, reason) = {} /\ ~LeftConflict(first, reason) =>
              \A k \in Keys : k < first =>
                /\ intervals[k].last < first
                /\ intervals[k].reason = reason => intervals[k].last + 1 < first
<1> USE TopAssumption DEF Seqs
<1>1. ASSUME NEW p \in LeftAbsorbed(first, reason)
      PROVE  /\ p \in Keys /\ p < first /\ first <= intervals[p].last + 1
             /\ intervals[p].reason = reason
             /\ \A k \in Keys : k < first => k <= p
  BY <1>1 DEF LeftAbsorbed, left_neighbour, Succ, LossInv
<1>2. ASSUME LeftAbsorbed(first, reason) = {}, ~LeftConflict(first, reason),
             NEW k \in Keys, k < first
      PROVE  /\ intervals[k].last < first
             /\ intervals[k].reason = reason => intervals[k].last + 1 < first
  <2>1. k \in Nat /\ intervals[k].last \in Nat
    BY DEF LossInv
  <2>2. CASE k \in left_neighbour(first)
    <3>1. /\ ~(first <= Succ(intervals[k].last) /\ intervals[k].reason = reason)
          /\ ~(first <= intervals[k].last /\ intervals[k].reason # reason)
      BY <1>2, <2>2 DEF LeftAbsorbed, LeftConflict
    <3>2. first <= intervals[k].last => first <= Succ(intervals[k].last)
      BY <2>1 DEF Succ
    <3>3. first <= intervals[k].last + 1 => first <= Succ(intervals[k].last)
      BY <2>1 DEF Succ, LossInv
    <3> QED
      BY <2>1, <3>1, <3>2, <3>3
  <2>3. CASE k \notin left_neighbour(first)
    <3>1. PICK j \in Keys : j < first /\ ~(j <= k)
      BY <1>2, <2>3 DEF left_neighbour
    <3>2. j \in Nat /\ intervals[k].last < j
      BY <2>1, <3>1 DEF LossInv
    <3> QED
      BY <2>1, <3>1, <3>2
  <2> QED
    BY <2>2, <2>3
<1> QED
  BY <1>1, <1>2

\* The range once it is extended by the absorbed neighbour: it covers what it
\* covered and the neighbour, and nothing else of the map lies before first
\* and not before it.
LEMMA Extended ==
  ASSUME LossInv, NEW first \in Seqs, NEW last \in Seqs, NEW reason \in LossReasons,
         first <= last
  PROVE  LET back == LeftAbsorbed(first, reason)
             low  == Low(first, reason)
             high == High(first, last, reason)
         IN  /\ low \in Seqs /\ high \in Seqs /\ low <= first /\ last <= high
             /\ back \subseteq Keys
             /\ \A n \in Seqs : (low <= n /\ n <= high)
                  <=> \/ first <= n /\ n <= last
                      \/ \E k \in back : k <= n /\ n <= intervals[k].last
             /\ \A k \in Keys \ back : low <= k => first <= k
             /\ \A k \in Keys \ back : low <= k /\ k <= high => k <= last
             /\ ~LeftConflict(first, reason) =>
                  \A k \in Keys \ back : k < low =>
                    /\ intervals[k].last < low
                    /\ intervals[k].reason = reason => intervals[k].last + 1 < first
             /\ back = {} => high = last
             /\ low = first \/ low \in back
<1> USE TopAssumption DEF Seqs
<1> DEFINE back == LeftAbsorbed(first, reason)
           low  == Low(first, reason)
           high == High(first, last, reason)
<1>1. CASE back = {}
  <2>1. low = first
    <3>1. {first} \cup back = {first}
      BY <1>1
    <3> QED
      BY <3>1, LowestIs DEF Low
  <2>2. high = last
    <3>1. {last} \cup Lasts(back) = {last}
      BY <1>1 DEF Lasts
    <3> QED
      BY <3>1, HighestOf DEF High
  <2> HIDE DEF back, low, high
  <2>3. ~LeftConflict(first, reason) =>
          \A k \in Keys : k < first =>
            /\ intervals[k].last < first
            /\ intervals[k].reason = reason => intervals[k].last + 1 < first
    BY <1>1, LeftNeighbour DEF back
  <2> QED
    BY <1>1, <2>1, <2>2, <2>3 DEF back, low, high
<1>2. CASE back # {}
  <2>1. PICK p \in back : TRUE
    BY <1>2
  <2>2. /\ p \in Keys /\ p < first /\ first <= intervals[p].last + 1
        /\ intervals[p].reason = reason
        /\ \A k \in Keys : k < first => k <= p
    BY LeftNeighbour
  <2>3. p \in Nat /\ p <= Top /\ intervals[p].last \in Seqs /\ p <= intervals[p].last
    BY <2>2 DEF LossInv
  <2>4. back = {p}
    <3>1. \A q \in back : q \in Keys /\ q < first /\ p <= q /\ q \in Nat
      BY <2>2, LeftNeighbour DEF LossInv
    <3>2. \A q \in back : q = p
      BY <2>2, <2>3, <3>1
    <3> QED
      BY <3>2
  <2> HIDE DEF back
  <2>5. low = p
    <3>1. Low(first, reason) = Lowest({first} \cup back)
      BY DEF Low, back
    <3>2. {first} \cup back = {first, p}
      BY <2>4
    <3>3. Lowest({first, p}) = p
      BY <2>2, <2>3, LowestIs
    <3> QED
      BY <3>1, <3>2, <3>3
  <2>6. /\ high \in {last, intervals[p].last}
        /\ last <= high /\ intervals[p].last <= high
    <3>1. High(first, last, reason) = Highest({last} \cup Lasts(back))
      BY DEF High, back
    <3>2. {last} \cup Lasts(back) = {last, intervals[p].last}
      BY <2>4 DEF Lasts
    <3>3. {last, intervals[p].last} \in SUBSET Seqs
      BY <2>3
    <3> QED
      BY <3>1, <3>2, <3>3, HighestOf
  <2>7. high \in Seqs
    BY <2>3, <2>6
  <2> HIDE DEF low, high
  <2>8. \A n \in Seqs : (low <= n /\ n <= high)
          <=> \/ first <= n /\ n <= last
              \/ \E k \in back : k <= n /\ n <= intervals[k].last
    <3> TAKE n \in Seqs
    <3>1. (\E k \in back : k <= n /\ n <= intervals[k].last) <=> (p <= n /\ n <= intervals[p].last)
      BY <2>4
    <3> QED
      BY <2>2, <2>3, <2>5, <2>6, <3>1
  <2>9. \A k \in Keys \ back : /\ k \in Nat /\ k # p
                               /\ k < p => intervals[k].last \in Nat /\ intervals[k].last < p
                               /\ p < k => intervals[p].last < k
    <3> TAKE k \in Keys \ back
    <3>1. k \in Keys /\ k # p
      BY <2>4
    <3>2. k \in Nat /\ intervals[k].last \in Nat
      BY <3>1 DEF LossInv
    <3>3. /\ k < p => intervals[k].last < p
          /\ p < k => intervals[p].last < k
      BY <2>2, <3>1 DEF LossInv
    <3> QED
      BY <3>1, <3>2, <3>3
  <2>10. \A k \in Keys \ back : low <= k => first <= k
    BY <2>2, <2>3, <2>5, <2>9
  <2>11. \A k \in Keys \ back : low <= k /\ k <= high => k <= last
    BY <2>3, <2>5, <2>6, <2>9
  <2>12. \A k \in Keys \ back : k < low =>
           intervals[k].last < low /\ intervals[k].last + 1 < first
    <3> SUFFICES ASSUME NEW k \in Keys \ back, k < low
                 PROVE  intervals[k].last < low /\ intervals[k].last + 1 < first
      OBVIOUS
    <3>1. intervals[k].last \in Nat /\ intervals[k].last < p
      BY <2>5, <2>9
    <3> QED
      BY <2>2, <2>3, <2>5, <3>1
  <2>13. low \in Seqs /\ low <= first /\ back \subseteq Keys /\ low \in back
    BY <2>2, <2>3, <2>4, <2>5
  <2> QED
    BY <1>2, <2>6, <2>7, <2>8, <2>10, <2>11, <2>12, <2>13 DEF back, low, high
<1> QED
  BY <1>1, <1>2

Seen(first, last, reason) ==
  RightRange(LeftAbsorbed(first, reason), Low(first, reason), High(first, last, reason))
Right(first, last, reason) == {k \in Seen(first, last, reason) : intervals[k].reason = reason}
End(first, last, reason) ==
  Highest({High(first, last, reason)} \cup Lasts(Right(first, last, reason)))

Conflict(first, last, reason) ==
  \/ LeftConflict(first, reason)
  \/ \E k \in Seen(first, last, reason) \ Right(first, last, reason) : k <= High(first, last, reason)

\* record panics exactly when a number of the range is lost for another reason.
LEMMA ConflictMeans ==
  ASSUME LossInv, NEW first \in Seqs, NEW last \in Seqs, NEW reason \in LossReasons,
         first <= last
  PROVE  Conflict(first, last, reason)
           <=> \E l \in Covered(Keys) : l[1] \in first..last /\ l[2] # reason
<1> USE TopAssumption DEF Seqs
<1> DEFINE back == LeftAbsorbed(first, reason)
           low  == Low(first, reason)
           high == High(first, last, reason)
<1>1. /\ low \in Seqs /\ high \in Seqs /\ low <= first /\ last <= high
      /\ \A k \in Keys \ back : low <= k => first <= k
      /\ \A k \in Keys \ back : low <= k /\ k <= high => k <= last
  BY Extended, Zenon
<1>2. \A k \in back : intervals[k].reason = reason
  BY LeftNeighbour
<1> HIDE DEF back, low, high
<1>3. Seen(first, last, reason) = {k \in Keys \ back : low <= k /\ k <= Succ(high)}
  BY DEF Seen, RightRange, back, low, high
<1>4. ASSUME NEW k \in Keys, intervals[k].reason # reason, NEW n \in first..last,
             k <= n, n <= intervals[k].last
      PROVE  Conflict(first, last, reason)
  <2>1. k \in Nat /\ k <= Top /\ intervals[k].last \in Nat
    BY DEF LossInv
  <2>2. CASE k < first
    <3>1. \A j \in Keys : j < first => j <= k
      BY <1>4, <2>1, <2>2 DEF LossInv
    <3>2. k \in left_neighbour(first)
      BY <2>2, <3>1 DEF left_neighbour
    <3>3. first <= intervals[k].last
      BY <1>4, <2>1
    <3> QED
      BY <1>4, <3>2, <3>3 DEF Conflict, LeftConflict
  <2>3. CASE first <= k
    <3>1. k \notin back
      BY <1>2, <1>4
    <3>2. low <= k /\ k <= high /\ k <= Succ(high)
      BY <1>1, <1>4, <2>1, <2>3 DEF Succ
    <3> QED
      BY <1>3, <1>4, <3>1, <3>2 DEF Conflict, Right, high
  <2> QED
    BY <2>1, <2>2, <2>3
<1>5. ASSUME LeftConflict(first, reason)
      PROVE  \E k \in Keys : /\ intervals[k].reason # reason
                             /\ \E n \in first..last : k <= n /\ n <= intervals[k].last
  <2>1. PICK k \in Keys : k < first /\ first <= intervals[k].last /\ intervals[k].reason # reason
    BY <1>5 DEF LeftConflict, left_neighbour
  <2>2. k \in Nat
    BY DEF LossInv
  <2>3. first \in first..last /\ k <= first
    BY <2>1, <2>2
  <2> QED
    BY <2>1, <2>3
<1>6. ASSUME NEW k \in Seen(first, last, reason) \ Right(first, last, reason), k <= high
      PROVE  \E j \in Keys : /\ intervals[j].reason # reason
                             /\ \E n \in first..last : j <= n /\ n <= intervals[j].last
  <2>1. k \in Keys \ back /\ low <= k /\ intervals[k].reason # reason
    BY <1>3, <1>6 DEF Right
  <2>2. k \in Nat /\ k <= intervals[k].last
    <3>1. k \in Seqs /\ k <= intervals[k].last
      BY <2>1, Zenon DEF LossInv
    <3> QED
      BY <3>1
  <2>3. k \in first..last
    BY <1>1, <1>6, <2>1, <2>2
  <2> QED
    BY <2>1, <2>2, <2>3
<1>7. Conflict(first, last, reason) =>
        \E k \in Keys : /\ intervals[k].reason # reason
                        /\ \E n \in first..last : k <= n /\ n <= intervals[k].last
  BY <1>5, <1>6, Zenon DEF Conflict, high
<1>8. (\E l \in Covered(Keys) : l[1] \in first..last /\ l[2] # reason)
        <=> \E k \in Keys : /\ intervals[k].reason # reason
                            /\ \E n \in first..last : k <= n /\ n <= intervals[k].last
  <2>1. ASSUME NEW l \in Covered(Keys), l[1] \in first..last, l[2] # reason
        PROVE  \E k \in Keys : /\ intervals[k].reason # reason
                               /\ \E n \in first..last : k <= n /\ n <= intervals[k].last
    BY <2>1 DEF Covered
  <2>2. ASSUME NEW k \in Keys, intervals[k].reason # reason, NEW n \in first..last,
               k <= n, n <= intervals[k].last
        PROVE  \E l \in Covered(Keys) : l[1] \in first..last /\ l[2] # reason
    <3>1. n \in Seqs /\ intervals[k].reason \in LossReasons
      BY DEF LossInv
    <3>2. <<n, intervals[k].reason>> \in Covered(Keys)
      BY <2>2, <3>1, CoveredBy
    <3> QED
      BY <2>2, <3>2
  <2> QED
    BY <2>1, <2>2
<1> QED
  BY <1>4, <1>7, <1>8

\* The interval record writes: it starts where the extended range starts,
\* covers the range and the intervals it replaces and nothing else, and
\* overlaps none of the others.
LEMMA Merged ==
  ASSUME LossInv, NEW first \in Seqs, NEW last \in Seqs, NEW reason \in LossReasons,
         first <= last, ~Conflict(first, last, reason)
  PROVE  LET gone == LeftAbsorbed(first, reason) \cup Right(first, last, reason)
             low  == Low(first, reason)
             end  == End(first, last, reason)
         IN  /\ low \in Seqs /\ end \in Seqs /\ low <= end
             /\ Lowest({low} \cup Right(first, last, reason)) = low
             /\ gone \subseteq Keys /\ \A k \in gone : intervals[k].reason = reason
             /\ \A n \in Seqs : (low <= n /\ n <= end)
                  <=> \/ first <= n /\ n <= last
                      \/ \E k \in gone : k <= n /\ n <= intervals[k].last
             /\ \A k \in Keys \ gone : /\ k # low
                                       /\ k < low => intervals[k].last < low
                                       /\ low < k => end < k
<1> USE TopAssumption DEF Seqs
<1> DEFINE back  == LeftAbsorbed(first, reason)
           low   == Low(first, reason)
           high  == High(first, last, reason)
           right == Right(first, last, reason)
           end   == End(first, last, reason)
<1>1. /\ low \in Seqs /\ high \in Seqs /\ low <= first /\ last <= high
      /\ back \subseteq Keys
      /\ \A n \in Seqs : (low <= n /\ n <= high)
           <=> \/ first <= n /\ n <= last
               \/ \E k \in back : k <= n /\ n <= intervals[k].last
      /\ \A k \in Keys \ back : k < low => intervals[k].last < low
      /\ low = first \/ low \in back
  BY Extended, Zenon DEF Conflict
<1>2. \A k \in back : intervals[k].reason = reason
  BY LeftNeighbour
<1>3. right = {k \in Keys \ back : /\ low <= k /\ k <= Succ(high)
                                   /\ intervals[k].reason = reason}
  BY DEF Right, Seen, RightRange
<1>4. \A k \in Keys \ back :
        low <= k /\ k <= Succ(high) /\ intervals[k].reason # reason => ~(k <= high)
  BY DEF Conflict, Right, Seen, RightRange
<1>5. end = Highest({high} \cup Lasts(right))
  BY DEF End
<1> HIDE DEF back, low, high, right, end
<1>6. \A k \in right : /\ k \in Keys /\ k \in Seqs /\ low <= k /\ k <= high + 1
                       /\ intervals[k].last \in Seqs /\ k <= intervals[k].last
  BY <1>1, <1>3 DEF LossInv, Succ
<1>7. Lowest({low} \cup right) = low
  <2>1. {low} \cup right \in SUBSET Nat
    BY <1>1, <1>6
  <2>2. \A y \in {low} \cup right : low <= y
    BY <1>1, <1>6
  <2> QED
    BY <2>1, <2>2, LowestIs
<1>8. /\ end \in Seqs /\ high <= end
      /\ \A k \in right : intervals[k].last <= end
      /\ end = high \/ \E k \in right : end = intervals[k].last
  <2>1. {high} \cup Lasts(right) \in SUBSET Seqs
    BY <1>1, <1>6 DEF Lasts
  <2>2. /\ end \in {high} \cup Lasts(right)
        /\ \A y \in {high} \cup Lasts(right) : y <= end
    BY <1>5, <2>1, HighestOf
  <2> QED
    BY <2>1, <2>2 DEF Lasts
<1>9. \A n \in Seqs : (low <= n /\ n <= end)
        <=> \/ low <= n /\ n <= high
            \/ \E k \in right : k <= n /\ n <= intervals[k].last
  <2> TAKE n \in Seqs
  <2>1. ASSUME low <= n, n <= end, ~(n <= high)
        PROVE  \E k \in right : k <= n /\ n <= intervals[k].last
    <3>1. PICK k \in right : end = intervals[k].last
      BY <1>1, <1>8, <2>1
    <3>2. k <= n
      BY <1>1, <1>6, <2>1
    <3> QED
      BY <2>1, <3>1, <3>2
  <2>2. ASSUME NEW k \in right, k <= n, n <= intervals[k].last
        PROVE  low <= n /\ n <= end
    <3>1. intervals[k].last <= end /\ low <= k /\ k \in Seqs /\ intervals[k].last \in Seqs
      BY <1>6, <1>8
    <3> QED
      BY <1>1, <1>8, <2>2, <3>1
  <2>3. low <= n /\ n <= high => low <= n /\ n <= end
    BY <1>1, <1>8
  <2> QED
    BY <2>1, <2>2, <2>3
<1>10. ASSUME NEW k \in Keys \ (back \cup right)
       PROVE  k # low /\ (k < low => intervals[k].last < low) /\ (low < k => end < k)
  <2>1. k \in Keys \ back /\ k \in Seqs
    BY DEF LossInv
  <2>2. k < low => intervals[k].last < low
    BY <1>1, <2>1
  <2>3. ASSUME low <= k
        PROVE  high < k
    <3>1. CASE k <= Succ(high)
      <4>1. intervals[k].reason # reason
        BY <1>3, <2>1, <2>3, <3>1
      <4> QED
        BY <1>1, <1>4, <2>1, <2>3, <3>1, <4>1
    <3>2. CASE ~(k <= Succ(high))
      BY <1>1, <2>1, <3>2 DEF Succ
    <3> QED
      BY <3>1, <3>2
  <2>4. low <= high
    BY <1>1
  <2>5. k # low
    BY <1>1, <2>1, <2>3, <2>4
  <2>6. ASSUME low < k
        PROVE  end < k
    <3>1. high < k
      BY <1>1, <2>1, <2>3, <2>6
    <3>2. \A j \in right : intervals[j].last < k
      <4> TAKE j \in right
      <4>1. j \in Keys /\ j \in Nat /\ j <= high + 1 /\ j # k
        BY <1>6
      <4>2. j < k
        BY <1>1, <2>1, <3>1, <4>1
      <4> QED
        BY <2>1, <4>1, <4>2 DEF LossInv
    <3> QED
      BY <1>8, <3>1, <3>2
  <2> QED
    BY <2>2, <2>5, <2>6
<1>11. low <= end
  BY <1>1, <1>8
<1>12. /\ back \cup right \subseteq Keys
       /\ \A k \in back \cup right : intervals[k].reason = reason
  BY <1>1, <1>2, <1>3
<1>13. \A n \in Seqs : (low <= n /\ n <= end)
         <=> \/ first <= n /\ n <= last
             \/ \E k \in back \cup right : k <= n /\ n <= intervals[k].last
  BY <1>1, <1>9, Zenon
<1> QED
  BY <1>1, <1>7, <1>8, <1>10, <1>11, <1>12, <1>13 DEF back, right, low, end

\* record replaces an interval exactly when a number in or next to the range
\* is lost for the same reason.
LEMMA MergedWhen ==
  ASSUME LossInv, NEW first \in Seqs, NEW last \in Seqs, NEW reason \in LossReasons,
         first <= last, ~Conflict(first, last, reason)
  PROVE  LeftAbsorbed(first, reason) \cup Right(first, last, reason) # {}
           <=> \E l \in Covered(Keys) : /\ l[2] = reason
                                       /\ first <= l[1] + 1 /\ l[1] <= last + 1
<1> USE TopAssumption DEF Seqs
<1> DEFINE back  == LeftAbsorbed(first, reason)
           low   == Low(first, reason)
           high  == High(first, last, reason)
           right == Right(first, last, reason)
           Near(n) == first <= n + 1 /\ n <= last + 1
           Hit   == \E k \in Keys, n \in Seqs : /\ k <= n /\ n <= intervals[k].last
                                               /\ intervals[k].reason = reason /\ Near(n)
<1>1. (\E l \in Covered(Keys) : l[2] = reason /\ Near(l[1])) <=> Hit
  <2>1. ASSUME NEW l \in Covered(Keys), l[2] = reason, Near(l[1])
        PROVE  Hit
    BY <2>1 DEF Covered
  <2>2. ASSUME NEW k \in Keys, NEW n \in Seqs, k <= n, n <= intervals[k].last,
               intervals[k].reason = reason, Near(n)
        PROVE  \E l \in Covered(Keys) : l[2] = reason /\ Near(l[1])
    <3>1. <<n, reason>> \in Covered(Keys)
      BY <2>2, CoveredBy
    <3> QED
      BY <2>2, <3>1
  <2> QED
    BY <2>1, <2>2
<1>2. /\ low \in Seqs /\ high \in Seqs /\ low <= first /\ last <= high
      /\ \A k \in Keys \ back : k < low /\ intervals[k].reason = reason =>
                                 intervals[k].last + 1 < first
      /\ back = {} => high = last
      /\ low = first \/ low \in back
  BY Extended, Zenon DEF Conflict
<1>3. right = {k \in Keys \ back : /\ low <= k /\ k <= Succ(high)
                                   /\ intervals[k].reason = reason}
  BY DEF Right, Seen, RightRange
<1>4. ASSUME NEW k \in back
      PROVE  Hit
  <2>1. /\ k \in Keys /\ k < first /\ first <= intervals[k].last + 1
        /\ intervals[k].reason = reason
    BY LeftNeighbour
  <2>2. k \in Seqs /\ intervals[k].last \in Seqs /\ k <= intervals[k].last
    BY <2>1, Zenon DEF LossInv
  <2> HIDE DEF back, low, high, right
  <2>3. CASE intervals[k].last <= last
    <3>1. Near(intervals[k].last)
      BY <2>1, <2>2, <2>3
    <3> QED
      BY <2>1, <2>2, <3>1
  <2>4. CASE ~(intervals[k].last <= last)
    <3>1. Near(last) /\ k <= last /\ last <= intervals[k].last
      BY <2>1, <2>2, <2>4
    <3> QED
      BY <2>1, <3>1
  <2> QED
    BY <2>3, <2>4
<1> HIDE DEF back, low, high, right
<1>5. ASSUME back = {}, NEW k \in right
      PROVE  Hit
  <2>1. /\ k \in Keys /\ first <= k /\ k <= Succ(last)
        /\ intervals[k].reason = reason
    BY <1>2, <1>3, <1>5
  <2>2. k \in Seqs /\ intervals[k].last \in Seqs /\ k <= intervals[k].last
    BY <2>1, Zenon DEF LossInv
  <2>3. Near(k) /\ k <= k
    BY <2>1, <2>2 DEF Succ
  <2> QED
    BY <2>1, <2>2, <2>3
<1>6. ASSUME NEW k \in Keys, NEW n \in Seqs, k <= n, n <= intervals[k].last,
             intervals[k].reason = reason, Near(n), k \notin back
      PROVE  k \in right
  <2>1. k \in Seqs /\ intervals[k].last \in Seqs
    BY DEF LossInv
  <2>2. ~(k < low)
    BY <1>2, <1>6, <2>1
  <2>3. k <= Succ(high)
    BY <1>2, <1>6, <2>1 DEF Succ
  <2> QED
    BY <1>2, <1>3, <1>6, <2>1, <2>2, <2>3
<1>7. back \cup right # {} <=> Hit
  BY <1>4, <1>5, <1>6
<1> QED
  BY <1>1, <1>7 DEF back, right

\* The map record leaves: well formed, and it covers what it covered and the
\* range.
LEMMA RecordedMap ==
  ASSUME LossInv, NEW first \in Seqs, NEW last \in Seqs, NEW reason \in LossReasons,
         first <= last, ~Conflict(first, last, reason),
         intervals' = Replaced(LeftAbsorbed(first, reason) \cup Right(first, last, reason),
                               Low(first, reason), End(first, last, reason), reason)
  PROVE  /\ LossInv'
         /\ Covered(Keys)' = Covered(Keys) \cup ((first..last) \X {reason})
<1> DEFINE gone == LeftAbsorbed(first, reason) \cup Right(first, last, reason)
           low  == Low(first, reason)
           end  == End(first, last, reason)
<1>1. low \in Seqs /\ end \in Seqs /\ low <= end
  BY Merged, Zenon
<1>2. gone \subseteq Keys /\ \A k \in gone : intervals[k].reason = reason
  BY Merged, Zenon
<1>3. \A n \in Seqs : (low <= n /\ n <= end)
        <=> \/ first <= n /\ n <= last
            \/ \E k \in gone : k <= n /\ n <= intervals[k].last
  BY Merged, Zenon
<1>4. \A k \in Keys \ gone : /\ k # low
                             /\ k < low => intervals[k].last < low
                             /\ low < k => end < k
  BY Merged, Zenon
<1>5. intervals' = Replaced(gone, low, end, reason)
  OBVIOUS
<1> HIDE DEF gone, low, end
<1>6. /\ Keys' = (Keys \ gone) \cup {low}
      /\ intervals'[low].last = end /\ intervals'[low].reason = reason
      /\ \A k \in Keys \ gone : intervals'[k] = intervals[k] /\ k # low
  BY <1>4, <1>5 DEF Replaced, Keys
<1>7. LossInv'
  <2>1. Keys' \subseteq Seqs
    BY <1>1, <1>6 DEF LossInv
  <2>2. \A k \in Keys' : /\ intervals'[k].last \in Seqs /\ k <= intervals'[k].last
                         /\ intervals'[k].reason \in LossReasons
    BY <1>1, <1>6 DEF LossInv
  <2>3. ASSUME NEW j \in Keys', NEW k \in Keys', j < k
        PROVE  intervals'[j].last < k
    <3>1. CASE j = low
      <4>1. k \in Keys \ gone
        BY <1>1, <1>6, <2>3, <3>1, TopAssumption DEF Seqs
      <4> QED
        BY <1>1, <1>4, <1>6, <2>3, <3>1, <4>1
    <3>2. CASE j # low /\ k = low
      BY <1>4, <1>6, <2>3, <3>2
    <3>3. CASE j # low /\ k # low
      BY <1>6, <2>3, <3>3, Zenon DEF LossInv
    <3> QED
      BY <3>1, <3>2, <3>3
  <2> QED
    BY <2>1, <2>2, <2>3, Zenon DEF LossInv
<1>8. Covered(Keys)' = Covered(Keys) \cup ((first..last) \X {reason})
  <2> DEFINE In(n, q) == \E k \in Keys : k <= n /\ n <= intervals[k].last /\ q = intervals[k].reason
             InNew(n, q) == \E k \in Keys' :
                              k <= n /\ n <= intervals'[k].last /\ q = intervals'[k].reason
  <2>1. ASSUME NEW n \in Seqs, NEW q
        PROVE  InNew(n, q) <=> In(n, q) \/ (first <= n /\ n <= last /\ q = reason)
    <3>1. InNew(n, q) <=> \/ \E k \in Keys \ gone :
                               k <= n /\ n <= intervals[k].last /\ q = intervals[k].reason
                          \/ low <= n /\ n <= end /\ q = reason
      BY <1>6, Zenon
    <3>2. (low <= n /\ n <= end /\ q = reason)
            <=> \/ first <= n /\ n <= last /\ q = reason
                \/ \E k \in gone : k <= n /\ n <= intervals[k].last /\ q = intervals[k].reason
      BY <1>2, <1>3
    <3>3. In(n, q) <=> \/ \E k \in Keys \ gone :
                            k <= n /\ n <= intervals[k].last /\ q = intervals[k].reason
                       \/ \E k \in gone :
                            k <= n /\ n <= intervals[k].last /\ q = intervals[k].reason
      BY <1>2
    <3> HIDE DEF In, InNew
    <3> QED
      BY <3>1, <3>2, <3>3
  <2>2. Covered(Keys) = {l \in Seqs \X LossReasons : In(l[1], l[2])}
    BY DEF Covered
  <2>3. Covered(Keys)' = {l \in Seqs \X LossReasons : InNew(l[1], l[2])}
    BY DEF Covered, Keys
  <2>4. (first..last) \X {reason}
          = {l \in Seqs \X LossReasons : first <= l[1] /\ l[1] <= last /\ l[2] = reason}
    BY TopAssumption DEF Seqs
  <2> HIDE DEF In, InNew
  <2> QED
    BY <2>1, <2>2, <2>3, <2>4
<1> QED
  BY <1>7, <1>8

\* A call of record keeps the map well formed, and is the call of LossSet.
LEMMA RecordRefines ==
  ASSUME LossInv, NEW first \in Seqs, NEW last \in Seqs, NEW reason \in LossReasons,
         record(first, last, reason)
  PROVE  LossInv' /\ Set!Record(first, last, reason)
<1> DEFINE gone == LeftAbsorbed(first, reason) \cup Right(first, last, reason)
<1>1. /\ ~panicked
      /\ IF last < first \/ Conflict(first, last, reason)
           THEN panicked' = TRUE /\ UNCHANGED <<intervals, outcome>>
           ELSE /\ intervals' = Replaced(gone,
                     Lowest({Low(first, reason)} \cup Right(first, last, reason)),
                     End(first, last, reason), reason)
                /\ outcome' = IF gone = {} THEN "inserted" ELSE "merged"
                /\ UNCHANGED panicked
  BY Zenon DEF record, Conflict, Seen, Right, Low, High, End
<1> HIDE DEF gone
<1>2. CASE last < first \/ Conflict(first, last, reason)
  <2>1. panicked' = TRUE /\ UNCHANGED <<intervals, outcome>>
    BY <1>1, <1>2
  <2>2. LossInv' /\ Covered(Keys)' = Covered(Keys)
    BY <2>1 DEF LossInv, Covered, Keys
  <2>3. last < first \/ \E l \in Covered(Keys) : l[1] \in first..last /\ l[2] # reason
    <3>1. first \in Nat /\ last \in Nat
      BY TopAssumption DEF Seqs
    <3> QED
      BY <1>2, <3>1, ConflictMeans
  <2> QED
    BY <1>1, <2>1, <2>2, <2>3, Zenon DEF Set!Record
<1>3. CASE ~(last < first) /\ ~Conflict(first, last, reason)
  <2>1. first <= last
    BY <1>3, TopAssumption DEF Seqs
  <2>2. Lowest({Low(first, reason)} \cup Right(first, last, reason)) = Low(first, reason)
    BY <1>3, <2>1, Merged
  <2>3. LossInv' /\ Covered(Keys)' = Covered(Keys) \cup ((first..last) \X {reason})
    BY <1>1, <1>3, <2>1, <2>2, RecordedMap DEF gone
  <2>4. gone # {} <=> \E l \in Covered(Keys) : /\ l[2] = reason
                                             /\ first <= l[1] + 1 /\ l[1] <= last + 1
    BY <1>3, <2>1, MergedWhen DEF gone
  <2>5. ~\E l \in Covered(Keys) : l[1] \in first..last /\ l[2] # reason
    BY <1>3, <2>1, ConflictMeans
  <2>6. outcome' = (IF gone = {} THEN "inserted" ELSE "merged") /\ UNCHANGED panicked
    BY <1>1, <1>3
  <2> QED
    BY <1>1, <1>3, <2>3, <2>4, <2>5, <2>6 DEF Set!Record
<1> QED
  BY <1>2, <1>3

-----------------------------------------------------------------------------
(* acknowledge_up_to, drain and snapshot_before *)

\* The loop of acknowledge_up_to removes every interval that starts at or
\* before seq.  At most one of them goes on after seq, and then no other
\* interval starts right after seq.
LEMMA PoppedAre ==
  ASSUME LossInv, NEW seq \in Seqs
  PROVE  /\ Popped(seq) = {k \in Keys : k <= seq}
         /\ \A j, k \in Straddling(seq) : j = k
         /\ Straddling(seq) # {} => seq + 1 \in Seqs /\ seq + 1 \notin Keys
<1> USE TopAssumption DEF Seqs
<1>1. \A k \in Keys : k \in Seqs /\ intervals[k].last \in Seqs /\ k <= intervals[k].last
  BY Zenon DEF LossInv
<1>2. \A j, k \in Keys : j < k => intervals[j].last < k
  BY DEF LossInv
<1>3. Popped(seq) = {k \in Keys : k <= seq}
  BY <1>1, <1>2 DEF Popped
<1>4. Straddling(seq) = {k \in Keys : k <= seq /\ seq < intervals[k].last}
  BY <1>3 DEF Straddling
<1>5. \A j, k \in Straddling(seq) : j = k
  BY <1>1, <1>2, <1>4
<1>6. ASSUME NEW j \in Straddling(seq)
      PROVE  seq + 1 \in Seqs /\ seq + 1 \notin Keys
  <2>1. j \in Keys /\ j \in Nat /\ j <= seq /\ seq < intervals[j].last /\ intervals[j].last \in Seqs
    BY <1>1, <1>4
  <2>2. seq + 1 \in Seqs /\ j < seq + 1 /\ ~(intervals[j].last < seq + 1)
    BY <2>1
  <2> QED
    BY <1>2, <2>1, <2>2
<1> QED
  BY <1>3, <1>5, <1>6

\* A call of acknowledge_up_to keeps the map well formed, and is the call of
\* LossSet.
LEMMA AcknowledgeRefines ==
  ASSUME LossInv, NEW seq \in Seqs, acknowledge_up_to(seq)
  PROVE  LossInv' /\ Set!AcknowledgeUpTo(seq)
<1>1. Popped(seq) = {k \in Keys : k <= seq}
  BY PoppedAre
<1>2. \A k \in Keys : k \in Seqs /\ intervals[k].last \in Seqs /\ k <= intervals[k].last
                    /\ intervals[k].reason \in LossReasons
  BY DEF LossInv
<1>3. \A j, k \in Keys : j < k => intervals[j].last < k
  BY DEF LossInv
<1>4. Straddling(seq) = {k \in Keys : k <= seq /\ seq < intervals[k].last}
  BY <1>1 DEF Straddling
<1> DEFINE kept == {k \in Keys : seq < k}
           In(n, q) == \E k \in Keys : k <= n /\ n <= intervals[k].last /\ q = intervals[k].reason
           InNew(n, q) == \E k \in Keys' :
                            k <= n /\ n <= intervals'[k].last /\ q = intervals'[k].reason
<1>5. Keys \ Popped(seq) = kept
  BY <1>1, <1>2, TopAssumption DEF Seqs
<1>6. ASSUME Straddling(seq) = {}
      PROVE  /\ LossInv'
             /\ \A n \in Seqs, q \in LossReasons : InNew(n, q) <=> In(n, q) /\ seq < n
  <2>1. Keys' = kept /\ \A k \in kept : intervals'[k] = intervals[k]
    BY <1>5, <1>6 DEF acknowledge_up_to, Keys
  <2>2. LossInv'
    BY <1>2, <1>3, <2>1 DEF LossInv
  <2>3. ASSUME NEW n \in Seqs, NEW q \in LossReasons
        PROVE  InNew(n, q) <=> In(n, q) /\ seq < n
    <3>1. \A k \in Keys : k <= n /\ n <= intervals[k].last =>
            (k \in kept <=> seq < n)
      BY <1>2, <1>4, <1>6, TopAssumption DEF Seqs
    <3> QED
      BY <2>1, <3>1
  <2> HIDE DEF In, InNew
  <2> QED
    BY <2>2, <2>3
<1>7. ASSUME Straddling(seq) # {}
      PROVE  /\ LossInv'
             /\ \A n \in Seqs, q \in LossReasons : InNew(n, q) <=> In(n, q) /\ seq < n
  <2>1. PICK p : Straddling(seq) = {p}
    BY <1>7, PoppedAre
  <2>2. seq + 1 \in Seqs /\ seq + 1 \notin Keys
    BY <1>7, PoppedAre
  <2>3. /\ Keys' = kept \cup {seq + 1}
        /\ intervals'[seq + 1] = intervals[p]
        /\ \A k \in kept : intervals'[k] = intervals[k]
    <3>1. {seq + 1 : j \in Straddling(seq)} = {seq + 1}
      BY <2>1
    <3>2. (CHOOSE j \in Straddling(seq) : TRUE) = p
      BY <2>1
    <3>3. intervals' = [k \in kept \cup {seq + 1} |->
                          IF k = seq + 1 THEN intervals[p] ELSE intervals[k]]
      BY <1>5, <1>7, <3>1, <3>2 DEF acknowledge_up_to
    <3> QED
      BY <2>2, <3>3 DEF Keys
  <2>4. p \in Keys /\ p \in Seqs /\ p <= seq /\ seq < intervals[p].last
    BY <1>2, <1>4, <2>1
  <2>5. LossInv'
    <3>1. Keys' \subseteq Seqs
      BY <1>2, <2>2, <2>3
    <3>2. \A k \in Keys' : /\ intervals'[k].last \in Seqs /\ k <= intervals'[k].last
                           /\ intervals'[k].reason \in LossReasons
      BY <1>2, <2>3, <2>4, TopAssumption DEF Seqs
    <3>3. ASSUME NEW j \in Keys', NEW k \in Keys', j < k
          PROVE  intervals'[j].last < k
      <4>1. CASE j \in kept
        <5>1. k \in kept
          BY <1>2, <2>3, <3>3, <4>1, TopAssumption DEF Seqs
        <5> QED
          BY <1>3, <2>3, <3>3, <4>1, <5>1
      <4>2. CASE j = seq + 1
        <5>1. k \in kept /\ p < k
          BY <1>2, <2>3, <2>4, <3>3, <4>2, TopAssumption DEF Seqs
        <5> QED
          BY <1>3, <2>3, <2>4, <4>2, <5>1
      <4> QED
        BY <2>3, <4>1, <4>2
    <3> QED
      BY <3>1, <3>2, <3>3 DEF LossInv
  <2>6. ASSUME NEW n \in Seqs, NEW q \in LossReasons
        PROVE  InNew(n, q) <=> In(n, q) /\ seq < n
    <3>1. \A k \in Keys : k <= n /\ n <= intervals[k].last =>
            (k \in kept \/ k = p <=> seq < n \/ k = p)
      BY <1>2, <1>4, <2>1, TopAssumption DEF Seqs
    <3>2. seq + 1 <= n <=> seq < n
      BY TopAssumption DEF Seqs
    <3>3. seq < n => p <= n
      BY <2>4, TopAssumption DEF Seqs
    <3>4. \A k \in kept : k <= n => seq < n
      BY <1>2, TopAssumption DEF Seqs
    <3>5. InNew(n, q) <=> \/ \E k \in kept :
                               k <= n /\ n <= intervals[k].last /\ q = intervals[k].reason
                          \/ seq < n /\ n <= intervals[p].last /\ q = intervals[p].reason
      BY <2>3, <3>2
    <3> QED
      BY <2>4, <3>1, <3>3, <3>4, <3>5
  <2> HIDE DEF In, InNew
  <2> QED
    BY <2>5, <2>6
<1>8. Covered(Keys) = {l \in Seqs \X LossReasons : In(l[1], l[2])}
  BY DEF Covered
<1>9. Covered(Keys)' = {l \in Seqs \X LossReasons : InNew(l[1], l[2])}
  BY DEF Covered, Keys
<1> HIDE DEF In, InNew
<1>10. Covered(Keys)' = {l \in Covered(Keys) : seq < l[1]}
  BY <1>6, <1>7, <1>8, <1>9
<1> QED
  BY <1>6, <1>7, <1>10 DEF acknowledge_up_to, Set!AcknowledgeUpTo

\* So does a call of drain.
LEMMA DrainRefines ==
  ASSUME LossInv, drain
  PROVE  LossInv' /\ Set!Drain
<1>1. Keys' = {}
  BY DEF drain, Keys
<1>2. LossInv'
  BY <1>1 DEF LossInv
<1>3. Covered(Keys)' = {}
  BY <1>1 DEF Covered
<1> QED
  BY <1>2, <1>3 DEF drain, Set!Drain

\* In a well-formed map, an interval that starts before a number that is not
\* lost ends before it.
LEMMA SnapshotComplete ==
  ASSUME LossInv
  PROVE  SameSnapshot
<1> SUFFICES ASSUME NEW before \in Seqs,
                    \A r \in LossReasons : <<before, r>> \notin Covered(Keys)
             PROVE  Covered(snapshot_before(before)) = Set!Before(before)
  BY DEF SameSnapshot
<1> DEFINE listed == snapshot_before(before)
<1>1. ASSUME NEW k \in Keys, k < before
      PROVE  intervals[k].last < before
  <2>1. k \in Seqs /\ intervals[k].last \in Seqs /\ intervals[k].reason \in LossReasons
    BY DEF LossInv
  <2>2. ~(k <= before /\ before <= intervals[k].last)
    BY <2>1, CoveredBy, Zenon
  <2> QED
    BY <1>1, <2>1, <2>2, TopAssumption DEF Seqs
<1>2. listed = {k \in Keys : k < before}
  BY <1>1 DEF snapshot_before
<1>3. \A k \in Keys, n \in Seqs :
        k <= n /\ n <= intervals[k].last => (k \in listed <=> n < before)
  <2> TAKE k \in Keys, n \in Seqs
  <2>1. k \in Seqs /\ intervals[k].last \in Seqs
    BY DEF LossInv
  <2>2. k < before => intervals[k].last < before
    BY <1>1
  <2>3. k \in listed <=> k < before
    BY <1>2
  <2> HIDE DEF listed
  <2> QED
    BY <2>1, <2>2, <2>3, TopAssumption DEF Seqs
<1>4. listed \subseteq Keys
  BY <1>2
<1> HIDE DEF listed
<1>5. Covered(listed) = {l \in Covered(Keys) : l[1] < before}
  BY <1>3, <1>4 DEF Covered
<1> QED
  BY <1>5 DEF listed, Set!Before

-----------------------------------------------------------------------------
(* The theorems *)

\* No two intervals of the map ever overlap, whatever is recorded,
\* acknowledged and drained.
THEOREM LossInductive == LossSpec => []LossInv
<1>1. LossInit => LossInv
  BY DEF LossInit, LossInv, Keys
<1>2. LossInv /\ [LossNext]_lossVars => LossInv'
  <2> SUFFICES ASSUME LossInv, [LossNext]_lossVars
               PROVE  LossInv'
    OBVIOUS
  <2>1. CASE LossNext
    BY <2>1, RecordRefines, AcknowledgeRefines, DrainRefines DEF LossNext
  <2>2. CASE UNCHANGED lossVars
    BY <2>2 DEF lossVars, LossInv, Keys
  <2> QED
    BY <2>1, <2>2
<1> QED
  BY <1>1, <1>2, PTL DEF LossSpec

\* The map of intervals implements the set of lost numbers: every call of
\* record, acknowledge_up_to and drain does to the set what the call of
\* LossSet does, with the same answer and the same panics, and a snapshot
\* taken before a number that is not lost lists all that was lost before it.
THEOREM LossRefinement == LossSpec => ImplementsLossSet
<1>1. LossInit => Set!Init
  BY DEF LossInit, Set!Init, Covered, Keys
<1>2. LossInv => SameCall
  <2> SUFFICES ASSUME LossInv
               PROVE  SameCall
    OBVIOUS
  <2> QED
    BY RecordRefines, AcknowledgeRefines, DrainRefines, Zenon DEF SameCall
<1>3. LossInv => SameSnapshot
  BY SnapshotComplete
<1> QED
  BY <1>1, <1>2, <1>3, LossInductive, PTL DEF LossSpec, ImplementsLossSet

-----------------------------------------------------------------------------
(* The scheduler, for every plan and every window.  The counters are the   *)
(* crux: while no failure is recorded, remaining[n] is the number of       *)
(* positions of n's dependency vector that name a node that is not         *)
(* complete, and the nodes at zero are exactly the ones that are ready,    *)
(* running or complete.  That a validated plan has no cycle is carried by  *)
(* sets of nodes that wait for each other: no node of such a set is ever   *)
(* popped by validate.                                                     *)

\* Every node of U waits for a node of U.
Waits(d, U) == \A n \in U : \E k \in DOMAIN d[n] : d[n][k] \in U

\* The counters agree with the set of complete nodes, and zero is the set of
\* nodes whose dependencies are complete.
Counts(done, zero) ==
  /\ \A n \in Nodes : remaining[n] = Cardinality(Pending(deps, n, done))
  /\ zero = {n \in Nodes : remaining[n] = 0}

Validating ==
  /\ running = {} /\ outcomes = {} /\ ~aborted /\ result = "none" /\ ~BadDep(deps)
  /\ ready \cap visited = {}
  /\ Counts(visited, ready \cup visited)
  /\ \A U \in SUBSET Nodes : Waits(deps, U) => U \cap visited = {}

Executing ==
  /\ result = "none" /\ ~BadDep(deps)
  /\ \A U \in SUBSET Nodes : Waits(deps, U) => U = {}
  /\ running \cap outcomes = {} /\ ready \cap (running \cup outcomes) = {}
  /\ ~aborted => Counts(outcomes, ready \cup running \cup outcomes)

\* The inductive invariant.
PlanInv ==
  /\ PlanTypeOK
  /\ stage = "validate" => Validating
  /\ stage = "run" => Executing
  /\ DependenciesFirst
  /\ NeverPanics

-----------------------------------------------------------------------------
(* Counting positions.                                                     *)

\* The positions of a dependency vector are finitely many, so both counts of
\* them are numbers, and no count is zero unless there is nothing to count.
LEMMA PositionsFinite ==
  ASSUME NEW d \in Plans, NEW n \in Nodes, NEW done, NEW i
  PROVE  /\ IsFiniteSet(Pending(d, n, done))
         /\ Cardinality(Pending(d, n, done)) \in Nat
         /\ Cardinality(Pending(d, n, done)) = 0 <=> Pending(d, n, done) = {}
         /\ IsFiniteSet({k \in DOMAIN d[n] : d[n][k] = i})
         /\ Times(d, n, i) \in Nat
         /\ Times(d, n, i) = 0 <=> {k \in DOMAIN d[n] : d[n][k] = i} = {}
<1>1. d[n] \in Seq(Nat)
  BY PlansTyped
<1>2. DOMAIN d[n] = 1..Len(d[n]) /\ Len(d[n]) \in Nat
  BY <1>1
<1>3. IsFiniteSet(DOMAIN d[n])
  BY <1>2, FS_Interval
<1>4. IsFiniteSet(Pending(d, n, done))
  BY <1>3, FS_Subset DEF Pending
<1>5. IsFiniteSet({k \in DOMAIN d[n] : d[n][k] = i})
  BY <1>3, FS_Subset
<1> QED
  BY <1>4, <1>5, FS_CardinalityType, FS_EmptySet DEF Times

\* Completing i takes as many positions off n's list as n names i.
LEMMA CountDown ==
  ASSUME NEW d \in Plans, NEW n \in Nodes, NEW done, NEW i, i \notin done
  PROVE  /\ Times(d, n, i) <= Cardinality(Pending(d, n, done))
         /\ Cardinality(Pending(d, n, done \cup {i}))
              = Cardinality(Pending(d, n, done)) - Times(d, n, i)
<1> DEFINE A == Pending(d, n, done)
           B == {k \in DOMAIN d[n] : d[n][k] = i}
<1>1. IsFiniteSet(A) /\ IsFiniteSet(B)
  BY PositionsFinite, Zenon
<1>2. B \subseteq A /\ Pending(d, n, done \cup {i}) = A \ B /\ A \cap B = B
  BY DEF Pending
<1>3. Cardinality(A \ B) = Cardinality(A) - Cardinality(A \cap B)
  BY <1>1, FS_Difference, Zenon
<1>4. Cardinality(B) <= Cardinality(A)
  BY <1>1, <1>2, FS_Subset
<1> QED
  BY <1>2, <1>3, <1>4 DEF Times

\* Before anything is complete, the count is the length of the vector.
LEMMA CountAll ==
  ASSUME NEW d \in Plans, NEW n \in Nodes
  PROVE  Len(d[n]) \in Nat /\ Len(d[n]) = Cardinality(Pending(d, n, {}))
<1>1. d[n] \in Seq(Nat)
  BY PlansTyped
<1>2. DOMAIN d[n] = 1..Len(d[n]) /\ Len(d[n]) \in Nat
  BY <1>1
<1>3. Pending(d, n, {}) = 1..Len(d[n])
  BY <1>2 DEF Pending
<1>4. \A m \in Nat : Cardinality(1..m) = m
  <2>1. TAKE m \in Nat
  <2>2. Cardinality(1..m) = IF 1 > m THEN 0 ELSE m - 1 + 1
    BY FS_Interval
  <2> QED
    BY <2>2
<1> QED
  BY <1>2, <1>3, <1>4

\* A node with no count left has only complete dependencies.
LEMMA ZeroMeansDone ==
  ASSUME NEW d \in Plans, NEW n \in Nodes, NEW done, Cardinality(Pending(d, n, done)) = 0
  PROVE  \A k \in DOMAIN d[n] : d[n][k] \in done
  BY PositionsFinite, Zenon DEF Pending

-----------------------------------------------------------------------------
(* The loop over the dependents of a completed node.                       *)

\* If the counters agree with the complete nodes and i is not one of them, then
\* they agree again after the loop, and ready gains exactly the nodes that
\* arrive at zero.
LEMMA ReleaseCounts ==
  ASSUME PlanTypeOK, NEW done, NEW zero, Counts(done, zero), ready \subseteq zero,
         NEW i \in zero, i \notin done, ReleaseDependents(i)
  PROVE  /\ remaining' \in [Nodes -> Nat]
         /\ \A n \in Nodes : remaining'[n] = Cardinality(Pending(deps, n, done \cup {i}))
         /\ zero \cup ready' = {n \in Nodes : remaining'[n] = 0}
         /\ ready' \cap zero = ready \ {i}
         /\ ready' \subseteq Nodes
<1>0. zero = {n \in Nodes : remaining[n] = 0} /\ remaining \in [Nodes -> Nat]
  BY DEF Counts, PlanTypeOK
<1>1. \A n \in Nodes : /\ Times(deps, n, i) \in Nat /\ Times(deps, n, i) <= remaining[n]
                       /\ remaining[n] - Times(deps, n, i) = Cardinality(Pending(deps, n, done \cup {i}))
  <2>1. TAKE n \in Nodes
  <2>2. deps \in Plans
    BY DEF PlanTypeOK
  <2>3. Times(deps, n, i) \in Nat
    BY <2>2, PositionsFinite, Zenon
  <2>4. /\ Times(deps, n, i) <= Cardinality(Pending(deps, n, done))
        /\ Cardinality(Pending(deps, n, done \cup {i}))
             = Cardinality(Pending(deps, n, done)) - Times(deps, n, i)
    BY <2>2, CountDown, Zenon
  <2>5. remaining[n] = Cardinality(Pending(deps, n, done))
    BY DEF Counts
  <2> QED
    BY <2>3, <2>4, <2>5
<1>2. ready' = (ready \ {i})
        \cup {n \in Nodes : Times(deps, n, i) > 0 /\ remaining[n] = Times(deps, n, i)}
  BY DEF ReleaseDependents
<1>3. \A n \in Nodes : remaining'[n] = remaining[n] - Times(deps, n, i)
  BY DEF ReleaseDependents
<1>4. remaining' \in [Nodes -> Nat]
  BY <1>0, <1>1 DEF ReleaseDependents
<1> HIDE DEF Times, Pending
<1>5. zero \cup ready' = {n \in Nodes : remaining'[n] = 0}
  <2>1. \A n \in Nodes : remaining'[n] = 0 <=> n \in zero \/ n \in ready'
    <3>1. TAKE n \in Nodes
    <3>2. /\ remaining[n] \in Nat /\ Times(deps, n, i) \in Nat
          /\ Times(deps, n, i) <= remaining[n]
          /\ remaining'[n] = remaining[n] - Times(deps, n, i)
      BY <1>0, <1>1, <1>3
    <3>3. n \in zero <=> remaining[n] = 0
      BY <1>0
    <3>4. n \in ready' <=> \/ n \in ready /\ n # i
                           \/ Times(deps, n, i) > 0 /\ remaining[n] = Times(deps, n, i)
      BY <1>2
    <3>5. n \in ready => n \in zero
      OBVIOUS
    <3> QED
      BY <3>2, <3>3, <3>4, <3>5
  <2> QED
    BY <2>1, <1>0, <1>2
<1>6. ready' \cap zero = ready \ {i}
  BY <1>0, <1>1, <1>2
<1>7. ready' \subseteq Nodes
  BY <1>0, <1>2
<1> QED
  BY <1>1, <1>3, <1>4, <1>5, <1>6, <1>7, Zenon

\* At the start nothing is complete, and the roots are the nodes at zero.
LEMMA RootsCounted ==
  ASSUME NEW d \in Plans
  PROVE  /\ DepCount(d) \in [Nodes -> Nat]
         /\ \A n \in Nodes : DepCount(d)[n] = Cardinality(Pending(d, n, {}))
         /\ Roots(d) = {n \in Nodes : DepCount(d)[n] = 0}
  BY CountAll DEF DepCount, Roots

-----------------------------------------------------------------------------
(* The invariant, action by action.                                        *)

\* The initial states satisfy the invariant.
LEMMA InitInv == PlanInit => PlanInv
<1> SUFFICES ASSUME PlanInit PROVE PlanInv
  OBVIOUS
<1>1. /\ remaining \in [Nodes -> Nat]
      /\ \A n \in Nodes : remaining[n] = Cardinality(Pending(deps, n, {}))
      /\ ready = {n \in Nodes : remaining[n] = 0}
  BY RootsCounted, Zenon DEF PlanInit
<1>2. PlanTypeOK
  BY <1>1, Zenon DEF PlanInit, PlanTypeOK
<1>3. stage = "validate" => Validating
  BY <1>1 DEF PlanInit, Validating, Counts
<1>4. stage # "run" /\ DependenciesFirst /\ NeverPanics
  BY DEF PlanInit, DependenciesFirst, NeverPanics
<1> QED
  BY <1>2, <1>3, <1>4 DEF PlanInv

\* Topology::validate pops a node: it is in no set of nodes that wait for each
\* other, because its dependencies were all popped before.
LEMMA VisitInv ==
  ASSUME PlanInv, NEW i \in Nodes, Visit(i)
  PROVE  PlanInv'
<1>1. Validating /\ PlanTypeOK /\ i \in ready /\ ReleaseDependents(i)
      /\ visited' = visited \cup {i}
      /\ UNCHANGED <<deps, stage, running, outcomes, aborted, result>>
  BY DEF PlanInv, Visit
<1>2. Counts(visited, ready \cup visited) /\ ready \cap visited = {}
  BY <1>1 DEF Validating
<1>3. /\ remaining' \in [Nodes -> Nat]
      /\ \A n \in Nodes : remaining'[n] = Cardinality(Pending(deps, n, visited \cup {i}))
      /\ (ready \cup visited) \cup ready' = {n \in Nodes : remaining'[n] = 0}
      /\ ready' \cap (ready \cup visited) = ready \ {i}
      /\ ready' \subseteq Nodes
  <2>1. ready \subseteq ready \cup visited /\ i \in ready \cup visited /\ i \notin visited
    BY <1>1, <1>2
  <2> QED
    BY <1>1, <1>2, <2>1, ReleaseCounts, Zenon
<1>4. PlanTypeOK'
  BY <1>1, <1>3 DEF PlanTypeOK
<1>5. Counts(visited, ready \cup visited)'
  <2>1. ready' \cup visited' = (ready \cup visited) \cup ready'
    BY <1>1, <1>3
  <2>2. deps' = deps
    BY <1>1
  <2> QED
    BY <1>1, <1>3, <2>1, <2>2 DEF Counts
<1>6. ready' \cap visited' = {}
  BY <1>1, <1>2, <1>3
<1>7. \A k \in DOMAIN deps[i] : deps[i][k] \in visited
  <2>1. remaining[i] = 0 /\ remaining[i] = Cardinality(Pending(deps, i, visited))
    BY <1>1, <1>2 DEF Counts
  <2>2. deps \in Plans
    BY <1>1 DEF PlanTypeOK
  <2> QED
    BY <2>1, <2>2, ZeroMeansDone
<1>8. ASSUME NEW U \in SUBSET Nodes, Waits(deps, U)
      PROVE  U \cap (visited \cup {i}) = {}
  <2>1. U \cap visited = {}
    BY <1>1, <1>8 DEF Validating
  <2>2. i \notin U
    BY <1>7, <1>8, <2>1 DEF Waits
  <2> QED
    BY <2>1, <2>2
<1>9. Validating'
  BY <1>1, <1>5, <1>6, <1>8, Zenon DEF Validating, BadDep, Waits
<1>10. DependenciesFirst' /\ NeverPanics' /\ stage' = "validate"
  BY <1>1 DEF PlanInv, DependenciesFirst, NeverPanics, Visit
<1> QED
  BY <1>4, <1>9, <1>10 DEF PlanInv

\* A plan whose nodes were all popped has no set of nodes that wait for each
\* other, and the counters start anew.
LEMMA ValidatedInv ==
  ASSUME PlanInv, Validated
  PROVE  PlanInv'
<1>1. Validating /\ PlanTypeOK /\ UNCHANGED <<deps, visited, running, outcomes, aborted>>
  BY DEF PlanInv, Validated
<1>2. DependenciesFirst'
  BY <1>1 DEF Validating, DependenciesFirst
<1>3. CASE visited # Nodes
  <2>1. stage' = "returned" /\ result' = "cycle" /\ UNCHANGED <<remaining, ready>>
    BY <1>3 DEF Validated
  <2> QED
    BY <1>1, <1>2, <2>1 DEF PlanInv, PlanTypeOK, NeverPanics
<1>4. CASE visited = Nodes
  <2>1. stage' = "run" /\ result' = result /\ remaining' = DepCount(deps) /\ ready' = Roots(deps)
    BY <1>4 DEF Validated
  <2>2. /\ remaining' \in [Nodes -> Nat]
        /\ \A n \in Nodes : remaining'[n] = Cardinality(Pending(deps, n, {}))
        /\ ready' = {n \in Nodes : remaining'[n] = 0}
    <3>1. deps \in Plans
      BY <1>1 DEF PlanTypeOK
    <3> QED
      BY <2>1, <3>1, RootsCounted, Zenon
  <2>3. PlanTypeOK'
    BY <1>1, <2>1, <2>2 DEF PlanTypeOK
  <2>4. running' = {} /\ outcomes' = {} /\ result' = "none" /\ deps' = deps /\ ~BadDep(deps)
    BY <1>1, <2>1 DEF Validating
  <2>5. Counts(outcomes, ready \cup running \cup outcomes)'
    BY <2>2, <2>4 DEF Counts
  <2>6. \A U \in SUBSET Nodes : Waits(deps, U) => U = {}
    BY <1>1, <1>4 DEF Validating
  <2>7. Executing'
    BY <2>4, <2>5, <2>6, Zenon DEF Executing, BadDep, Waits
  <2> QED
    BY <1>2, <2>1, <2>3, <2>4, <2>7 DEF PlanInv, NeverPanics
<1> QED
  BY <1>3, <1>4

\* A node is launched from ready, where its count is zero.
LEMMA LaunchInv ==
  ASSUME PlanInv, NEW i \in Nodes, Launch(i)
  PROVE  PlanInv'
<1>1. /\ Executing /\ PlanTypeOK /\ DependenciesFirst /\ ~aborted /\ i \in ready
      /\ running' = running \cup {i} /\ ready' = ready \ {i} /\ stage' = "run"
      /\ UNCHANGED <<deps, stage, remaining, visited, outcomes, aborted, result>>
  BY DEF PlanInv, Launch, CanLaunch
<1>2. Counts(outcomes, ready \cup running \cup outcomes)
  BY <1>1 DEF Executing
<1>3. PlanTypeOK'
  BY <1>1 DEF PlanTypeOK
<1>4. \A k \in DOMAIN deps[i] : deps[i][k] \in outcomes
  <2>1. remaining[i] = 0 /\ remaining[i] = Cardinality(Pending(deps, i, outcomes))
    BY <1>1, <1>2 DEF Counts
  <2>2. deps \in Plans
    BY <1>1 DEF PlanTypeOK
  <2> QED
    BY <2>1, <2>2, ZeroMeansDone
<1>5. DependenciesFirst'
  BY <1>1, <1>4 DEF DependenciesFirst
<1>6. Counts(outcomes, ready \cup running \cup outcomes)'
  <2>1. ready' \cup running' \cup outcomes' = ready \cup running \cup outcomes
    BY <1>1
  <2> QED
    BY <1>1, <1>2, <2>1 DEF Counts
<1>7. Executing'
  <2>1. running' \cap outcomes' = {} /\ ready' \cap (running' \cup outcomes') = {}
    BY <1>1 DEF Executing
  <2> QED
    BY <1>1, <1>6, <2>1, Zenon DEF Executing, BadDep, Waits
<1> QED
  BY <1>1, <1>3, <1>5, <1>7 DEF PlanInv, NeverPanics

\* A joined node was running, so it is complete for the first time.
LEMMA JoinInv ==
  ASSUME PlanInv, NEW i \in Nodes, NEW ok \in BOOLEAN, Join(i, ok)
  PROVE  PlanInv'
<1>1. /\ Executing /\ PlanTypeOK /\ DependenciesFirst /\ NeverPanics
      /\ i \in running /\ running' = running \ {i} /\ stage = "run"
      /\ UNCHANGED <<deps, stage, visited, result>>
  BY DEF PlanInv, Join
<1>2. i \notin outcomes /\ i \notin ready /\ running \cap outcomes = {}
      /\ ready \cap (running \cup outcomes) = {}
  BY <1>1 DEF Executing
<1>3. CASE ~ok
  <2>1. aborted' = TRUE /\ UNCHANGED <<outcomes, remaining, ready>>
    BY <1>3 DEF Join
  <2>2. PlanTypeOK' /\ DependenciesFirst' /\ NeverPanics'
    BY <1>1, <2>1 DEF PlanTypeOK, DependenciesFirst, NeverPanics
  <2>3. Executing'
    BY <1>1, <1>2, <2>1, Zenon DEF Executing, BadDep, Waits
  <2> QED
    BY <1>1, <2>2, <2>3 DEF PlanInv
<1>4. CASE ok /\ aborted
  <2>1. outcomes' = outcomes \cup {i} /\ UNCHANGED <<aborted, remaining, ready>>
    BY <1>4 DEF Join
  <2>2. PlanTypeOK' /\ DependenciesFirst' /\ NeverPanics'
    BY <1>1, <2>1 DEF PlanTypeOK, DependenciesFirst, NeverPanics
  <2>3. running' \cap outcomes' = {} /\ ready' \cap (running' \cup outcomes') = {} /\ aborted'
    BY <1>1, <1>2, <1>4, <2>1
  <2>4. Executing'
    BY <1>1, <2>3, Zenon DEF Executing, BadDep, Waits
  <2> QED
    BY <1>1, <2>2, <2>4 DEF PlanInv
<1>5. CASE ok /\ ~aborted
  <2>1. outcomes' = outcomes \cup {i} /\ aborted' = aborted /\ ReleaseDependents(i)
    BY <1>5 DEF Join
  <2>2. Counts(outcomes, ready \cup running \cup outcomes)
    BY <1>1, <1>5 DEF Executing
  <2> DEFINE zero == ready \cup running \cup outcomes
  <2>3. /\ remaining' \in [Nodes -> Nat]
        /\ \A n \in Nodes : remaining'[n] = Cardinality(Pending(deps, n, outcomes \cup {i}))
        /\ zero \cup ready' = {n \in Nodes : remaining'[n] = 0}
        /\ ready' \cap zero = ready \ {i}
        /\ ready' \subseteq Nodes
    <3>1. ready \subseteq zero /\ i \in zero
      BY <1>1
    <3>2. Counts(outcomes, zero)
      BY <2>2
    <3> HIDE DEF zero
    <3> QED
      BY <1>1, <1>2, <2>1, <3>1, <3>2, ReleaseCounts, Zenon
  <2>4. ready \subseteq ready' /\ ready' \cap (running \cup outcomes) = {}
    BY <1>2, <2>3
  <2>5. ready' \cup running' \cup outcomes' = zero \cup ready'
    BY <1>1, <2>1, <2>4
  <2>6. Counts(outcomes, ready \cup running \cup outcomes)'
    BY <1>1, <2>1, <2>3, <2>5 DEF Counts
  <2>7. PlanTypeOK' /\ DependenciesFirst' /\ NeverPanics'
    BY <1>1, <2>1, <2>3 DEF PlanTypeOK, DependenciesFirst, NeverPanics
  <2>8. Executing'
    <3>1. running' \cap outcomes' = {} /\ ready' \cap (running' \cup outcomes') = {}
      BY <1>1, <1>2, <2>1, <2>4
    <3> QED
      BY <1>1, <2>6, <3>1, Zenon DEF Executing, BadDep, Waits
  <2> QED
    BY <1>1, <2>7, <2>8 DEF PlanInv
<1> QED
  BY <1>3, <1>4, <1>5

\* When nothing runs and nothing is ready, the nodes that did not complete wait
\* for each other; a validated plan has no such nodes.
LEMMA ReturnInv ==
  ASSUME PlanInv, Return
  PROVE  PlanInv'
<1>1. /\ Executing /\ PlanTypeOK /\ DependenciesFirst /\ running = {} /\ ~CanLaunch
      /\ stage' = "returned"
      /\ result' = IF aborted THEN "error" ELSE IF outcomes = Nodes THEN "ok" ELSE "panic"
      /\ UNCHANGED <<deps, remaining, ready, visited, running, outcomes, aborted>>
  BY DEF PlanInv, Return
<1>2. ~aborted => outcomes = Nodes
  <2> SUFFICES ASSUME ~aborted PROVE outcomes = Nodes
    OBVIOUS
  <2>1. ready = {}
    <3>1. Cardinality(running) = 0 /\ Window > 0
      BY <1>1, FS_EmptySet, WindowNat DEF Window
    <3> QED
      BY <1>1, <3>1 DEF CanLaunch
  <2>2. Counts(outcomes, outcomes)
    <3>1. ready \cup running \cup outcomes = outcomes
      BY <1>1, <2>1
    <3> QED
      BY <1>1, <3>1 DEF Executing
  <2> DEFINE U == Nodes \ outcomes
  <2>3. ASSUME NEW n \in U PROVE \E k \in DOMAIN deps[n] : deps[n][k] \in U
    <3>1. Cardinality(Pending(deps, n, outcomes)) # 0
      BY <2>2 DEF Counts
    <3>2. Pending(deps, n, outcomes) # {}
      BY <1>1, <3>1, FS_EmptySet
    <3> QED
      BY <1>1, <3>2 DEF Pending, Executing, BadDep
  <2>4. Waits(deps, U)
    BY <2>3 DEF Waits
  <2>5. U = {}
    <3>1. U \in SUBSET Nodes
      OBVIOUS
    <3> HIDE DEF U
    <3> QED
      BY <1>1, <2>4, <3>1 DEF Executing
  <2> QED
    BY <1>1, <2>5 DEF PlanTypeOK
<1>3. result' \in {"error", "ok"}
  BY <1>1, <1>2
<1> QED
  BY <1>1, <1>3 DEF PlanInv, PlanTypeOK, DependenciesFirst, NeverPanics

-----------------------------------------------------------------------------
\* The invariant holds in every reachable state of every plan.
THEOREM PlanInductive == PlanSpec => []PlanInv
<1>1. PlanInv /\ [PlanNext]_planVars => PlanInv'
  <2> SUFFICES ASSUME PlanInv, [PlanNext]_planVars PROVE PlanInv'
    OBVIOUS
  <2>1. ASSUME NEW i \in Nodes, Visit(i) PROVE PlanInv'
    BY <2>1, VisitInv
  <2>2. ASSUME NEW i \in Nodes, Launch(i) PROVE PlanInv'
    BY <2>2, LaunchInv
  <2>3. ASSUME NEW i \in Nodes, NEW ok \in BOOLEAN, Join(i, ok) PROVE PlanInv'
    BY <2>3, JoinInv
  <2>4. CASE Validated
    BY <2>4, ValidatedInv
  <2>5. CASE Return
    BY <2>5, ReturnInv
  <2>6. CASE UNCHANGED planVars
    BY <2>6, Zenon DEF planVars, PlanInv, PlanTypeOK, Validating, Executing, Counts, Waits, BadDep,
                DependenciesFirst, NeverPanics
  <2> QED
    BY <2>1, <2>2, <2>3, <2>4, <2>5, <2>6 DEF PlanNext
<1> QED
  BY InitInv, <1>1, PTL DEF PlanSpec

\* Runner::run_plan spawns a node only after all its dependencies succeeded, for
\* every plan, with dependencies named any number of times, and every window.
THEOREM PlanDependenciesFirst == PlanSpec => []DependenciesFirst
<1>1. PlanInv => DependenciesFirst
  BY DEF PlanInv
<1> QED
  BY PlanInductive, <1>1, PTL

\* run never unwraps a missing outcome: Topology::validate refuses every plan
\* in which nodes wait for each other, and only those nodes could be missing.
THEOREM PlanNeverPanics == PlanSpec => []NeverPanics
<1>1. PlanInv => NeverPanics
  BY DEF PlanInv
<1> QED
  BY PlanInductive, <1>1, PTL

\* After the first failure the scheduler only waits for what is in flight.
THEOREM PlanNothingAfterFailure == PlanSpec => NothingAfterFailure
<1>1. [PlanNext]_planVars => [aborted => running' \subseteq running]_planVars
  BY DEF PlanNext, Visit, Validated, Launch, CanLaunch, Join, Return, planVars
<1> QED
  BY <1>1, PTL DEF PlanSpec, NothingAfterFailure
=============================================================================
