----------------------------- MODULE RemoteProbe -----------------------------
(***************************************************************************)
(* Recovering (once-cas/src/tuist/recovery.rs): remote state that is       *)
(* initialised by one probe at a time, on a task of its own, and that      *)
(* keeps success and refusals and retries other failures after a cooldown. *)
(* Callers come, wait, are cancelled and come again, and time passes       *)
(* whatever they do.                                                       *)
(***************************************************************************)
EXTENDS Integers, FiniteSets

CONSTANTS
  Callers,
  FirstCooldown, MaxCooldown,
  FailureCap     \* bound: failures are counted up to here

VARIABLES
  available,             \* the OnceLock
  phase,                 \* "idle", "probing" or "failed"
  error, failures, left, \* the failure, how many there were, its cooldown
  probe,                 \* the ProbeOwner: "none" or "running"
  caller, started,       \* where a caller is, and whether it used its init
  answer, owed,          \* what it returned; how the probe ended that it awaited last
  expired                \* the callers that a cooldown passed before they looked

probeVars ==
  <<available, phase, error, failures, left, probe, caller, started, answer, owed, expired>>

Errors == {"transient", "permanent"}

ProbeInit ==
  /\ available = FALSE /\ phase = "idle"
  /\ error = "transient" /\ failures = 0 /\ left = 0
  /\ probe = "none"
  /\ caller = [c \in Callers |-> "away"] /\ started = [c \in Callers |-> FALSE]
  /\ answer = [c \in Callers |-> "none"] /\ owed = [c \in Callers |-> "none"]
  /\ expired = {}

\* cooldown: doubles with every failure, up to a limit.
cooldown(n) == LET d == FirstCooldown * 2^(n - 1) IN IF d < MaxCooldown THEN d ELSE MaxCooldown

\* Cooldowns last, and powers of two are positive.
ASSUME CooldownAssumption ==
  /\ FailureCap \in Nat \ {0}
  /\ \A n \in 1..FailureCap : cooldown(n) \in Nat \ {0}

\* get_or_try_init is called.
CallInit(c) ==
  /\ caller[c] = "away"
  /\ caller' = [caller EXCEPT ![c] = "called"]
  /\ started' = [started EXCEPT ![c] = FALSE]
  /\ answer' = [answer EXCEPT ![c] = "none"] /\ owed' = [owed EXCEPT ![c] = "none"]
  /\ expired' = expired \ {c}
  /\ UNCHANGED <<available, phase, error, failures, left, probe>>

Answer(c, what) ==
  /\ caller' = [caller EXCEPT ![c] = "away"]
  /\ answer' = [answer EXCEPT ![c] = what]
  /\ UNCHANGED <<phase, probe, started>>

\* A caller looks at the phase, under its lock: it returns what is there, waits
\* for the probe that runs, or starts one, at most once.
Inspect(c) ==
  /\ caller[c] \in {"called", "woken"}
  /\ LET wait == caller' = [caller EXCEPT ![c] = "waiting"] /\ UNCHANGED answer
         closed == phase = "failed" /\ (error = "permanent" \/ left > 0)
     IN
     \/ available /\ Answer(c, "ok")
     \/ ~available /\ phase = "probing" /\ wait /\ UNCHANGED <<phase, probe, started>>
     \/ ~available /\ closed /\ Answer(c, error)
     \/ /\ ~available /\ phase # "probing" /\ ~closed
        /\ IF started[c] THEN Answer(c, error)
           ELSE /\ phase' = "probing" /\ probe' = "running"
                /\ started' = [started EXCEPT ![c] = TRUE]
                /\ wait
  /\ UNCHANGED <<available, error, failures, left, owed, expired>>

\* Those who wait are woken, and the outcome is theirs.
Waken(outcome) ==
  LET waiting == {c \in Callers : caller[c] = "waiting"} IN
  /\ caller' = [c \in Callers |-> IF c \in waiting THEN "woken" ELSE caller[c]]
  /\ owed' = [c \in Callers |-> IF c \in waiting THEN outcome ELSE owed[c]]
  /\ expired' = expired \ waiting

\* Mutant of Record: a failure leaves no trace.
RecordNothing(outcome) ==
  /\ probe = "running" /\ probe' = "none"
  /\ IF outcome = "ok" THEN available' = TRUE ELSE UNCHANGED available
  /\ phase' = "idle"
  /\ Waken(outcome)
  /\ UNCHANGED <<error, failures, left, started, answer>>

\* finish: success is kept, a failure starts a cooldown, and then the waiters
\* are woken.  They look when they are polled, which may be long after.
Record(outcome) ==
  /\ probe = "running" /\ probe' = "none"
  /\ IF outcome = "ok"
       THEN available' = TRUE /\ phase' = "idle" /\ UNCHANGED <<error, failures, left>>
       ELSE /\ phase' = "failed" /\ error' = outcome
            /\ failures' = IF failures < FailureCap THEN failures + 1 ELSE failures
            /\ left' = cooldown(failures')
            /\ UNCHANGED available
  /\ Waken(outcome)
  /\ UNCHANGED <<started, answer>>

\* The probe ends, at the latest at its deadline.
ProbeEnds == \E outcome \in {"ok"} \cup Errors : Record(outcome)

\* Mutant of ProbeDropped: the slot stays taken.
ProbeDroppedSilently ==
  /\ probe = "running" /\ probe' = "none"
  /\ Waken("transient")
  /\ UNCHANGED <<available, phase, error, failures, left, started, answer>>

\* Its task panics or is dropped: the owner records that it had no outcome.
ProbeDropped == Record("transient")

\* The future of a caller is dropped; the probe is not its own.
CancelCaller(c) ==
  /\ caller[c] # "away"
  /\ caller' = [caller EXCEPT ![c] = "away"]
  /\ UNCHANGED <<available, phase, error, failures, left, probe, started, answer, owed, expired>>

\* A second passes, and with it perhaps the cooldown, before a caller that was
\* woken has looked.
CooldownTick ==
  /\ left > 0 /\ left' = left - 1
  /\ expired' = IF left' = 0 THEN expired \cup {c \in Callers : caller[c] = "woken"} ELSE expired
  /\ UNCHANGED <<available, phase, error, failures, probe, caller, started, answer, owed>>

ProbeNext ==
  \/ \E c \in Callers : CallInit(c) \/ Inspect(c) \/ CancelCaller(c)
  \/ ProbeEnds \/ ProbeDropped \/ CooldownTick

ProbeSpec == ProbeInit /\ [][ProbeNext]_probeVars

\* Callers are polled, and the probe has a deadline.  A caller is not for ever
\* polled only after the cooldown has passed and another probe is running.
ProbeFairness ==
  /\ \A c \in Callers : WF_probeVars(Inspect(c)) /\ SF_probeVars(Inspect(c) /\ phase # "probing")
  /\ WF_probeVars(ProbeEnds)

-----------------------------------------------------------------------------
(* Properties *)

\* "Every waiter ... receives the probe's single outcome", as far as the code
\* goes: a caller returns how the probe ended that it awaited last, although
\* the phase lock is free before it looks, callers that started the probe are
\* cancelled, and others start the next one.  Success and refusals reach it
\* however late it looks, another failure unless its cooldown passed before.
OneOutcome ==
  \A c \in Callers :
    (answer[c] # "none" /\ owed[c] # "none") =>
      answer[c] = owed[c] \/ (owed[c] = "transient" /\ c \in expired)

\* "The slot cannot stay taken": every call of get_or_try_init returns, also
\* when the task of the probe is dropped without an outcome.
CallersReturn == \A c \in Callers : caller[c] # "away" ~> caller[c] = "away"
=============================================================================
