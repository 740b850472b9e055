-------------------------- MODULE MCEventTransport --------------------------
(* Small runs of EventTransport for TLC. *)
EXTENDS EventTransport

\* What the stop run explores: the last event is published only in a run that
\* is not cancelled, or whose stream does not break.  Only steps that no
\* fairness condition mentions are left out.
Scope == published < MaxPublished \/ breaks = 0 \/ ~cancelled

MCFairSpec == EventInit /\ [][EventNext /\ Scope']_eventVars /\ EventFairness
=============================================================================
