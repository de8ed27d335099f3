---------------------------- MODULE ScanRefinement ----------------------------
(***************************************************************************)
(* The refinement mapping from ScanLifecycle to ScanService. A session is  *)
(* complete, abstractly, when its scan goroutine's last store has landed:  *)
(* sess.State alone may already read complete while TokenResult does not.  *)
(***************************************************************************)
EXTENDS ScanLifecycle

CONSTANT NoReport

RunsOf(s) == {c \in Starts : sess[c] = s /\ Accepted(c)}

PhaseOf(s) ==
    IF Settled(s) THEN "complete"
    ELSE IF \E c \in RunsOf(s) : pc[c] # "accepted" THEN "running"
    ELSE IF RunsOf(s) # {} THEN "started"
    ELSE state[s]

PlanOf(s) == UNION {dispatched[c] : c \in RunsOf(s)}

ReportOf(s) == IF Settled(s) THEN [ok |-> result[s], failed |-> errors[s]] ELSE NoReport

Service == INSTANCE ScanService WITH
    Tasks <- Task,
    phase <- [s \in Sessions |-> PhaseOf(s)],
    plan <- [s \in Sessions |-> PlanOf(s)],
    report <- [s \in Sessions |-> ReportOf(s)]

(* The scan API keeps the promise of ScanService: every step of the handlers
   and goroutines is one of its steps or invisible, and it always delivers. *)
ImplementsService == Service!ServiceSpec
=============================================================================
