----------------------------- MODULE ScanService -----------------------------
(***************************************************************************)
(* What the scan API promises of a session, without goroutines, brokers or *)
(* unsynchronised stores: a session is opened, scanned at most once, and   *)
(* delivers one report that splits the planned tasks into those that gave  *)
(* rows and those that gave an error (RES-01). ScanRefinement shows that   *)
(* ScanLifecycle implements it when starts are serialised.                 *)
(***************************************************************************)
CONSTANTS Sessions, Tasks, NoReport

VARIABLES
    phase,   \* none, created, started, running, complete
    plan,    \* the tasks of the session's scan, {} before it is planned
    report   \* [ok, failed], or NoReport before the scan is complete

serviceVars == <<phase, plan, report>>

ServiceInit ==
    /\ phase = [s \in Sessions |-> "none"]
    /\ plan = [s \in Sessions |-> {}]
    /\ report = [s \in Sessions |-> NoReport]

Open(s) ==
    /\ phase[s] = "none"
    /\ phase' = [phase EXCEPT ![s] = "created"]
    /\ UNCHANGED <<plan, report>>

Start(s) ==
    /\ phase[s] = "created"
    /\ phase' = [phase EXCEPT ![s] = "started"]
    /\ UNCHANGED <<plan, report>>

Plan(s) ==
    /\ phase[s] = "started"
    /\ phase' = [phase EXCEPT ![s] = "running"]
    /\ \E tasks \in SUBSET Tasks : plan' = [plan EXCEPT ![s] = tasks]
    /\ UNCHANGED report

Deliver(s) ==
    /\ phase[s] = "running"
    /\ phase' = [phase EXCEPT ![s] = "complete"]
    /\ \E ok \in SUBSET plan[s] :
          report' = [report EXCEPT ![s] = [ok |-> ok, failed |-> plan[s] \ ok]]
    /\ UNCHANGED plan

Progressing(s) == Plan(s) \/ Deliver(s)

ServiceNext == \E s \in Sessions : Open(s) \/ Start(s) \/ Progressing(s)

ServiceSpec ==
    /\ ServiceInit
    /\ [][ServiceNext]_serviceVars
    /\ \A s \in Sessions : WF_serviceVars(Progressing(s))
=============================================================================
