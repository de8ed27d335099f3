-------------------------- MODULE ScanLifecycleProofs --------------------------
(***************************************************************************)
(* The safety of ScanLifecycle for any sessions, starts, providers and     *)
(* forests. The invariants come in layers, each inductive relative to the  *)
(* ones before it: types; what Run's accumulators hold (RunInv) and what   *)
(* an accepted start leaves in the session (AcceptedInv), which need       *)
(* nothing of the callers; and, on the assumption that no State tests of a *)
(* session overlap, that a session belongs to one start (ExclusiveInv) and *)
(* therefore what its fields hold (StoreInv). From all of them, it         *)
(* implements the safety of ScanService.                                   *)
(***************************************************************************)
EXTENDS ScanRefinement, TLAPS

-----------------------------------------------------------------------------
(* Types                                                                   *)

LEMMA TaskFacts ==
    ASSUME NEW t \in Task
    PROVE  ProviderOf(t) \in Providers
BY LifecycleAssumption DEF LifecycleAssumption, Task, ProviderOf

LEMMA EntryFacts ==
    ASSUME NEW n \in Nat
    PROVE  Estimate(n) \in 0..100
BY DEF Estimate

\* Every update of a provider's progress keeps the map's shape.
LEMMA UpdateProgressType ==
    ASSUME progress \in [Sessions -> [Providers -> Entry]],
           NEW c \in Starts, NEW t \in Task, NEW percent \in 0..100,
           NEW status \in {"running", "complete", "error"},
           UpdateProgress(c, t, status, percent)
    PROVE  progress' \in [Sessions -> [Providers -> Entry]]
<1>1. [status |-> status, percent |-> percent] \in Entry
  BY DEF Entry
<1> QED
  BY <1>1 DEF UpdateProgress

\* Every published event is an event of the session's stream.
LEMMA PublishType ==
    ASSUME events \in [Sessions -> SUBSET Event], NEW s, NEW E \in SUBSET Event,
           Publish(s, E)
    PROVE  events' \in [Sessions -> SUBSET Event]
BY DEF Publish

LEMMA InitType == Init => TypeOK
<1> SUFFICES ASSUME Init
             PROVE  TypeOK
  OBVIOUS
<1> USE LifecycleAssumption DEF LifecycleAssumption, Init
<1>1. progress \in [Sessions -> [Providers -> Entry]]
  BY DEF NoEntry, Entry
<1>2. completedAt \in [Sessions -> BOOLEAN] /\ closed \in [Sessions -> BOOLEAN]
  OBVIOUS
<1>3. forests \in [Sessions -> 0..MaxForest] /\ reports \in [Starts -> [Task -> 0..MaxEvents]]
  OBVIOUS
<1> QED
  BY <1>1, <1>2, <1>3 DEF TypeOK, CallStages, TaskStages

LEMMA ProviderType ==
    ASSUME TypeOK, NEW c \in Starts, NEW t \in Task, ProviderStep(c, t)
    PROVE  TypeOK'
<1> USE DEF TypeOK
<1>1. CASE BeginProvider(c, t)
  <2>1. progress' \in [Sessions -> [Providers -> Entry]]
    BY <1>1, UpdateProgressType DEF BeginProvider
  <2>2. events' \in [Sessions -> SUBSET Event]
    BY <1>1, PublishType DEF BeginProvider, Event
  <2> QED
    BY <1>1, <2>1, <2>2 DEF BeginProvider, TaskStages, callVars
<1>2. CASE ReportProgress(c, t)
  <2>1. Estimate(reports[c][t] + 1) \in 0..100
    BY EntryFacts
  <2>2. progress' \in [Sessions -> [Providers -> Entry]]
    BY <1>2, <2>1, UpdateProgressType DEF ReportProgress
  <2>3. events' \in [Sessions -> SUBSET Event]
    BY <1>2, PublishType DEF ReportProgress, Event
  <2>4. reports[c][t] + 1 \in 0..MaxEvents
    BY <1>2, LifecycleAssumption DEF LifecycleAssumption, ReportProgress
  <2>5. reports' \in [Starts -> [Task -> 0..MaxEvents]]
    BY <1>2, <2>4 DEF ReportProgress
  <2> QED
    BY <1>2, <2>2, <2>3, <2>5 DEF ReportProgress, callVars
<1>3. CASE ProviderFails(c, t)
  <2>1. progress' \in [Sessions -> [Providers -> Entry]]
    BY <1>3, UpdateProgressType DEF ProviderFails
  <2>2. events' \in [Sessions -> SUBSET Event]
    <3>1. {<<"error", c, t>>, <<"provider_complete", c, t>>} \in SUBSET Event
      BY DEF Event
    <3> QED
      BY <1>3, <3>1, PublishType DEF ProviderFails
  <2> QED
    BY <1>3, <2>1, <2>2 DEF ProviderFails, TaskStages, callVars
<1>4. CASE ProviderSucceeds(c, t)
  <2>1. progress' \in [Sessions -> [Providers -> Entry]]
    BY <1>4, UpdateProgressType DEF ProviderSucceeds
  <2>2. events' \in [Sessions -> SUBSET Event]
    BY <1>4, PublishType DEF ProviderSucceeds, Event
  <2> QED
    BY <1>4, <2>1, <2>2 DEF ProviderSucceeds, TaskStages, callVars
<1>5. CASE Merge(c, t)
  <2>1. task' \in [Starts -> [Task -> TaskStages]]
    BY <1>5 DEF Merge, TaskStages
  <2>2. findings' \in [Starts -> SUBSET Task] /\ errs' \in [Starts -> SUBSET Task]
    <3>1. /\ Append(findings, c, t) \in [Starts -> SUBSET Task]
          /\ Append(errs, c, t) \in [Starts -> SUBSET Task]
      BY DEF Append
    <3> QED
      BY <1>5, <3>1 DEF Merge
  <2> QED
    BY <1>5, <2>1, <2>2 DEF Merge, sessionVars, callVars
<1> QED
  BY <1>1, <1>2, <1>3, <1>4, <1>5 DEF ProviderStep

LEMMA RunType ==
    ASSUME TypeOK, NEW c \in Starts, RunStep(c)
    PROVE  TypeOK'
<1> USE DEF TypeOK
<1>1. CASE Accept(c)
  BY <1>1 DEF Accept, CallStages, runVars
<1>2. CASE Dispatch(c)
  BY <1>2 DEF Dispatch, ExpandedTasks, CallStages, TaskStages, sessionVars
<1>3. CASE Collect(c)
  <2>1. events' \in [Sessions -> SUBSET Event]
    BY <1>3, PublishType DEF Collect, Event
  <2> QED
    BY <1>3, <2>1 DEF Collect, CallStages, runVars
<1>4. CASE CloseBroker(c)
  <2>1. closed' \in [Sessions -> BOOLEAN]
    BY <1>4 DEF CloseBroker
  <2> QED
    BY <1>4, <2>1 DEF CloseBroker, CallStages, Fields
<1>5. ASSUME NEW f \in Fields, Land(c, f)
      PROVE  TypeOK'
  <2>1. completedAt' \in [Sessions -> BOOLEAN]
    BY <1>5 DEF Land
  <2> QED
    BY <1>5, <2>1 DEF Land, CallStages
<1> QED
  BY <1>1, <1>2, <1>3, <1>4, <1>5 DEF RunStep

LEMMA UserType ==
    ASSUME TypeOK, UserStep
    PROVE  TypeOK'
<1> USE DEF TypeOK
<1>1. ASSUME NEW s \in Sessions, NEW f \in 0..MaxForest, Validate(s, f)
      PROVE  TypeOK'
  BY <1>1 DEF Validate, Grown, callVars, runVars
<1>2. ASSUME NEW s \in Sessions, CloneSession(s)
      PROVE  TypeOK'
  BY <1>2 DEF CloneSession, callVars, runVars
<1>3. ASSUME NEW c \in Starts, NEW s \in Sessions, NEW req \in Requests, CheckState(c, s, req)
      PROVE  TypeOK'
  BY <1>3, LifecycleAssumption DEF LifecycleAssumption, CheckState, CallStages, sessionVars, runVars
<1> QED
  BY <1>1, <1>2, <1>3 DEF UserStep

LEMMA StepType == TypeOK /\ [Next]_vars => TypeOK'
<1>1. ASSUME TypeOK, UNCHANGED vars
      PROVE  TypeOK'
  BY <1>1 DEF TypeOK, vars, sessionVars, callVars, runVars
<1> QED
  BY <1>1, UserType, ProviderType, RunType DEF Next

(* Type correctness of every state a scan session reaches; the percentages
   shown are between 0 and 100 for any number of progress events.           *)
THEOREM TypeCorrect == Spec => []TypeOK
BY InitType, StepType, PTL DEF Spec
-----------------------------------------------------------------------------
(* Run's accumulators                                                      *)

\* The goroutine of task t has returned from Run's point of view.
Merged(c) == {t \in Task : task[c][t] = "merged"}

\* What a run holds, whoever started it: nothing before its dispatch, one
\* goroutine per dispatched task, and each merged task in one accumulator.
RunInv ==
    \A c \in Starts :
        /\ pc[c] \in {"idle", "checked", "rejected", "accepted"} => dispatched[c] = {}
        /\ \A t \in Task : t \in dispatched[c] <=> task[c][t] # "absent"
        /\ findings[c] \cup errs[c] = Merged(c)
        /\ findings[c] \cap errs[c] = {}
        /\ Collected(c) => AllDone(c)

LEMMA InitRun == Init => RunInv
BY DEF Init, RunInv, Merged, Collected

LEMMA StepRun == TypeOK /\ TypeOK' /\ RunInv /\ [Next]_vars => RunInv'
<1> SUFFICES ASSUME TypeOK, TypeOK', RunInv, [Next]_vars
             PROVE  RunInv'
  OBVIOUS
<1> USE DEF RunInv, Merged, Collected, AllDone
<1>0. /\ pc \in [Starts -> CallStages] /\ pc' \in [Starts -> CallStages]
      /\ task \in [Starts -> [Task -> TaskStages]]
      /\ dispatched \in [Starts -> SUBSET Task]
      /\ findings \in [Starts -> SUBSET Task] /\ errs \in [Starts -> SUBSET Task]
  BY DEF TypeOK
<1>1. CASE UserStep
  <2>1. UNCHANGED runVars
    BY <1>0, <1>1 DEF UserStep, Validate, CloneSession, CheckState
  <2>2. \A c \in Starts : \/ pc'[c] = pc[c]
                          \/ pc[c] = "idle" /\ pc'[c] \in {"checked", "rejected"}
    BY <1>0, <1>1 DEF UserStep, Validate, CloneSession, CheckState, callVars
  <2> QED
    BY <2>1, <2>2 DEF runVars
<1>2. ASSUME NEW c \in Starts, NEW t \in Task,
             BeginProvider(c, t) \/ ReportProgress(c, t) \/ ProviderFails(c, t) \/ ProviderSucceeds(c, t)
      PROVE  RunInv'
  <2>1. /\ UNCHANGED <<pc, dispatched, findings, errs>>
        /\ \/ UNCHANGED task
           \/ \E stage \in {"scanning", "failed", "succeeded"} :
                 task' = [task EXCEPT ![c][t] = stage]
        /\ task[c][t] \in {"spawned", "scanning"}
    BY <1>0, <1>2 DEF BeginProvider, ReportProgress, ProviderFails, ProviderSucceeds, callVars
  <2> QED
    BY <1>0, <2>1
<1>3. ASSUME NEW c \in Starts, NEW t \in Task, Merge(c, t)
      PROVE  RunInv'
  <2>1. /\ UNCHANGED <<pc, dispatched>>
        /\ task[c][t] \in {"failed", "succeeded"}
        /\ task' = [task EXCEPT ![c][t] = "merged"]
    BY <1>0, <1>3 DEF Merge, callVars
  <2>2. \A d \in Starts : Merged(d)' = IF d = c THEN Merged(c) \cup {t} ELSE Merged(d)
    BY <1>0, <2>1
  <2>3. \A d \in Starts : /\ d # c => findings'[d] = findings[d] /\ errs'[d] = errs[d]
                          /\ d = c => \/ findings'[c] = findings[c] \cup {t} /\ errs'[c] = errs[c]
                                      \/ errs'[c] = errs[c] \cup {t} /\ findings'[c] = findings[c]
    BY <1>0, <1>3 DEF Merge, Append
  <2> QED
    BY <1>0, <2>1, <2>2, <2>3
<1>4. ASSUME NEW c \in Starts, Dispatch(c)
      PROVE  RunInv'
  <2>1. Merged(c) = {}
    BY <1>0, <1>4 DEF Dispatch
  <2> QED
    BY <1>0, <1>4, <2>1 DEF Dispatch, ExpandedTasks
<1>5. ASSUME NEW c \in Starts, Accept(c) \/ CloseBroker(c) \/ \E f \in Fields : Land(c, f)
      PROVE  RunInv'
  <2>1. UNCHANGED <<dispatched, task, findings, errs>>
    BY <1>0, <1>5 DEF Accept, CloseBroker, Land, runVars
  <2>2. \A d \in Starts : \/ pc'[d] = pc[d]
                          \/ pc[d] = "checked" /\ pc'[d] = "accepted"
                          \/ Collected(d) /\ pc'[d] \in {"storing", "ended"}
    BY <1>0, <1>5 DEF Accept, CloseBroker, Land
  <2> QED
    BY <1>0, <2>1, <2>2
<1>6. ASSUME NEW c \in Starts, Collect(c)
      PROVE  RunInv'
  BY <1>0, <1>6 DEF Collect, runVars
<1>7. CASE UNCHANGED vars
  BY <1>7 DEF vars, callVars, runVars
<1> QED
  BY <1>1, <1>2, <1>3, <1>4, <1>5, <1>6, <1>7 DEF Next, ProviderStep, RunStep

THEOREM RunInvariance == Spec => [](TypeOK /\ RunInv)
BY InitRun, StepRun, TypeCorrect, PTL DEF Spec

(* RES-01 for any number of providers, forests and concurrent runs: a run
   that stops waiting has accounted for each of its goroutines exactly once. *)
THEOREM PartialFailureTolerance == Spec => []PartialFailure
<1>1. TypeOK /\ RunInv => PartialFailure
  BY DEF TypeOK, RunInv, PartialFailure, Merged, Collected, AllDone
<1> QED
  BY <1>1, RunInvariance, PTL
-----------------------------------------------------------------------------
(* Overlapping starts                                                      *)

\* The State of a session tells that a start was accepted, by whichever start
\* it was written last.
AcceptedInv ==
    \A c \in Starts :
        /\ pc[c] # "idle" => sess[c] \in Sessions
        /\ Accepted(c) => state[sess[c]] \in {"scanning", "complete"}

LEMMA InitAccepted == Init => AcceptedInv
BY DEF Init, AcceptedInv, Accepted

LEMMA StepAccepted == TypeOK /\ AcceptedInv /\ [Next]_vars => AcceptedInv'
<1> SUFFICES ASSUME TypeOK, AcceptedInv, [Next]_vars
             PROVE  AcceptedInv'
  OBVIOUS
<1> USE DEF AcceptedInv, Accepted
<1>0. /\ pc \in [Starts -> CallStages]
      /\ sess \in [Starts -> Sessions \cup {NoSession}]
      /\ state \in [Sessions -> {"none", "created", "scanning", "complete"}]
  BY DEF TypeOK
<1>1. ASSUME NEW s \in Sessions, CloneSession(s) \/ \E f \in 0..MaxForest : Validate(s, f)
      PROVE  AcceptedInv'
  <2>1. /\ UNCHANGED callVars
        /\ state[s] \in {"none", "created"}
        /\ state' = [state EXCEPT ![s] = "created"]
    BY <1>0, <1>1 DEF CloneSession, Validate, Minted
  <2> QED
    BY <1>0, <2>1 DEF callVars
<1>2. ASSUME NEW c \in Starts, NEW s \in Sessions, NEW req \in Requests, CheckState(c, s, req)
      PROVE  AcceptedInv'
  BY <1>0, <1>2 DEF CheckState, sessionVars
<1>3. ASSUME NEW c \in Starts, Accept(c)
      PROVE  AcceptedInv'
  BY <1>0, <1>3 DEF Accept
<1>4. ASSUME NEW c \in Starts, Dispatch(c) \/ Collect(c) \/ CloseBroker(c)
      PROVE  AcceptedInv'
  BY <1>0, <1>4 DEF Dispatch, Collect, CloseBroker, sessionVars
<1>5. ASSUME NEW c \in Starts, NEW f \in Fields, Land(c, f)
      PROVE  AcceptedInv'
  <2>1. /\ UNCHANGED sess
        /\ pc[c] = "storing" /\ pc' \in {pc, [pc EXCEPT ![c] = "ended"]}
        /\ state' \in {state, [state EXCEPT ![sess[c]] = "complete"]}
    BY <1>0, <1>5 DEF Land
  <2> QED
    BY <1>0, <2>1
<1>6. ASSUME NEW c \in Starts, NEW t \in Task, ProviderStep(c, t)
      PROVE  AcceptedInv'
  <2>1. UNCHANGED <<state, pc, sess>>
    BY <1>6 DEF ProviderStep, BeginProvider, ReportProgress, ProviderFails, ProviderSucceeds,
                Merge, sessionVars, callVars
  <2> QED
    BY <2>1
<1>7. CASE UNCHANGED vars
  BY <1>7 DEF vars, sessionVars, callVars
<1> QED
  BY <1>1, <1>2, <1>3, <1>4, <1>5, <1>6, <1>7 DEF Next, UserStep, RunStep

(* However many starts overlap: once one of a session is accepted, no later
   State test of that session passes. Two runs of one session, which
   HandleStartScan does not rule out, are two whose tests overlapped.       *)
THEOREM AcceptanceIsFinal == Spec => LateStartsRefused
<1>1. ASSUME TypeOK, AcceptedInv, [Next]_vars,
             NEW c \in Starts, NEW d \in Starts, Accepted(c), pc[d] = "idle", pc'[d] = "checked"
      PROVE  sess'[d] # sess[c]
  <2>1. PICK s \in Sessions : /\ sess' = [sess EXCEPT ![d] = s]
                              /\ state[s] = "created"
    <3>1. /\ pc \in [Starts -> CallStages]
          /\ sess \in [Starts -> Sessions \cup {NoSession}]
      BY <1>1 DEF TypeOK
    <3>2. UNCHANGED vars => FALSE
      BY <1>1 DEF vars, callVars
    <3>3. ASSUME NEW e \in Starts, NEW t \in Task, ProviderStep(e, t)
          PROVE  FALSE
      BY <1>1, <3>3 DEF ProviderStep, BeginProvider, ReportProgress, ProviderFails,
                        ProviderSucceeds, Merge, callVars
    <3>4. ASSUME NEW e \in Starts, RunStep(e)
          PROVE  FALSE
      BY <1>1, <3>1, <3>4 DEF RunStep, Accept, Dispatch, Collect, CloseBroker, Land
    <3>5. ASSUME NEW e \in Sessions, CloneSession(e) \/ \E f \in 0..MaxForest : Validate(e, f)
          PROVE  FALSE
      BY <1>1, <3>5 DEF CloneSession, Validate, callVars
    <3>6. PICK e \in Starts, s \in Sessions, req \in Requests : CheckState(e, s, req)
      BY <1>1, <3>2, <3>3, <3>4, <3>5 DEF Next, UserStep
    <3>7. e = d /\ MayStart(s)
      BY <1>1, <3>1, <3>6 DEF CheckState
    <3> QED
      BY <3>6, <3>7 DEF CheckState, MayStart
  <2>2. state[sess[c]] # "created"
    BY <1>1 DEF AcceptedInv
  <2>3. sess'[d] = s
    BY <1>1, <2>1 DEF TypeOK
  <2> QED
    BY <2>1, <2>2, <2>3
<1>2. TypeOK /\ AcceptedInv /\ [Next]_vars =>
        [\A c, d \in Starts :
            Accepted(c) /\ pc[d] = "idle" /\ pc'[d] = "checked" => sess'[d] # sess[c]]_vars
  BY <1>1
<1> QED
  BY <1>2, InitAccepted, StepAccepted, TypeCorrect, PTL DEF Spec, LateStartsRefused
-----------------------------------------------------------------------------
(* One start per session                                                   *)

\* A start that has passed the State test and was not answered 409.
Claims(c) == pc[c] = "checked" \/ Accepted(c)

\* The State of a session tells whether a start has claimed it, and when
\* starts are serialised only one can.
ExclusiveInv ==
    /\ \A c \in Starts : pc[c] # "idle" => sess[c] \in Sessions
    /\ \A c \in Starts : pc[c] = "checked" => state[sess[c]] = "created"
    /\ \A c \in Starts : Accepted(c) => state[sess[c]] \in {"scanning", "complete"}
    /\ \A c, d \in Starts : Claims(c) /\ Claims(d) /\ sess[c] = sess[d] => c = d

LEMMA InitExclusive == Init => ExclusiveInv
BY DEF Init, ExclusiveInv, Claims, Accepted

LEMMA StepExclusive ==
    ASSUME SerialStarts
    PROVE  TypeOK /\ ExclusiveInv /\ [Next]_vars => ExclusiveInv'
<1> SUFFICES ASSUME TypeOK, ExclusiveInv, [Next]_vars
             PROVE  ExclusiveInv'
  OBVIOUS
<1> USE DEF ExclusiveInv, Claims, Accepted
<1>0. /\ pc \in [Starts -> CallStages]
      /\ sess \in [Starts -> Sessions \cup {NoSession}]
      /\ state \in [Sessions -> {"none", "created", "scanning", "complete"}]
  BY DEF TypeOK
<1>1. ASSUME NEW s \in Sessions, CloneSession(s) \/ \E f \in 0..MaxForest : Validate(s, f)
      PROVE  ExclusiveInv'
  <2>1. /\ UNCHANGED callVars
        /\ state[s] \in {"none", "created"}
        /\ state' = [state EXCEPT ![s] = "created"]
    BY <1>0, <1>1 DEF CloneSession, Validate, Minted
  <2> QED
    BY <1>0, <2>1 DEF callVars
<1>2. ASSUME NEW c \in Starts, NEW s \in Sessions, NEW req \in Requests, CheckState(c, s, req)
      PROVE  ExclusiveInv'
  BY <1>0, <1>2 DEF CheckState, MayStart, Minted, sessionVars
<1>3. ASSUME NEW c \in Starts, Accept(c)
      PROVE  ExclusiveInv'
  BY <1>0, <1>3 DEF Accept
<1>4. ASSUME NEW c \in Starts, Dispatch(c) \/ Collect(c) \/ CloseBroker(c)
      PROVE  ExclusiveInv'
  BY <1>0, <1>4 DEF Dispatch, Collect, CloseBroker, sessionVars
<1>5. ASSUME NEW c \in Starts, NEW f \in Fields, Land(c, f)
      PROVE  ExclusiveInv'
  <2>1. /\ UNCHANGED sess
        /\ pc[c] = "storing" /\ pc' \in {pc, [pc EXCEPT ![c] = "ended"]}
        /\ state' \in {state, [state EXCEPT ![sess[c]] = "complete"]}
    BY <1>0, <1>5 DEF Land
  <2> QED
    BY <1>0, <2>1
<1>6. ASSUME NEW c \in Starts, NEW t \in Task, ProviderStep(c, t)
      PROVE  ExclusiveInv'
  <2>1. UNCHANGED <<state, pc, sess>>
    BY <1>6 DEF ProviderStep, BeginProvider, ReportProgress, ProviderFails, ProviderSucceeds,
                Merge, sessionVars, callVars
  <2> QED
    BY <2>1
<1>7. CASE UNCHANGED vars
  BY <1>7 DEF vars, sessionVars, callVars
<1> QED
  BY <1>1, <1>2, <1>3, <1>4, <1>5, <1>6, <1>7 DEF Next, UserStep, RunStep

-----------------------------------------------------------------------------
(* What a session's fields hold                                            *)

Base == TypeOK /\ RunInv /\ ExclusiveInv

LEMMA BaseInvariance == ASSUME SerialStarts PROVE Spec => []Base
<1>1. TypeOK /\ ExclusiveInv /\ [Next]_vars => ExclusiveInv'
  BY StepExclusive
<1> QED
  BY <1>1, InitExclusive, RunInvariance, PTL DEF Spec, Base

\* What the scan goroutine has stored so far is the outcome of its run.
Storing(c) == pc[c] \in {"storing", "ended"}
StoreInv ==
    \A c \in Starts : Storing(c) =>
        /\ pc[c] = "ended" => pending[c] = {}
        /\ "completedAt" \notin pending[c] => completedAt[sess[c]]
        /\ "result" \notin pending[c] => result[sess[c]] = findings[c]
        /\ "errors" \notin pending[c] => errors[sess[c]] = errs[c]
        /\ "state" \notin pending[c] => state[sess[c]] = "complete"

\* A run that stores its outcome has no goroutine left that could take a step.
LEMMA StoredRunIsOver ==
    ASSUME Base, NEW c \in Starts, Storing(c), NEW t \in Task
    PROVE  ~ProviderStep(c, t)
BY DEF Base, TypeOK, RunInv, Storing, Collected, AllDone, ProviderStep, BeginProvider,
       ReportProgress, ProviderFails, ProviderSucceeds, Merge

\* Another start's session is another session.
LEMMA OtherSession ==
    ASSUME Base, NEW c \in Starts, NEW d \in Starts, c # d, Storing(c), Claims(d)
    PROVE  /\ sess[c] \in Sessions /\ sess[d] \in Sessions
           /\ sess[c] # sess[d]
           /\ state[sess[c]] \in {"scanning", "complete"}
BY DEF Base, ExclusiveInv, Claims, Accepted, Storing

LEMMA InitStore == Init => StoreInv
BY DEF Init, StoreInv, Storing

LEMMA StepStore == Base /\ StoreInv /\ [Next]_vars => StoreInv'
<1> SUFFICES ASSUME Base, StoreInv, [Next]_vars,
                    NEW c \in Starts, Storing(c)'
             PROVE  /\ pc'[c] = "ended" => pending'[c] = {}
                    /\ "completedAt" \notin pending'[c] => completedAt'[sess'[c]]
                    /\ "result" \notin pending'[c] => result'[sess'[c]] = findings'[c]
                    /\ "errors" \notin pending'[c] => errors'[sess'[c]] = errs'[c]
                    /\ "state" \notin pending'[c] => state'[sess'[c]] = "complete"
  BY DEF StoreInv
<1> DEFINE Goal == /\ pc'[c] = "ended" => pending'[c] = {}
                   /\ "completedAt" \notin pending'[c] => completedAt'[sess'[c]]
                   /\ "result" \notin pending'[c] => result'[sess'[c]] = findings'[c]
                   /\ "errors" \notin pending'[c] => errors'[sess'[c]] = errs'[c]
                   /\ "state" \notin pending'[c] => state'[sess'[c]] = "complete"
<1>0. /\ pc \in [Starts -> CallStages] /\ sess \in [Starts -> Sessions \cup {NoSession}]
      /\ pending \in [Starts -> SUBSET Fields]
      /\ findings \in [Starts -> SUBSET Task] /\ errs \in [Starts -> SUBSET Task]
  BY DEF Base, TypeOK
<1>00. /\ state \in [Sessions -> {"none", "created", "scanning", "complete"}]
       /\ completedAt \in [Sessions -> BOOLEAN]
       /\ result \in [Sessions -> SUBSET Task] /\ errors \in [Sessions -> SUBSET Task]
  BY DEF Base, TypeOK
<1>1. ASSUME NEW s \in Sessions, CloneSession(s) \/ \E f \in 0..MaxForest : Validate(s, f)
      PROVE  Goal
  <2>1. /\ UNCHANGED <<callVars, runVars, completedAt, result, errors>>
        /\ state[s] \in {"none", "created"}
        /\ state' = [state EXCEPT ![s] = "created"]
    BY <1>00, <1>1 DEF CloneSession, Validate, Minted
  <2>2. Storing(c) /\ sess[c] # s
    BY <2>1 DEF callVars, Storing, Base, ExclusiveInv, Accepted
  <2> QED
    BY <1>0, <1>00, <2>1, <2>2 DEF callVars, runVars, StoreInv
<1>2. ASSUME NEW d \in Starts, NEW s \in Sessions, NEW req \in Requests, CheckState(d, s, req)
      PROVE  Goal
  <2>1. Storing(c) /\ d # c
    BY <1>0, <1>2 DEF CheckState, Storing
  <2> QED
    BY <1>0, <1>2, <2>1 DEF CheckState, sessionVars, runVars, StoreInv
<1>3. ASSUME NEW d \in Starts, Accept(d)
      PROVE  Goal
  <2>1. Storing(c) /\ d # c
    BY <1>0, <1>3 DEF Accept, Storing
  <2>2. sess[c] # sess[d]
    BY <1>3, <2>1, OtherSession DEF Accept, Claims
  <2> QED
    BY <1>0, <1>00, <1>3, <2>1, <2>2 DEF Accept, runVars, StoreInv
<1>4. ASSUME NEW d \in Starts, Dispatch(d) \/ Collect(d)
      PROVE  Goal
  <2>1. Storing(c) /\ d # c
    BY <1>0, <1>4 DEF Dispatch, Collect, Storing
  <2> QED
    BY <1>0, <1>4, <2>1 DEF Dispatch, Collect, sessionVars, runVars, StoreInv
<1>5. ASSUME NEW d \in Starts, CloseBroker(d)
      PROVE  Goal
  <2>1. CASE d = c
    <3>1. pc'[c] = "storing" /\ pending'[c] = Fields
      BY <1>0, <1>5, <2>1 DEF CloseBroker
    <3> QED
      BY <3>1 DEF Fields
  <2>2. CASE d # c
    BY <1>0, <1>5, <2>2 DEF CloseBroker, Storing, StoreInv
  <2> QED
    BY <2>1, <2>2
<1>6. ASSUME NEW d \in Starts, NEW f \in Fields, Land(d, f)
      PROVE  Goal
  <2>0. Storing(c) /\ Storing(d) /\ Claims(d)
    BY <1>0, <1>6 DEF Land, Storing, Claims, Accepted
  <2>00. sess[c] \in Sessions
    BY <1>0, <2>0 DEF Base, ExclusiveInv, Storing
  <2>1. CASE d = c
    BY <1>0, <1>00, <1>6, <2>0, <2>00, <2>1 DEF Land, StoreInv, Fields
  <2>2. CASE d # c
    <3>1. sess[c] # sess[d]
      BY <2>0, <2>2, OtherSession
    <3> QED
      BY <1>0, <1>00, <1>6, <2>0, <2>00, <2>2, <3>1 DEF Land, StoreInv
  <2> QED
    BY <2>1, <2>2
<1>7. ASSUME NEW d \in Starts, NEW t \in Task, ProviderStep(d, t)
      PROVE  Goal
  <2>1. UNCHANGED <<state, completedAt, result, errors, pc, sess, pending>>
    BY <1>7 DEF ProviderStep, BeginProvider, ReportProgress, ProviderFails, ProviderSucceeds,
                Merge, sessionVars, callVars
  <2>2. Storing(c)
    BY <2>1 DEF Storing
  <2>3. d # c
    BY <1>7, <2>2, StoredRunIsOver
  <2>4. findings'[c] = findings[c] /\ errs'[c] = errs[c]
    BY <1>0, <1>7, <2>3 DEF ProviderStep, BeginProvider, ReportProgress, ProviderFails,
                ProviderSucceeds, Merge, Append
  <2> QED
    BY <2>1, <2>2, <2>4 DEF StoreInv
<1>8. CASE UNCHANGED vars
  BY <1>8 DEF vars, sessionVars, callVars, runVars, StoreInv, Storing
<1> QED
  BY <1>1, <1>2, <1>3, <1>4, <1>5, <1>6, <1>7, <1>8 DEF Next, UserStep, RunStep

LEMMA StoreInvariance == ASSUME SerialStarts PROVE Spec => [](Base /\ StoreInv)
BY BaseInvariance, InitStore, StepStore, PTL DEF Spec

(* What the results handler serves once the scan goroutine has ended is the
   whole outcome of that run, although its stores and the handlers of other
   sessions interleave in any way.                                          *)
THEOREM WholeReport == ASSUME SerialStarts PROVE Spec => []ReportIsWhole
<1>1. Base /\ StoreInv => ReportIsWhole
  BY DEF Base, RunInv, StoreInv, Storing, ReportIsWhole, Collected, AllDone, Merged, TypeOK
<1> QED
  BY <1>1, StoreInvariance, PTL
-----------------------------------------------------------------------------
(* Nothing changes after the end                                           *)

\* The fields of session s that the handlers serve.
Served(s) == <<state[s], completedAt[s], result[s], errors[s], progress[s], events[s]>>

\* No step writes to a session whose scan goroutine has ended.
LEMMA StepSettled ==
    ASSUME Base, [Next]_vars, NEW s \in Sessions, Settled(s)
    PROVE  UNCHANGED Served(s)
<1> USE DEF Served
<1>0. PICK c \in Starts : sess[c] = s /\ pc[c] = "ended"
  BY DEF Settled
<1>1. /\ Storing(c) /\ Claims(c) /\ Collected(c)
      /\ state[s] \in {"scanning", "complete"}
      /\ \A d \in Starts : d # c /\ Claims(d) => sess[d] # s
  BY <1>0 DEF Storing, Claims, Accepted, Collected, Base, ExclusiveInv
<1>2. ASSUME NEW r \in Sessions, CloneSession(r) \/ \E f \in 0..MaxForest : Validate(r, f)
      PROVE  UNCHANGED Served(s)
  <2>1. /\ UNCHANGED <<completedAt, result, errors, progress, events>>
        /\ state[r] \in {"none", "created"}
        /\ state' = [state EXCEPT ![r] = "created"]
    BY <1>2 DEF CloneSession, Validate, Minted, Base, TypeOK
  <2> QED
    BY <1>1, <2>1 DEF Base, TypeOK
<1>3. ASSUME NEW d \in Starts, NEW r \in Sessions, NEW req \in Requests, CheckState(d, r, req)
      PROVE  UNCHANGED Served(s)
  BY <1>3 DEF CheckState, sessionVars
<1>4. ASSUME NEW d \in Starts, Accept(d)
      PROVE  UNCHANGED Served(s)
  <2>1. sess[d] # s
    BY <1>0, <1>1, <1>4 DEF Accept, Claims
  <2> QED
    BY <1>4, <2>1 DEF Accept, Base, TypeOK
<1>5. ASSUME NEW d \in Starts, Dispatch(d)
      PROVE  UNCHANGED Served(s)
  BY <1>5 DEF Dispatch, sessionVars
<1>6. ASSUME NEW d \in Starts, Collect(d)
      PROVE  UNCHANGED Served(s)
  <2>1. sess[d] # s
    BY <1>0, <1>1, <1>6 DEF Collect, Claims, Accepted
  <2> QED
    BY <1>6, <2>1 DEF Collect, Publish, Base, TypeOK
<1>7. ASSUME NEW d \in Starts, CloseBroker(d)
      PROVE  UNCHANGED Served(s)
  BY <1>7 DEF CloseBroker
<1>8. ASSUME NEW d \in Starts, NEW f \in Fields, Land(d, f)
      PROVE  UNCHANGED Served(s)
  <2>1. sess[d] # s
    BY <1>0, <1>1, <1>8 DEF Land, Claims, Accepted
  <2> QED
    BY <1>8, <2>1 DEF Land, Base, TypeOK
<1>9. ASSUME NEW d \in Starts, NEW t \in Task, ProviderStep(d, t)
      PROVE  UNCHANGED Served(s)
  <2>1. d # c
    BY <1>1, <1>9, StoredRunIsOver
  <2>2. task[d][t] # "absent"
    BY <1>9 DEF ProviderStep, BeginProvider, ReportProgress, ProviderFails, ProviderSucceeds, Merge
  <2>3. Claims(d)
    BY <2>2 DEF Base, RunInv, TypeOK, Claims, Accepted, CallStages
  <2>4. sess[d] # s
    BY <1>1, <2>1, <2>3
  <2>5. UNCHANGED <<state, completedAt, result, errors>>
    BY <1>9 DEF ProviderStep, BeginProvider, ReportProgress, ProviderFails, ProviderSucceeds,
                Merge, sessionVars
  <2>6. progress'[s] = progress[s]
    BY <1>9, <2>4 DEF ProviderStep, BeginProvider, ReportProgress, ProviderFails,
                ProviderSucceeds, Merge, sessionVars, UpdateProgress, Base, TypeOK
  <2>7. events'[s] = events[s]
    BY <1>9, <2>4 DEF ProviderStep, BeginProvider, ReportProgress, ProviderFails,
                ProviderSucceeds, Merge, sessionVars, Publish, Base, TypeOK
  <2> QED
    BY <2>5, <2>6, <2>7
<1>10. CASE UNCHANGED vars
  BY <1>10 DEF vars, sessionVars
<1> QED
  BY <1>2, <1>3, <1>4, <1>5, <1>6, <1>7, <1>8, <1>9, <1>10 DEF Next, UserStep, RunStep

(* What the handlers serve for a finished session never changes again,
   whatever other sessions and late callers do.                             *)
THEOREM FinishedSessionsFrozen == ASSUME SerialStarts PROVE Spec => SettledFrozen
<1>1. Base /\ [Next]_vars =>
         [\A s \in Sessions : Settled(s) =>
             UNCHANGED <<state[s], completedAt[s], result[s], errors[s], progress[s], events[s]>>]_vars
  BY StepSettled DEF Served
<1> QED
  BY <1>1, BaseInvariance, PTL DEF Spec, SettledFrozen

-----------------------------------------------------------------------------
(***************************************************************************)
(* What the browser is told while a scan runs: the event stream of the     *)
(* session's broker, and the progress entries its goroutines overwrite for *)
(* each other. Both are shared by the tasks of one run, and only the       *)
(* session's belonging to one start (Base) keeps other runs out.           *)
(***************************************************************************)

\* The stages of a goroutine, from the start of Scan and from its return.
Begun(c, t) == task[c][t] \in {"scanning", "failed", "succeeded", "merged"}
Returned(c, t) == task[c][t] \in {"failed", "succeeded", "merged"}

\* Scan returned an error, whether or not Run has counted it yet.
Failed(c, t) == task[c][t] = "failed" \/ t \in errs[c]

\* A goroutine that runs belongs to an accepted start that still collects.
LEMMA RunningTask ==
    ASSUME Base, NEW c \in Starts, NEW t \in Task, ProviderStep(c, t)
    PROVE  /\ Claims(c) /\ ~Storing(c) /\ ~Collected(c)
           /\ sess[c] \in Sessions
           /\ t \in dispatched[c]
<1>1. task[c][t] \notin {"absent", "merged"}
  BY DEF ProviderStep, BeginProvider, ReportProgress, ProviderFails, ProviderSucceeds, Merge
<1>2. t \in dispatched[c] /\ ~Collected(c)
  BY <1>1 DEF Base, RunInv, AllDone
<1>3. pc[c] \notin {"idle", "checked", "rejected", "accepted"}
  BY <1>2 DEF Base, RunInv
<1> QED
  BY <1>2, <1>3 DEF Base, ExclusiveInv, Claims, Accepted, Storing, Collected

\* Two starts that have claimed a session are the same start.
LEMMA OneClaim ==
    ASSUME Base, NEW c \in Starts, NEW d \in Starts, Claims(c), Claims(d), sess[c] = sess[d]
    PROVE  c = d
BY DEF Base, ExclusiveInv
-----------------------------------------------------------------------------
(* The broker is closed by its own run only                                *)

ClosedInv ==
    \A s \in Sessions : closed[s] => \E c \in Starts : Storing(c) /\ sess[c] = s

LEMMA StepClosed == Base /\ ClosedInv /\ [Next]_vars => ClosedInv'
<1> SUFFICES ASSUME Base, ClosedInv, [Next]_vars
             PROVE  ClosedInv'
  OBVIOUS
<1> USE DEF ClosedInv
<1>0. /\ pc \in [Starts -> CallStages] /\ sess \in [Starts -> Sessions \cup {NoSession}]
      /\ closed \in [Sessions -> BOOLEAN]
  BY DEF Base, TypeOK
<1>1. \A c \in Starts : Storing(c) => Storing(c)' /\ sess'[c] = sess[c]
  <2> TAKE c \in Starts
  <2> HAVE Storing(c)
  <2> USE DEF Storing
  <2>1. CASE UserStep
    BY <1>0, <2>1 DEF UserStep, Validate, CloneSession, CheckState, callVars
  <2>2. ASSUME NEW d \in Starts, NEW t \in Task, ProviderStep(d, t)
        PROVE  Storing(c)' /\ sess'[c] = sess[c]
    BY <2>2 DEF ProviderStep, BeginProvider, ReportProgress, ProviderFails, ProviderSucceeds,
                Merge, callVars
  <2>3. ASSUME NEW d \in Starts, RunStep(d)
        PROVE  Storing(c)' /\ sess'[c] = sess[c]
    BY <1>0, <2>3 DEF RunStep, Accept, Dispatch, Collect, CloseBroker, Land
  <2>4. CASE UNCHANGED vars
    BY <2>4 DEF vars, callVars
  <2> QED
    BY <2>1, <2>2, <2>3, <2>4 DEF Next
<1>2. CASE UNCHANGED closed
  BY <1>1, <1>2
<1>3. ASSUME NEW c \in Starts, CloseBroker(c)
      PROVE  ClosedInv'
  <2>1. /\ closed' = [closed EXCEPT ![sess[c]] = TRUE]
        /\ Storing(c)' /\ sess'[c] = sess[c]
    BY <1>0, <1>3 DEF CloseBroker, Storing
  <2> QED
    BY <1>0, <1>1, <2>1
<1>4. (\E c \in Starts : CloseBroker(c)) \/ UNCHANGED closed
  BY ZenonT(60) DEF Next, UserStep, Validate, CloneSession, CheckState, ProviderStep, BeginProvider,
         ReportProgress, ProviderFails, ProviderSucceeds, Merge, RunStep, Accept, Dispatch,
         Collect, Land, vars, sessionVars
<1> QED
  BY <1>2, <1>3, <1>4

\* While a run still has something to publish, its broker is open.
LEMMA BrokerOpen ==
    ASSUME Base, ClosedInv, NEW c \in Starts, Claims(c), ~Storing(c)
    PROVE  ~closed[sess[c]]
<1>1. sess[c] \in Sessions
  BY DEF Base, ExclusiveInv, Claims, Accepted
<1>2. ASSUME NEW d \in Starts, Storing(d), sess[d] = sess[c]
      PROVE  FALSE
  BY <1>2, OneClaim DEF Storing, Claims, Accepted
<1> QED
  BY <1>1, <1>2 DEF ClosedInv
-----------------------------------------------------------------------------
(* The event stream                                                        *)

\* The events of task t of run c that its session's stream must hold.
StreamOf(c, t) ==
    /\ Begun(c, t) => <<"provider_start", c, t>> \in events[sess[c]]
    /\ Returned(c, t) => <<"provider_complete", c, t>> \in events[sess[c]]
    /\ Failed(c, t) => <<"error", c, t>> \in events[sess[c]]

EventInv ==
    \A c \in Starts :
        /\ \A t \in Task : StreamOf(c, t)
        /\ \A s \in Sessions, t \in Task : <<"error", c, t>> \in events[s] => Failed(c, t)
        /\ Collected(c) => <<"scan_complete", c>> \in events[sess[c]]

\* What a step of goroutine t of run c does to the stream: the stage it leaves
\* and the one it reaches, and the events it adds.
Effect(c, t, from, to, E) ==
    /\ task[c][t] = from /\ task' = [task EXCEPT ![c][t] = to]
    /\ events' = [events EXCEPT ![sess[c]] = @ \cup E]
    /\ errs' = IF from = "failed" THEN [errs EXCEPT ![c] = @ \cup {t}] ELSE errs
    /\ UNCHANGED <<pc, sess>>

TaskEffect(c, t, from, to, E) ==
    /\ Effect(c, t, from, to, E)
    /\ \/ from = "spawned" /\ to = "scanning" /\ E = {<<"provider_start", c, t>>}
       \/ from = "scanning" /\ to = "scanning" /\ E = {<<"resource_progress", c, t>>}
       \/ from = "scanning" /\ to = "failed" /\ E = {<<"error", c, t>>, <<"provider_complete", c, t>>}
       \/ from = "scanning" /\ to = "succeeded" /\ E = {<<"provider_complete", c, t>>}
       \/ from \in {"failed", "succeeded"} /\ to = "merged" /\ E = {}

LEMMA TaskStepEvents ==
    ASSUME Base, ClosedInv, NEW c \in Starts, NEW t \in Task, ProviderStep(c, t)
    PROVE  \E from, to, E : TaskEffect(c, t, from, to, E)
<1>0. /\ task \in [Starts -> [Task -> TaskStages]] /\ events \in [Sessions -> SUBSET Event]
      /\ errs \in [Starts -> SUBSET Task]
  BY DEF Base, TypeOK
<1>1. ~closed[sess[c]]
  BY RunningTask, BrokerOpen
<1>2. CASE BeginProvider(c, t)
  <2>1. TaskEffect(c, t, "spawned", "scanning", {<<"provider_start", c, t>>})
    BY <1>1, <1>2 DEF BeginProvider, Publish, callVars, TaskEffect, Effect
  <2> QED
    BY <2>1
<1>3. CASE ReportProgress(c, t)
  <2>1. task' = [task EXCEPT ![c][t] = "scanning"]
    BY <1>0, <1>3 DEF ReportProgress
  <2>2. TaskEffect(c, t, "scanning", "scanning", {<<"resource_progress", c, t>>})
    BY <1>1, <1>3, <2>1 DEF ReportProgress, Publish, callVars, TaskEffect, Effect
  <2> QED
    BY <2>2
<1>4. CASE ProviderFails(c, t)
  <2>1. TaskEffect(c, t, "scanning", "failed", {<<"error", c, t>>, <<"provider_complete", c, t>>})
    BY <1>1, <1>4 DEF ProviderFails, Publish, callVars, TaskEffect, Effect
  <2> QED
    BY <2>1
<1>5. CASE ProviderSucceeds(c, t)
  <2>1. TaskEffect(c, t, "scanning", "succeeded", {<<"provider_complete", c, t>>})
    BY <1>1, <1>5 DEF ProviderSucceeds, Publish, callVars, TaskEffect, Effect
  <2> QED
    BY <2>1
<1>6. CASE Merge(c, t)
  <2>1. events' = [events EXCEPT ![sess[c]] = @ \cup {}]
    BY <1>0, <1>6 DEF Merge, sessionVars
  <2>2. TaskEffect(c, t, task[c][t], "merged", {})
    BY <1>6, <2>1 DEF Merge, Append, callVars, TaskEffect, Effect
  <2> QED
    BY <2>2
<1> QED
  BY <1>2, <1>3, <1>4, <1>5, <1>6 DEF ProviderStep

\* What the stream holds of a task stays there while the task does not move.
LEMMA StreamKept ==
    ASSUME Base, NEW c \in Starts, NEW t \in Task, StreamOf(c, t),
           \A s \in Sessions : events[s] \subseteq events'[s],
           sess'[c] = sess[c], task'[c][t] = task[c][t], Failed(c, t)' <=> Failed(c, t)
    PROVE  StreamOf(c, t)'
<1>1. sess[c] \in Sessions \/ (task[c][t] = "absent" /\ ~Failed(c, t))
  <2>1. CASE pc[c] = "idle"
    <3>1. t \notin dispatched[c]
      BY <2>1 DEF Base, RunInv
    <3> QED
      BY <3>1 DEF Base, RunInv, Merged, Failed
  <2>2. CASE pc[c] # "idle"
    BY <2>2 DEF Base, ExclusiveInv
  <2> QED
    BY <2>1, <2>2
<1> QED
  BY <1>1 DEF StreamOf, Begun, Returned

LEMMA StepEvents == Base /\ Base' /\ ClosedInv /\ EventInv /\ [Next]_vars => EventInv'
<1> SUFFICES ASSUME Base, Base', ClosedInv, EventInv, [Next]_vars
             PROVE  EventInv'
  OBVIOUS
<1> USE DEF EventInv, StreamOf, Begun, Returned, Failed
<1>0. /\ task \in [Starts -> [Task -> TaskStages]] /\ events \in [Sessions -> SUBSET Event]
      /\ errs \in [Starts -> SUBSET Task] /\ pc \in [Starts -> CallStages]
      /\ sess \in [Starts -> Sessions \cup {NoSession}]
  BY DEF Base, TypeOK
<1>1. ASSUME NEW s \in Sessions, CloneSession(s) \/ \E f \in 0..MaxForest : Validate(s, f)
      PROVE  EventInv'
  BY <1>1 DEF CloneSession, Validate, callVars, runVars, Collected
<1>2. ASSUME NEW c \in Starts, NEW s \in Sessions, NEW req \in Requests, CheckState(c, s, req)
      PROVE  EventInv'
  <2>0. dispatched[c] = {}
    BY <1>2 DEF CheckState, Base, RunInv
  <2>1. /\ \A t \in Task : task[c][t] = "absent"
        /\ errs[c] = {}
    BY <2>0 DEF Base, RunInv, Merged
  <2> QED
    BY <1>0, <1>2, <2>1, ZenonT(60) DEF CheckState, sessionVars, runVars, Collected
<1>3. ASSUME NEW c \in Starts, Accept(c) \/ CloseBroker(c) \/ \E f \in Fields : Land(c, f)
      PROVE  EventInv'
  <2>1. /\ UNCHANGED <<task, errs, events, sess>>
        /\ \A d \in Starts : Collected(d)' => Collected(d)
    BY <1>0, <1>3 DEF Accept, CloseBroker, Land, runVars, Collected
  <2> QED
    BY <2>1
<1>4. ASSUME NEW c \in Starts, Dispatch(c)
      PROVE  EventInv'
  <2>1. /\ UNCHANGED <<errs, events, sess>>
        /\ \A d \in Starts : Collected(d)' => Collected(d)
        /\ \A d \in Starts, t \in Task : \/ task'[d][t] = task[d][t]
                                         \/ d = c /\ task'[d][t] \in {"spawned", "absent"}
    BY <1>0, <1>4 DEF Dispatch, sessionVars, Collected
  <2>2. \A t \in Task : task[c][t] = "absent"
    BY <1>0, <1>4 DEF Dispatch, Base, RunInv
  <2> QED
    BY <1>0, <2>1, <2>2
<1>5. ASSUME NEW c \in Starts, Collect(c)
      PROVE  EventInv'
  <2>1. Claims(c) /\ ~Storing(c) /\ sess[c] \in Sessions
    BY <1>5 DEF Collect, Claims, Accepted, Storing, Base, ExclusiveInv
  <2>2. events' = [events EXCEPT ![sess[c]] = @ \cup {<<"scan_complete", c>>}]
    BY <1>5, <2>1, BrokerOpen DEF Collect, Publish
  <2>3. /\ UNCHANGED <<task, errs, sess>>
        /\ \A d \in Starts : Collected(d)' => d = c \/ Collected(d)
    BY <1>0, <1>5 DEF Collect, runVars, Collected
  <2>4. \A s \in Sessions : /\ events[s] \subseteq events'[s]
                            /\ events'[s] \subseteq events[s] \cup {<<"scan_complete", c>>}
    BY <1>0, <2>2
  <2>6. \A d \in Starts, t \in Task : <<"error", d, t>> # <<"scan_complete", c>>
    OBVIOUS
  <2>7. \A d \in Starts : Collected(d) => sess[d] \in Sessions
    BY DEF Base, ExclusiveInv, Collected
  <2>8. \A d \in Starts : Collected(d)' => <<"scan_complete", d>> \in events'[sess'[d]]
    BY <1>0, <2>1, <2>2, <2>3, <2>4, <2>7
  <2>9. \A d \in Starts, t \in Task : StreamOf(d, t)'
    <3> HIDE DEF StreamOf
    <3> QED
      BY <2>3, <2>4, StreamKept
  <2>10. \A d \in Starts, s \in Sessions, t \in Task :
            <<"error", d, t>> \in events'[s] => Failed(d, t)'
    BY <2>3, <2>4, <2>6
  <2> QED
    BY <2>8, <2>9, <2>10
<1>6. ASSUME NEW c \in Starts, NEW u \in Task, ProviderStep(c, u)
      PROVE  EventInv'
  <2>0. sess[c] \in Sessions
    BY <1>6, RunningTask
  <2>1. PICK from, stage, E : TaskEffect(c, u, from, stage, E)
    BY <1>6, TaskStepEvents
  <2> USE DEF TaskEffect, Effect
  <2>2. \A s \in Sessions : events[s] \subseteq events'[s]
    BY <1>0, <2>1
  <2>3. \A s \in Sessions, d \in Starts, t \in Task :
           <<"error", d, t>> \in events'[s] =>
              \/ <<"error", d, t>> \in events[s]
              \/ d = c /\ t = u /\ stage = "failed"
    BY <1>0, <2>1
  <2>4. E \subseteq events'[sess[c]]
    BY <1>0, <2>0, <2>1
  <2>5. \A d \in Starts, t \in Task :
           IF d = c /\ t = u THEN task'[d][t] = stage ELSE task'[d][t] = task[d][t]
    BY <1>0, <2>1
  <2>6. \A d \in Starts, t \in Task :
           IF d = c /\ t = u THEN Failed(d, t)' <=> Failed(d, t) \/ stage = "failed"
           ELSE Failed(d, t)' <=> Failed(d, t)
    <3>1. task[c][u] # "merged"
      BY <2>1
    <3> QED
      BY <1>0, <2>1, <2>5
  <2>8. StreamOf(c, u)'
    <3>1. /\ stage = "scanning" => task[c][u] = "scanning" \/ <<"provider_start", c, u>> \in E
          /\ stage \in {"failed", "succeeded"} => task[c][u] = "scanning" /\ <<"provider_complete", c, u>> \in E
          /\ stage = "failed" => <<"error", c, u>> \in E
          /\ stage = "merged" => task[c][u] \in {"failed", "succeeded"}
          /\ stage \in {"scanning", "failed", "succeeded", "merged"}
      BY <2>1
    <3> HIDE DEF EventInv, StreamOf, Failed
    <3>2. StreamOf(c, u)
      BY DEF EventInv
    <3>3. task'[c][u] = stage /\ sess'[c] = sess[c] /\ (Failed(c, u)' <=> Failed(c, u) \/ stage = "failed")
      BY <2>1, <2>5, <2>6
    <3> QED
      BY <2>0, <2>2, <2>4, <3>1, <3>2, <3>3 DEF StreamOf
  <2>9. \A d \in Starts, t \in Task : StreamOf(d, t)'
    <3> SUFFICES ASSUME NEW d \in Starts, NEW t \in Task, ~(d = c /\ t = u)
                 PROVE  StreamOf(d, t)'
      BY <2>8
    <3> HIDE DEF EventInv, StreamOf, Failed
    <3>1. StreamOf(d, t)
      BY DEF EventInv
    <3>2. task'[d][t] = task[d][t] /\ sess'[d] = sess[d] /\ (Failed(d, t)' <=> Failed(d, t))
      BY <2>1, <2>5, <2>6
    <3> QED
      BY <2>2, <3>1, <3>2, StreamKept
  <2>10. \A d \in Starts, s \in Sessions, t \in Task :
            <<"error", d, t>> \in events'[s] => Failed(d, t)'
    <3> HIDE DEF StreamOf, Failed
    <3> QED
      BY <2>3, <2>6
  <2>11. \A d \in Starts : Collected(d)' => <<"scan_complete", d>> \in events'[sess'[d]]
    <3>1. \A d \in Starts : Collected(d) => sess[d] \in Sessions
      BY DEF Base, ExclusiveInv, Collected
    <3>2. \A d \in Starts : Collected(d)' = Collected(d) /\ sess'[d] = sess[d]
      BY <2>1 DEF Collected
    <3> QED
      BY <2>2, <3>1, <3>2
  <2> QED
    BY <2>9, <2>10, <2>11
<1>7. CASE UNCHANGED vars
  BY <1>7 DEF vars, sessionVars, callVars, runVars, Collected
<1> QED
  BY <1>1, <1>2, <1>3, <1>4, <1>5, <1>6, <1>7 DEF Next, UserStep, RunStep

LEMMA EventInvariance == ASSUME SerialStarts PROVE Spec => [](Base /\ ClosedInv /\ EventInv)
<1>1. Init => ClosedInv /\ EventInv
  BY DEF Init, ClosedInv, EventInv, StreamOf, Begun, Returned, Failed, Collected
<1> QED
  BY <1>1, BaseInvariance, StepClosed, StepEvents, PTL DEF Spec

(* The stream of a session whose broker has been closed tells the whole scan,
   for any number of providers and forests and whatever the other sessions'
   scans publish: no event of a goroutine is dropped by the Close.          *)
THEOREM WholeEventStream == ASSUME SerialStarts PROVE Spec => []EventStreamWhole
<1>1. Base /\ EventInv => EventStreamWhole
  <2> SUFFICES ASSUME Base, EventInv, NEW c \in Starts, pc[c] \in {"storing", "ended"}
               PROVE  /\ <<"scan_complete", c>> \in events[sess[c]]
                      /\ \A t \in dispatched[c] :
                            /\ <<"provider_start", c, t>> \in events[sess[c]]
                            /\ <<"provider_complete", c, t>> \in events[sess[c]]
                            /\ <<"error", c, t>> \in events[sess[c]] <=> t \in errs[c]
    BY DEF EventStreamWhole
  <2>1. Collected(c) /\ sess[c] \in Sessions
    BY DEF Collected, Base, ExclusiveInv
  <2>2. \A t \in dispatched[c] : t \in Task /\ task[c][t] = "merged"
    BY <2>1 DEF Base, TypeOK, RunInv, AllDone
  <2> QED
    BY <2>1, <2>2 DEF EventInv, StreamOf, Begun, Returned, Failed
<1> QED
  BY <1>1, EventInvariance, PTL
-----------------------------------------------------------------------------
(* The progress entries                                                    *)

TasksOf(c, p) == {t \in dispatched[c] : ProviderOf(t) = p}

\* The entry is what the last of the provider's goroutines to return wrote.
FinalEntry(c, p) ==
    LET entry == progress[sess[c]][p]
    IN  /\ entry.percent = 100
        /\ \E t \in TasksOf(c, p) : entry.status = IF Failed(c, t) THEN "error" ELSE "complete"

\* Once all of a provider's goroutines have returned, its entry is final: the
\* goroutine that returned last wrote last.
ProgressInv ==
    \A c \in Starts, p \in Providers :
        TasksOf(c, p) # {} /\ (\A t \in TasksOf(c, p) : Returned(c, t)) => FinalEntry(c, p)

LEMMA StepProgress == Base /\ Base' /\ ProgressInv /\ [Next]_vars => ProgressInv'
<1> SUFFICES ASSUME Base, Base', ProgressInv, [Next]_vars,
                    NEW c \in Starts, NEW p \in Providers,
                    TasksOf(c, p)' # {}, \A t \in TasksOf(c, p)' : Returned(c, t)'
             PROVE  FinalEntry(c, p)'
  BY DEF ProgressInv
<1> USE DEF TasksOf
<1>0. /\ task \in [Starts -> [Task -> TaskStages]] /\ errs \in [Starts -> SUBSET Task]
      /\ progress \in [Sessions -> [Providers -> Entry]] /\ dispatched \in [Starts -> SUBSET Task]
      /\ pc \in [Starts -> CallStages] /\ sess \in [Starts -> Sessions \cup {NoSession}]
  BY DEF Base, TypeOK
<1>1. ASSUME UNCHANGED <<dispatched, task, errs, progress, sess>>
      PROVE  FinalEntry(c, p)'
  BY <1>1 DEF ProgressInv, FinalEntry, Returned, Failed
<1>2. ASSUME NEW s \in Sessions, CloneSession(s) \/ \E f \in 0..MaxForest : Validate(s, f)
      PROVE  FinalEntry(c, p)'
  BY <1>1, <1>2 DEF CloneSession, Validate, callVars, runVars
<1>3. ASSUME NEW d \in Starts, NEW s \in Sessions, NEW req \in Requests, CheckState(d, s, req)
      PROVE  FinalEntry(c, p)'
  <2>1. d # c
    <3>1. ASSUME d = c PROVE dispatched'[c] = {}
      BY <1>3, <3>1 DEF CheckState, runVars, Base, RunInv
    <3> QED
      BY <3>1
  <2>2. UNCHANGED <<dispatched, task, errs, progress>> /\ sess'[c] = sess[c]
    BY <1>0, <1>3, <2>1 DEF CheckState, sessionVars, runVars
  <2> QED
    BY <2>2 DEF ProgressInv, FinalEntry, Returned, Failed
<1>4. ASSUME NEW d \in Starts,
             Accept(d) \/ Collect(d) \/ CloseBroker(d) \/ \E f \in Fields : Land(d, f)
      PROVE  FinalEntry(c, p)'
  BY <1>1, <1>4 DEF Accept, Collect, CloseBroker, Land, runVars
<1>5. ASSUME NEW d \in Starts, Dispatch(d)
      PROVE  FinalEntry(c, p)'
  <2>1. d # c
    BY <1>0, <1>5 DEF Dispatch, ExpandedTasks, Returned
  <2>2. /\ dispatched'[c] = dispatched[c] /\ task'[c] = task[c]
        /\ UNCHANGED <<errs, progress, sess>>
    BY <1>0, <1>5, <2>1 DEF Dispatch, sessionVars
  <2> QED
    BY <2>2 DEF ProgressInv, FinalEntry, Returned, Failed
<1>6. ASSUME NEW d \in Starts, NEW u \in Task, ProviderStep(d, u)
      PROVE  FinalEntry(c, p)'
  <2>0. /\ UNCHANGED <<dispatched, sess, pc>>
        /\ Claims(d) /\ sess[d] \in Sessions /\ u \in dispatched[d]
    BY <1>6, RunningTask DEF ProviderStep, BeginProvider, ReportProgress, ProviderFails,
                             ProviderSucceeds, Merge, callVars
  <2>1. Claims(c) /\ sess[c] \in Sessions
    <3>1. dispatched[c] # {}
      BY <2>0
    <3>2. pc[c] \notin {"idle", "checked", "rejected", "accepted"}
      BY <3>1 DEF Base, RunInv
    <3> QED
      BY <3>2 DEF Base, ExclusiveInv, Claims, Accepted
  <2>2. CASE d # c
    <3>1. sess[d] # sess[c]
      BY <2>0, <2>1, <2>2, OneClaim
    <3>2. task'[c] = task[c] /\ errs'[c] = errs[c]
      BY <1>0, <1>6, <2>2 DEF ProviderStep, BeginProvider, ReportProgress, ProviderFails,
                              ProviderSucceeds, Merge, Append
    <3>3. progress'[sess[c]] = progress[sess[c]]
      BY <1>0, <1>6, <2>1, <3>1 DEF ProviderStep, BeginProvider, ReportProgress, ProviderFails,
                              ProviderSucceeds, Merge, UpdateProgress, sessionVars
    <3> QED
      BY <2>0, <3>2, <3>3 DEF ProgressInv, FinalEntry, Returned, Failed
  <2>3. CASE d = c /\ ProviderOf(u) # p
    <3>1. \A t \in TasksOf(c, p) : task'[c][t] = task[c][t] /\ (Failed(c, t)' <=> Failed(c, t))
      BY <1>0, <1>6, <2>3 DEF ProviderStep, BeginProvider, ReportProgress, ProviderFails,
                              ProviderSucceeds, Merge, Append, Failed
    <3>2. progress'[sess[c]][p] = progress[sess[c]][p]
      BY <1>0, <1>6, <2>1, <2>3, TaskFacts DEF ProviderStep, BeginProvider, ReportProgress,
                              ProviderFails, ProviderSucceeds, Merge, UpdateProgress, sessionVars
    <3> QED
      BY <2>0, <3>1, <3>2 DEF ProgressInv, FinalEntry, Returned
  <2>4. CASE d = c /\ ProviderOf(u) = p
    <3>0. u \in TasksOf(c, p)
      BY <2>0, <2>4
    <3>1. CASE BeginProvider(c, u) \/ ReportProgress(c, u)
      <4>1. task'[c][u] = "scanning"
        BY <1>0, <3>1 DEF BeginProvider, ReportProgress
      <4> QED
        BY <2>0, <3>0, <4>1 DEF Returned
    <3>2. CASE ProviderFails(c, u)
      <4>1. /\ progress'[sess[c]][p] = [status |-> "error", percent |-> 100]
            /\ Failed(c, u)'
        BY <1>0, <2>1, <2>4, <3>2 DEF ProviderFails, UpdateProgress, Failed
      <4> QED
        BY <2>0, <3>0, <4>1 DEF FinalEntry
    <3>3. CASE ProviderSucceeds(c, u)
      <4>1. /\ progress'[sess[c]][p] = [status |-> "complete", percent |-> 100]
            /\ task'[c][u] = "succeeded"
        BY <1>0, <2>1, <2>4, <3>3 DEF ProviderSucceeds, UpdateProgress
      <4>2. ~Failed(c, u)'
        BY <4>1 DEF Failed, Base, RunInv, Merged
      <4> QED
        BY <2>0, <3>0, <4>1, <4>2 DEF FinalEntry
    <3>4. CASE Merge(c, u)
      <4>1. \A t \in TasksOf(c, p) : /\ Returned(c, t)' => Returned(c, t)
                                     /\ Failed(c, t)' <=> Failed(c, t)
        BY <1>0, <3>4 DEF Merge, Append, Returned, Failed
      <4>2. progress' = progress
        BY <3>4 DEF Merge, sessionVars
      <4> QED
        BY <2>0, <4>1, <4>2 DEF ProgressInv, FinalEntry
    <3> QED
      BY <1>6, <2>4, <3>1, <3>2, <3>3, <3>4 DEF ProviderStep
  <2> QED
    BY <2>2, <2>3, <2>4
<1>7. CASE UNCHANGED vars
  BY <1>1, <1>7 DEF vars, sessionVars, callVars, runVars
<1> QED
  BY <1>2, <1>3, <1>4, <1>5, <1>6, <1>7 DEF Next, UserStep, RunStep

(* When the scan is over no provider is left shown as running, although the
   forests of AD share an entry and a late progress report of one forest can
   overwrite the final status of another: the last writer is a goroutine that
   has returned.                                                            *)
THEOREM ProvidersFinished == ASSUME SerialStarts PROVE Spec => []NoProviderLeftRunning
<1>1. Base /\ ProgressInv => NoProviderLeftRunning
  <2> SUFFICES ASSUME Base, ProgressInv, NEW c \in Starts, pc[c] = "ended",
                      NEW u \in dispatched[c]
               PROVE  /\ progress[sess[c]][ProviderOf(u)].percent = 100
                      /\ \E t \in dispatched[c] :
                            /\ ProviderOf(t) = ProviderOf(u)
                            /\ progress[sess[c]][ProviderOf(u)].status =
                                  IF t \in errs[c] THEN "error" ELSE "complete"
    BY DEF NoProviderLeftRunning
  <2>1. \A t \in dispatched[c] : t \in Task /\ task[c][t] = "merged"
    BY DEF Base, TypeOK, RunInv, Collected, AllDone
  <2>2. ProviderOf(u) \in Providers
    BY <2>1, TaskFacts
  <2>3. FinalEntry(c, ProviderOf(u))
    BY <2>1, <2>2 DEF ProgressInv, TasksOf, Returned
  <2> QED
    BY <2>1, <2>3 DEF FinalEntry, TasksOf, Failed
<1>2. Init => ProgressInv
  BY DEF Init, ProgressInv, TasksOf
<1> QED
  BY <1>1, <1>2, BaseInvariance, StepProgress, PTL DEF Spec

-----------------------------------------------------------------------------
(* The refinement of ScanService when starts are serialised: each step of  *)
(* the handlers and goroutines moves one session by one step of the        *)
(* service, or moves none.                                                 *)

Abstract(s) == <<PhaseOf(s), PlanOf(s), ReportOf(s)>>

\* Where the service sees the session of an accepted start.
PhaseOfRun(c) ==
    IF pc[c] = "ended" THEN "complete" ELSE IF pc[c] = "accepted" THEN "started" ELSE "running"

Seen(c) ==
    <<PhaseOfRun(c), dispatched[c],
      IF pc[c] = "ended" THEN [ok |-> result[sess[c]], failed |-> errors[sess[c]]] ELSE NoReport>>

\* A session that an accepted start scans is seen through that start alone.
LEMMA ScannedSession ==
    ASSUME Base, NEW c \in Starts, Accepted(c)
    PROVE  sess[c] \in Sessions /\ Abstract(sess[c]) = Seen(c)
<1>1. sess[c] \in Sessions
  BY DEF Base, ExclusiveInv, Accepted
<1>2. RunsOf(sess[c]) = {c}
  BY DEF RunsOf, Base, ExclusiveInv, Claims
<1>3. Settled(sess[c]) <=> pc[c] = "ended"
  BY <1>2 DEF RunsOf, Settled, Accepted
<1>4. PhaseOf(sess[c]) = PhaseOfRun(c)
  BY <1>2, <1>3 DEF PhaseOf, PhaseOfRun
<1>5. PlanOf(sess[c]) = dispatched[c]
  BY <1>2 DEF PlanOf
<1> QED
  BY <1>1, <1>3, <1>4, <1>5 DEF ReportOf, Abstract, Seen

LEMMA ScannedSessionNext ==
    ASSUME Base', NEW c \in Starts, Accepted(c)'
    PROVE  sess'[c] \in Sessions /\ Abstract(sess[c])' = Seen(c)'
<1>1. (sess[c] \in Sessions /\ Abstract(sess[c]) = Seen(c))'
  BY ScannedSession, PTL
<1> QED
  BY <1>1

\* A session nobody scans shows its State, and neither plan nor report.
LEMMA UnscannedSession ==
    ASSUME NEW s \in Sessions, \A c \in Starts : Accepted(c) => sess[c] # s
    PROVE  Abstract(s) = <<state[s], {}, NoReport>>
<1>1. RunsOf(s) = {} /\ ~Settled(s)
  BY DEF RunsOf, Settled, Accepted
<1> QED
  BY <1>1 DEF Abstract, PhaseOf, PlanOf, ReportOf

LEMMA UnscannedSessionNext ==
    ASSUME NEW s \in Sessions, \A c \in Starts : Accepted(c)' => sess'[c] # s
    PROVE  Abstract(s)' = <<state'[s], {}, NoReport>>
<1>1. (\A c \in Starts : Accepted(c) => sess[c] # s)'
  OBVIOUS
<1>2. (Abstract(s) = <<state[s], {}, NoReport>>)'
  BY <1>1, UnscannedSession, PTL
<1> QED
  BY <1>2

\* Sessions that a step leaves alone look the same to the service.
LEMMA UntouchedSession ==
    ASSUME Base, Base', NEW s \in Sessions,
           (\A c \in Starts : Accepted(c) => sess[c] # s) => state'[s] = state[s],
           \A c \in Starts : /\ Accepted(c)' /\ sess'[c] = s <=> Accepted(c) /\ sess[c] = s
                             /\ Accepted(c) /\ sess[c] = s => Seen(c)' = Seen(c)
    PROVE  Abstract(s)' = Abstract(s)
<1>1. CASE \E c \in Starts : Accepted(c) /\ sess[c] = s
  BY <1>1, ScannedSession, ScannedSessionNext
<1>2. CASE \A c \in Starts : Accepted(c) => sess[c] # s
  BY <1>2, UnscannedSession, UnscannedSessionNext
<1> QED
  BY <1>1, <1>2

LEMMA UntouchedRuns ==
    ASSUME Base, Base', NEW s \in Sessions, state'[s] = state[s],
           UNCHANGED <<pc, sess, dispatched, result, errors>>
    PROVE  Abstract(s)' = Abstract(s)
BY UntouchedSession DEF Accepted, Seen, PhaseOfRun

-----------------------------------------------------------------------------
(* Steps                                                                   *)

OpenSession(s) ==
    /\ Abstract(s) = <<"none", {}, NoReport>>
    /\ Abstract(s)' = <<"created", {}, NoReport>>

StartSession(s) ==
    /\ Abstract(s) = <<"created", {}, NoReport>>
    /\ Abstract(s)' = <<"started", {}, NoReport>>

PlanSession(s) ==
    /\ Abstract(s) = <<"started", {}, NoReport>>
    /\ \E tasks \in SUBSET Task : Abstract(s)' = <<"running", tasks, NoReport>>

DeliverSession(s) ==
    \E tasks \in SUBSET Task : \E ok \in SUBSET tasks :
        /\ Abstract(s) = <<"running", tasks, NoReport>>
        /\ Abstract(s)' = <<"complete", tasks, [ok |-> ok, failed |-> tasks \ ok]>>

\* What one session may do in a step of the service.
Moves(s) == OpenSession(s) \/ StartSession(s) \/ PlanSession(s) \/ DeliverSession(s)

\* Validate and CloneSession mint a session, or leave one as it is.
LEMMA MintStep ==
    ASSUME Base, Base', NEW s \in Sessions,
           CloneSession(s) \/ \E f \in 0..MaxForest : Validate(s, f)
    PROVE  \A r \in Sessions : Abstract(r)' = Abstract(r) \/ (r = s /\ Moves(s))
<1>0. /\ UNCHANGED <<pc, sess, dispatched, result, errors>>
      /\ state' = [state EXCEPT ![s] = "created"]
      /\ state[s] \in {"none", "created"}
      /\ state \in [Sessions -> {"none", "created", "scanning", "complete"}]
  BY DEF CloneSession, Validate, Minted, callVars, runVars, Base, TypeOK
<1>1. ASSUME NEW r \in Sessions, r # s \/ state[s] = "created"
      PROVE  Abstract(r)' = Abstract(r)
  <2>1. state'[r] = state[r]
    BY <1>0, <1>1
  <2> QED
    BY <1>0, <2>1, UntouchedRuns
<1>2. ASSUME state[s] = "none"
      PROVE  Moves(s)
  <2>1. \A c \in Starts : Accepted(c) => sess[c] # s
    BY <1>2 DEF Base, ExclusiveInv
  <2>2. Abstract(s) = <<"none", {}, NoReport>>
    BY <1>2, <2>1, UnscannedSession
  <2>3. Abstract(s)' = <<"created", {}, NoReport>>
    BY <1>0, <2>1, UnscannedSessionNext DEF Accepted
  <2> QED
    BY <2>2, <2>3 DEF Moves, OpenSession
<1> QED
  BY <1>0, <1>1, <1>2

\* Accept starts the scan of a session that no other start has claimed.
LEMMA AcceptStep ==
    ASSUME Base, Base', NEW c \in Starts, Accept(c)
    PROVE  /\ sess[c] \in Sessions
           /\ \A r \in Sessions : Abstract(r)' = Abstract(r) \/ (r = sess[c] /\ Moves(r))
<1>0. /\ UNCHANGED <<sess, dispatched, result, errors>>
      /\ pc[c] = "checked" /\ pc' = [pc EXCEPT ![c] = "accepted"]
      /\ state' = [state EXCEPT ![sess[c]] = "scanning"]
      /\ pc \in [Starts -> CallStages]
      /\ sess[c] \in Sessions /\ state[sess[c]] = "created" /\ dispatched[c] = {}
      /\ state \in [Sessions -> {"none", "created", "scanning", "complete"}]
  BY DEF Accept, runVars, Base, TypeOK, RunInv, ExclusiveInv
<1>1. ASSUME NEW r \in Sessions, r # sess[c]
      PROVE  Abstract(r)' = Abstract(r)
  <2>1. state'[r] = state[r]
    BY <1>0, <1>1
  <2>2. \A d \in Starts : /\ Accepted(d)' /\ sess'[d] = r <=> Accepted(d) /\ sess[d] = r
                          /\ sess[d] = r => pc'[d] = pc[d]
    BY <1>0, <1>1 DEF Accepted
  <2> QED
    BY <1>0, <2>1, <2>2, UntouchedSession DEF Seen, PhaseOfRun
<1>2. Moves(sess[c])
  <2>1. \A d \in Starts : Accepted(d) => sess[d] # sess[c]
    BY <1>0 DEF Base, ExclusiveInv, Claims, Accepted
  <2>2. Abstract(sess[c]) = <<"created", {}, NoReport>>
    BY <1>0, <2>1, UnscannedSession
  <2>3. Accepted(c)'
    BY <1>0 DEF Accepted
  <2>5. Abstract(sess[c])' = <<"started", {}, NoReport>>
    BY <1>0, <2>3, ScannedSessionNext DEF Seen, PhaseOfRun
  <2> QED
    BY <2>2, <2>5 DEF Moves, StartSession
<1> QED
  BY <1>0, <1>1, <1>2

\* Dispatch fixes the plan of its session.
LEMMA DispatchStep ==
    ASSUME Base, Base', NEW c \in Starts, Dispatch(c)
    PROVE  /\ sess[c] \in Sessions
           /\ \A r \in Sessions : Abstract(r)' = Abstract(r) \/ (r = sess[c] /\ Moves(r))
<1>0. /\ UNCHANGED <<state, sess, result, errors>>
      /\ pc[c] = "accepted" /\ pc' = [pc EXCEPT ![c] = "waiting"]
      /\ \A d \in Starts \ {c} : dispatched'[d] = dispatched[d]
      /\ pc \in [Starts -> CallStages]
      /\ sess[c] \in Sessions /\ dispatched[c] = {} /\ dispatched'[c] \in SUBSET Task
  BY DEF Dispatch, sessionVars, Base, TypeOK, RunInv, ExclusiveInv, Accepted
<1>1. ASSUME NEW r \in Sessions, r # sess[c]
      PROVE  Abstract(r)' = Abstract(r)
  <2>1. \A d \in Starts : /\ Accepted(d)' /\ sess'[d] = r <=> Accepted(d) /\ sess[d] = r
                          /\ sess[d] = r => pc'[d] = pc[d] /\ dispatched'[d] = dispatched[d]
    BY <1>0, <1>1 DEF Accepted
  <2> QED
    BY <1>0, <2>1, UntouchedSession DEF Seen, PhaseOfRun
<1>2. Moves(sess[c])
  <2>1. Accepted(c)
    BY <1>0 DEF Accepted
  <2>2. Abstract(sess[c]) = <<"started", {}, NoReport>>
    BY <1>0, <2>1, ScannedSession DEF Seen, PhaseOfRun
  <2>3. Accepted(c)'
    BY <1>0 DEF Accepted
  <2>5. Abstract(sess[c])' = <<"running", dispatched'[c], NoReport>>
    BY <1>0, <2>3, ScannedSessionNext DEF Seen, PhaseOfRun
  <2> QED
    BY <1>0, <2>2, <2>5 DEF Moves, PlanSession
<1> QED
  BY <1>0, <1>1, <1>2

\* The last store of a scan goroutine delivers the report; the ones before it
\* are invisible.
LEMMA LandStep ==
    ASSUME Base, Base', StoreInv', NEW c \in Starts, NEW f \in Fields, Land(c, f)
    PROVE  /\ sess[c] \in Sessions
           /\ \A r \in Sessions : Abstract(r)' = Abstract(r) \/ (r = sess[c] /\ Moves(r))
<1>0. /\ UNCHANGED <<sess, dispatched, findings, errs>>
      /\ pc[c] = "storing" /\ pc' \in {pc, [pc EXCEPT ![c] = "ended"]}
      /\ pc \in [Starts -> CallStages]
      /\ sess[c] \in Sessions
      /\ \A r \in Sessions \ {sess[c]} :
            state'[r] = state[r] /\ result'[r] = result[r] /\ errors'[r] = errors[r]
  BY DEF Land, Base, TypeOK, ExclusiveInv
<1>1. Accepted(c) /\ Accepted(c)'
  BY <1>0 DEF Accepted
<1>2. ASSUME NEW r \in Sessions, r # sess[c]
      PROVE  Abstract(r)' = Abstract(r)
  <2>1. \A d \in Starts : /\ Accepted(d)' /\ sess'[d] = r <=> Accepted(d) /\ sess[d] = r
                          /\ sess[d] = r => pc'[d] = pc[d]
    BY <1>0, <1>2 DEF Accepted
  <2> QED
    BY <1>0, <1>2, <2>1, UntouchedSession DEF Seen, PhaseOfRun
<1>3. ASSUME pc' = pc
      PROVE  Abstract(sess[c])' = Abstract(sess[c])
  <2>1. Seen(c)' = Seen(c)
    BY <1>0, <1>3 DEF Seen, PhaseOfRun
  <2> QED
    BY <1>0, <1>1, <2>1, ScannedSession, ScannedSessionNext
<1>4. ASSUME pc' = [pc EXCEPT ![c] = "ended"]
      PROVE  Moves(sess[c])
  <2>1. pc'[c] = "ended"
    BY <1>0, <1>4
  <2>2. /\ result'[sess[c]] = findings[c] /\ errors'[sess[c]] = errs[c]
        /\ dispatched[c] = findings[c] \cup errs[c] /\ findings[c] \cap errs[c] = {}
        /\ dispatched[c] \in SUBSET Task
    <3>1. \A t \in Task : t \in dispatched[c] <=> task[c][t] = "merged"
      BY <1>0 DEF Base, TypeOK, RunInv, Collected, AllDone
    <3>2. dispatched[c] = Merged(c)
      BY <3>1 DEF Base, TypeOK, Merged
    <3>3. (Storing(c) /\ pending[c] = {})'
      BY <2>1 DEF StoreInv, Storing
    <3>4. result'[sess[c]] = findings[c] /\ errors'[sess[c]] = errs[c]
      BY <1>0, <3>3 DEF StoreInv
    <3> QED
      BY <3>2, <3>4 DEF Base, TypeOK, RunInv
  <2>3. errors'[sess[c]] = dispatched[c] \ result'[sess[c]] /\ result'[sess[c]] \subseteq dispatched[c]
    BY <2>2
  <2>4. Abstract(sess[c]) = <<"running", dispatched[c], NoReport>>
    BY <1>0, <1>1, ScannedSession DEF Seen, PhaseOfRun
  <2>5. Abstract(sess[c])' = <<"complete", dispatched[c],
            [ok |-> result'[sess[c]], failed |-> errors'[sess[c]]]>>
    BY <1>0, <1>1, <2>1, ScannedSessionNext DEF Seen, PhaseOfRun
  <2> QED
    BY <2>2, <2>3, <2>4, <2>5 DEF Moves, DeliverSession
<1> QED
  BY <1>0, <1>2, <1>3, <1>4

\* Collect and CloseBroker move the run on without the service seeing it.
LEMMA CloseStep ==
    ASSUME Base, Base', NEW c \in Starts, Collect(c) \/ CloseBroker(c), NEW r \in Sessions
    PROVE  Abstract(r)' = Abstract(r)
<1>0. /\ UNCHANGED <<state, sess, dispatched, result, errors>>
      /\ pc \in [Starts -> CallStages]
      /\ \/ pc[c] = "waiting" /\ pc' = [pc EXCEPT ![c] = "closing"]
         \/ pc[c] = "closing" /\ pc' = [pc EXCEPT ![c] = "storing"]
  BY DEF Collect, CloseBroker, runVars, Base, TypeOK
<1>1. \A d \in Starts : /\ Accepted(d)' <=> Accepted(d)
                        /\ PhaseOfRun(d)' = PhaseOfRun(d)
                        /\ pc'[d] = "ended" <=> pc[d] = "ended"
  BY <1>0 DEF Accepted, PhaseOfRun
<1> QED
  BY <1>0, <1>1, UntouchedSession DEF Seen

\* Every step moves at most one session, and by a step of the service.
LEMMA StepMoves ==
    ASSUME Base, Base', StoreInv', [Next]_vars
    PROVE  \/ \A r \in Sessions : Abstract(r)' = Abstract(r)
           \/ \E s \in Sessions : /\ Moves(s)
                                 /\ \A r \in Sessions \ {s} : Abstract(r)' = Abstract(r)
<1>1. ASSUME NEW s \in Sessions,
             \A r \in Sessions : Abstract(r)' = Abstract(r) \/ (r = s /\ Moves(r))
      PROVE  \/ \A r \in Sessions : Abstract(r)' = Abstract(r)
             \/ /\ Moves(s)
                /\ \A r \in Sessions \ {s} : Abstract(r)' = Abstract(r)
  BY <1>1
<1>2. ASSUME NEW s \in Sessions, CloneSession(s) \/ \E f \in 0..MaxForest : Validate(s, f)
      PROVE  \A r \in Sessions : Abstract(r)' = Abstract(r) \/ (r = s /\ Moves(r))
  BY <1>2, MintStep
<1>3. ASSUME NEW c \in Starts, Accept(c) \/ Dispatch(c) \/ \E f \in Fields : Land(c, f)
      PROVE  /\ sess[c] \in Sessions
             /\ \A r \in Sessions : Abstract(r)' = Abstract(r) \/ (r = sess[c] /\ Moves(r))
  BY <1>3, AcceptStep, DispatchStep, LandStep
<1>4. ASSUME NEW c \in Starts, Collect(c) \/ CloseBroker(c)
      PROVE  \A r \in Sessions : Abstract(r)' = Abstract(r)
  BY <1>4, CloseStep
<1>5. ASSUME NEW c \in Starts, NEW s \in Sessions, NEW req \in Requests, CheckState(c, s, req),
             NEW r \in Sessions
      PROVE  Abstract(r)' = Abstract(r)
  <2>0. /\ UNCHANGED <<state, dispatched, result, errors>>
        /\ pc[c] = "idle" /\ pc'[c] \in {"checked", "rejected"}
        /\ \A d \in Starts \ {c} : pc'[d] = pc[d] /\ sess'[d] = sess[d]
    BY <1>5 DEF CheckState, sessionVars, runVars, Base, TypeOK
  <2> QED
    BY <2>0, UntouchedSession DEF Seen, PhaseOfRun, Accepted
<1>6. ASSUME NEW c \in Starts, NEW t \in Task, ProviderStep(c, t), NEW r \in Sessions
      PROVE  Abstract(r)' = Abstract(r)
  <2>1. UNCHANGED <<state, pc, sess, dispatched, result, errors>>
    BY <1>6 DEF ProviderStep, BeginProvider, ReportProgress, ProviderFails, ProviderSucceeds,
                Merge, sessionVars, callVars
  <2> QED
    BY <2>1, UntouchedRuns
<1>7. ASSUME UNCHANGED vars, NEW r \in Sessions
      PROVE  Abstract(r)' = Abstract(r)
  BY <1>7, UntouchedRuns DEF vars, sessionVars, callVars, runVars
<1> QED
  BY <1>1, <1>2, <1>3, <1>4, <1>5, <1>6, <1>7 DEF Next, UserStep, RunStep
-----------------------------------------------------------------------------
(* The refinement                                                          *)

phaseBar == [s \in Sessions |-> PhaseOf(s)]
planBar == [s \in Sessions |-> PlanOf(s)]
reportBar == [s \in Sessions |-> ReportOf(s)]

LEMMA InitRefines == Init => Service!ServiceInit
<1> SUFFICES ASSUME Init
             PROVE  Service!ServiceInit
  OBVIOUS
<1>1. \A s \in Sessions : Abstract(s) = <<"none", {}, NoReport>>
  BY UnscannedSession DEF Init, Accepted
<1> QED
  BY <1>1 DEF Abstract, Service!ServiceInit

LEMMA StepRefines ==
    Base /\ Base' /\ StoreInv' /\ [Next]_vars => [Service!ServiceNext]_Service!serviceVars
<1> SUFFICES ASSUME Base, Base', StoreInv', [Next]_vars
             PROVE  Service!ServiceNext \/ UNCHANGED <<phaseBar, planBar, reportBar>>
  BY DEF Service!serviceVars, phaseBar, planBar, reportBar
<1> USE DEF phaseBar, planBar, reportBar
<1>1. ASSUME \A r \in Sessions : Abstract(r)' = Abstract(r)
      PROVE  UNCHANGED <<phaseBar, planBar, reportBar>>
  BY <1>1 DEF Abstract
<1>2. ASSUME NEW s \in Sessions, Moves(s),
             \A r \in Sessions \ {s} : Abstract(r)' = Abstract(r)
      PROVE  Service!Open(s) \/ Service!Start(s) \/ Service!Progressing(s)
  <2>1. /\ phaseBar' = [phaseBar EXCEPT ![s] = PhaseOf(s)']
        /\ planBar' = [planBar EXCEPT ![s] = PlanOf(s)']
        /\ reportBar' = [reportBar EXCEPT ![s] = ReportOf(s)']
        /\ phaseBar[s] = PhaseOf(s) /\ planBar[s] = PlanOf(s) /\ reportBar[s] = ReportOf(s)
    BY <1>2 DEF Abstract
  <2>2. ASSUME PlanOf(s)' = PlanOf(s)
        PROVE  planBar' = planBar
    BY <2>1, <2>2
  <2>3. ASSUME ReportOf(s)' = ReportOf(s)
        PROVE  reportBar' = reportBar
    BY <2>1, <2>3
  <2>4. CASE OpenSession(s)
    BY <2>1, <2>2, <2>3, <2>4 DEF OpenSession, Abstract, Service!Open
  <2>5. CASE StartSession(s)
    BY <2>1, <2>2, <2>3, <2>5 DEF StartSession, Abstract, Service!Start
  <2>6. CASE PlanSession(s)
    BY <2>1, <2>3, <2>6 DEF PlanSession, Abstract, Service!Progressing, Service!Plan
  <2>7. CASE DeliverSession(s)
    <3>1. PICK tasks \in SUBSET Task, ok \in SUBSET Task :
                  /\ ok \subseteq tasks
                  /\ Abstract(s) = <<"running", tasks, NoReport>>
                  /\ Abstract(s)' = <<"complete", tasks, [ok |-> ok, failed |-> tasks \ ok]>>
      BY <2>7 DEF DeliverSession
    <3>2. /\ PhaseOf(s) = "running" /\ PhaseOf(s)' = "complete"
          /\ PlanOf(s) = tasks /\ PlanOf(s)' = tasks
          /\ ReportOf(s)' = [ok |-> ok, failed |-> tasks \ ok]
      BY <3>1 DEF Abstract
    <3>3. planBar[s] = tasks /\ ok \in SUBSET planBar[s]
      BY <2>1, <3>1, <3>2
    <3>4. reportBar' = [reportBar EXCEPT ![s] = [ok |-> ok, failed |-> planBar[s] \ ok]]
      BY <2>1, <3>2, <3>3
    <3>5. /\ phaseBar[s] = "running" /\ phaseBar' = [phaseBar EXCEPT ![s] = "complete"]
          /\ planBar' = planBar
      BY <2>1, <2>2, <3>2
    <3>6. \E given \in SUBSET planBar[s] :
             reportBar' = [reportBar EXCEPT ![s] = [ok |-> given, failed |-> planBar[s] \ given]]
      BY <3>3, <3>4, Zenon
    <3>7. Service!Deliver(s)
      BY <3>5, <3>6, Zenon DEF Service!Deliver
    <3> QED
      BY <3>7 DEF Service!Progressing
  <2> QED
    BY <1>2, <2>4, <2>5, <2>6, <2>7 DEF Moves
<1> QED
  BY <1>1, <1>2, StepMoves DEF Service!ServiceNext

(* The handlers and the scan goroutines take no step that the service's
   promise to its users does not allow: a session is opened, started once,
   planned once and delivers one report, which splits its plan.              *)
THEOREM RefinesService ==
    ASSUME SerialStarts
    PROVE  Spec => Service!ServiceInit /\ [][Service!ServiceNext]_Service!serviceVars
BY InitRefines, StepRefines, StoreInvariance, PTL DEF Spec
=============================================================================
