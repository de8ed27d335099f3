---------------------------- MODULE ScanLifecycle ----------------------------
(***************************************************************************)
(* The life of a scan session in the Go server: the wizard validates       *)
(* credentials into a session, POST /api/v1/scan starts the scan, the      *)
(* orchestrator runs one goroutine per provider (and per AD forest) with   *)
(* partial failure tolerance (RES-01), and the scan goroutine publishes    *)
(* the outcome in the session, where the status and results handlers read  *)
(* it.                                                                     *)
(*                                                                         *)
(* Sources: server/scan.go, server/validate.go,                            *)
(* internal/orchestrator/orchestrator.go, internal/session.                *)
(*                                                                         *)
(* Two things the code does without a lock are modelled as such:           *)
(*   - HandleStartScan reads sess.State and later writes it: two actions,  *)
(*     CheckState and Accept, with anything in between;                    *)
(*   - the four stores that publish the outcome (CompletedAt, TokenResult, *)
(*     Errors, State) race with the handlers that read them, so they reach *)
(*     a reader in any order: Land(c, f) for f in any order.               *)
(*                                                                         *)
(* A finding row is abstracted to the task that produced it.               *)
(*                                                                         *)
(* Nothing in the browser or the server serialises the starts of a         *)
(* session: startScan is not awaited, and Back and Next post again while   *)
(* the first answer is on its way. SerialStarts is an assumption for the   *)
(* properties that speak of one run per session; the properties that hold  *)
(* of overlapping starts are checked, and proved, without it.              *)
(***************************************************************************)
EXTENDS Naturals, FiniteSets

CONSTANTS
    Sessions,       \* session ids the store can mint
    Starts,         \* POST /api/v1/scan calls, each with the goroutine it launches
    Providers,      \* provider identifiers a request can name
    AD,             \* the provider that is expanded into forests
    Registered,     \* keys of Orchestrator.scanners
    Requests,       \* the provider sets a start request can carry
    MaxForest,      \* bound on len(sess.ADForests)
    MaxEvents,      \* bound on resource_progress events per task
    SerialStarts,   \* TRUE: assume that no two State tests of one session overlap
    NoSession       \* no session yet

ASSUME LifecycleAssumption ==
    /\ AD \in Providers
    /\ Registered \subseteq Providers
    /\ Requests \subseteq SUBSET Providers
    /\ MaxForest \in Nat
    /\ MaxEvents \in Nat
    /\ SerialStarts \in BOOLEAN
    /\ NoSession \notin Sessions

VARIABLES
    cookie,      \* the browser's ddi_session cookie
    state,       \* sess.State ("none": not minted yet)
    forests,     \* len(sess.ADForests)
    completedAt, \* sess.CompletedAt # nil
    result,      \* sess.TokenResult.Findings, as the tasks whose rows it holds
    errors,      \* sess.Errors, as the tasks that failed
    progress,    \* sess.ProviderProgress
    closed,      \* sess.Broker.closed
    events,      \* events the broker has fanned out
    pc,          \* where a start call, then its scan goroutine, stands
    sess,        \* the session a start call resolved
    request,     \* req.Providers of a start call
    dispatched,  \* tasks a run has launched a goroutine for
    task,        \* where each provider goroutine of a run stands
    reports,     \* eventCount of each provider goroutine
    findings,    \* Run's findings accumulator
    errs,        \* Run's errs accumulator
    pending      \* session stores of the scan goroutine not yet visible

sessionVars == <<cookie, state, forests, completedAt, result, errors, progress, closed, events>>
callVars == <<pc, sess, request>>
runVars == <<dispatched, task, reports, findings, errs, pending>>
vars == <<sessionVars, callVars, runVars>>
-----------------------------------------------------------------------------
(* A task is one goroutine of Run: a provider, and for AD a forest index.  *)
Task == (Providers \X {0}) \cup ({AD} \X (1..MaxForest))

ProviderOf(t) == t[1]

FieldsWithoutErrors == {"completedAt", "result", "state"}
Fields == {"completedAt", "result", "errors", "state"}

Entry == [status: {"absent", "running", "complete", "error"}, percent: 0..100]
NoEntry == [status |-> "absent", percent |-> 0]

Event ==
    ({"provider_start", "resource_progress", "error", "provider_complete"} \X Starts \X Task)
        \cup ({"scan_complete"} \X Starts)

\* expandADForests, and Run's silent skip of unregistered providers.
ExpandedTasks(req, s) ==
    {t \in Task : /\ ProviderOf(t) \in req \cap Registered
                  /\ t[2] <= forests[s]}

\* makePublishHandler's estimate after n resource_progress events.
Estimate(n) == IF 5 + 9 * n > 90 THEN 90 ELSE 5 + 9 * n

\* UpdateProviderProgress on the session of call c: the key is the provider.
UpdateUnlessFailed(c, t, status, percent) ==
    progress' = IF status = "error" THEN progress
                ELSE [progress EXCEPT ![sess[c]][ProviderOf(t)] =
                         [status |-> status, percent |-> percent]]
UpdateProgress(c, t, status, percent) ==
    progress' = [progress EXCEPT ![sess[c]][ProviderOf(t)] =
                    [status |-> status, percent |-> percent]]

\* Broker.Publish: dropped once the broker is closed.
Publish(s, E) ==
    events' = IF closed[s] THEN events ELSE [events EXCEPT ![s] = @ \cup E]

Minted(s) == state[s] # "none"

\* HandleStartScan's State test.
MayRestart(s) == state[s] # "scanning"
MayStart(s) == state[s] = "created"

\* The length of ADForests after slot f - 1 was filled.
GrownOnePast(length, f) == IF f > 0 /\ length <= f THEN f + 1 ELSE length
Grown(length, f) == IF length < f THEN f ELSE length

\* append to one of Run's accumulators, under mu.
AppendUnlocked(acc, c, t) == [acc EXCEPT ![c] = {t}]
Append(acc, c, t) == [acc EXCEPT ![c] = @ \cup {t}]

\* wg.Wait can return: every goroutine counted by wg.Add has called wg.Done.
AllBegunDone(c) == \A t \in dispatched[c] : task[c][t] \in {"spawned", "merged"}
AllGaveRows(c) == \A t \in dispatched[c] : t \in findings[c]
AllDone(c) == \A t \in dispatched[c] : task[c][t] = "merged"
-----------------------------------------------------------------------------
Init ==
    /\ cookie = NoSession
    /\ state = [s \in Sessions |-> "none"]
    /\ forests = [s \in Sessions |-> 0]
    /\ completedAt = [s \in Sessions |-> FALSE]
    /\ result = [s \in Sessions |-> {}]
    /\ errors = [s \in Sessions |-> {}]
    /\ progress = [s \in Sessions |-> [p \in Providers |-> NoEntry]]
    /\ closed = [s \in Sessions |-> FALSE]
    /\ events = [s \in Sessions |-> {}]
    /\ pc = [c \in Starts |-> "idle"]
    /\ sess = [c \in Starts |-> NoSession]
    /\ request = [c \in Starts |-> {}]
    /\ dispatched = [c \in Starts |-> {}]
    /\ task = [c \in Starts |-> [t \in Task |-> "absent"]]
    /\ reports = [c \in Starts |-> [t \in Task |-> 0]]
    /\ findings = [c \in Starts |-> {}]
    /\ errs = [c \in Starts |-> {}]
    /\ pending = [c \in Starts |-> {}]
-----------------------------------------------------------------------------
(* Sessions                                                                *)

\* establishSession + storeCredentials after a validator succeeded: the
\* cookie's session is reused while it is still Created, else one is minted.
\* f is the forest index (0 for every provider but AD's extra forests).
Validate(s, f) ==
    /\ IF cookie # NoSession /\ state[cookie] = "created"
          THEN s = cookie
          ELSE ~Minted(s)
    /\ state' = [state EXCEPT ![s] = "created"]
    /\ cookie' = s
    /\ forests' = [forests EXCEPT ![s] = Grown(@, f)]
    /\ UNCHANGED <<completedAt, result, errors, progress, closed, events, callVars, runVars>>

\* HandleCloneSession: a fresh Created session; CloneSession copies every
\* credential field but ADForests.
CloneSession(s) ==
    /\ cookie # NoSession
    /\ ~Minted(s)
    /\ state' = [state EXCEPT ![s] = "created"]
    /\ cookie' = s
    /\ UNCHANGED <<forests, completedAt, result, errors, progress, closed, events,
                   callVars, runVars>>
-----------------------------------------------------------------------------
(* POST /api/v1/scan                                                       *)

\* HandleStartScan up to the State test. Under SerialStarts no other start of
\* the session stands between its own test and its write.
CheckState(c, s, req) ==
    /\ pc[c] = "idle"
    /\ Minted(s)
    /\ SerialStarts => \A d \in Starts : ~(pc[d] = "checked" /\ sess[d] = s)
    /\ pc' = [pc EXCEPT ![c] = IF MayStart(s) THEN "checked" ELSE "rejected"]
    /\ sess' = [sess EXCEPT ![c] = s]
    /\ request' = [request EXCEPT ![c] = req]
    /\ UNCHANGED <<sessionVars, runVars>>

\* HandleStartScan from the State write to the 202 answer. The mutated form
\* leaves the write to the goroutine.
AcceptUnmarked(c) ==
    /\ pc[c] = "checked"
    /\ pc' = [pc EXCEPT ![c] = "accepted"]
    /\ UNCHANGED <<sessionVars, sess, request, runVars>>

Accept(c) ==
    /\ pc[c] = "checked"
    /\ pc' = [pc EXCEPT ![c] = "accepted"]
    /\ state' = [state EXCEPT ![sess[c]] = "scanning"]
    /\ UNCHANGED <<cookie, forests, completedAt, result, errors, progress, closed, events,
                   sess, request, runVars>>
-----------------------------------------------------------------------------
(* Orchestrator.Run                                                        *)

\* The dispatch loop: one goroutine per expanded and registered request. A
\* goroutine begins at any later time, so launching them all in one step still
\* gives every interleaving of the loop with those already launched.
Dispatch(c) ==
    LET tasks == ExpandedTasks(request[c], sess[c])
    IN  /\ pc[c] = "accepted"
        /\ pc' = [pc EXCEPT ![c] = "waiting"]
        /\ dispatched' = [dispatched EXCEPT ![c] = tasks]
        /\ task' = [task EXCEPT ![c] = [t \in Task |-> IF t \in tasks THEN "spawned" ELSE "absent"]]
        /\ UNCHANGED <<sessionVars, sess, request, reports, findings, errs, pending>>

\* runProvider up to the call of Scan.
BeginProvider(c, t) ==
    /\ task[c][t] = "spawned"
    /\ task' = [task EXCEPT ![c][t] = "scanning"]
    /\ UpdateProgress(c, t, "running", 5)
    /\ Publish(sess[c], {<<"provider_start", c, t>>})
    /\ UNCHANGED <<cookie, state, forests, completedAt, result, errors, closed, callVars,
                   dispatched, reports, findings, errs, pending>>

\* The publish callback on a resource_progress event.
ReportProgress(c, t) ==
    /\ task[c][t] = "scanning"
    /\ reports[c][t] < MaxEvents
    /\ reports' = [reports EXCEPT ![c][t] = @ + 1]
    /\ UpdateProgress(c, t, "running", Estimate(reports[c][t] + 1))
    /\ Publish(sess[c], {<<"resource_progress", c, t>>})
    /\ UNCHANGED <<cookie, state, forests, completedAt, result, errors, closed, callVars,
                   dispatched, task, findings, errs, pending>>

\* Scan returned an error: runProvider's error branch and its deferred
\* provider_complete.
ProviderFails(c, t) ==
    /\ task[c][t] = "scanning"
    /\ task' = [task EXCEPT ![c][t] = "failed"]
    /\ UpdateProgress(c, t, "error", 100)
    /\ Publish(sess[c], {<<"error", c, t>>, <<"provider_complete", c, t>>})
    /\ UNCHANGED <<cookie, state, forests, completedAt, result, errors, closed, callVars,
                   dispatched, reports, findings, errs, pending>>

\* Scan returned rows: runProvider's success branch.
ProviderSucceeds(c, t) ==
    /\ task[c][t] = "scanning"
    /\ task' = [task EXCEPT ![c][t] = "succeeded"]
    /\ UpdateProgress(c, t, "complete", 100)
    /\ Publish(sess[c], {<<"provider_complete", c, t>>})
    /\ UNCHANGED <<cookie, state, forests, completedAt, result, errors, closed, callVars,
                   dispatched, reports, findings, errs, pending>>

\* The goroutine appends to Run's accumulators under mu, then wg.Done.
Merge(c, t) ==
    /\ task[c][t] \in {"failed", "succeeded"}
    /\ task' = [task EXCEPT ![c][t] = "merged"]
    /\ IF task[c][t] = "failed"
          THEN errs' = Append(errs, c, t) /\ UNCHANGED findings
          ELSE findings' = Append(findings, c, t) /\ UNCHANGED errs
    /\ UNCHANGED <<sessionVars, callVars, dispatched, reports, pending>>

\* wg.Wait returns; Calculate; scan_complete.
Collect(c) ==
    /\ pc[c] = "waiting"
    /\ AllDone(c)
    /\ pc' = [pc EXCEPT ![c] = "closing"]
    /\ Publish(sess[c], {<<"scan_complete", c>>})
    /\ UNCHANGED <<cookie, state, forests, completedAt, result, errors, progress, closed,
                   sess, request, runVars>>

\* sess.Broker.Close() and Run's return.
CloseBroker(c) ==
    /\ pc[c] = "closing"
    /\ pc' = [pc EXCEPT ![c] = "storing"]
    /\ closed' = [closed EXCEPT ![sess[c]] = TRUE]
    /\ pending' = [pending EXCEPT ![c] = Fields]
    /\ UNCHANGED <<cookie, state, forests, completedAt, result, errors, progress, events,
                   sess, request, dispatched, task, reports, findings, errs>>

\* One of the scan goroutine's unsynchronised stores becomes visible.
Land(c, f) ==
    LET s == sess[c]
    IN  /\ pc[c] = "storing"
        /\ f \in pending[c]
        /\ pending' = [pending EXCEPT ![c] = @ \ {f}]
        /\ pc' = [pc EXCEPT ![c] = IF pending[c] = {f} THEN "ended" ELSE @]
        /\ completedAt' = IF f = "completedAt" THEN [completedAt EXCEPT ![s] = TRUE] ELSE completedAt
        /\ result' = IF f = "result" THEN [result EXCEPT ![s] = findings[c]] ELSE result
        /\ errors' = IF f = "errors" THEN [errors EXCEPT ![s] = errs[c]] ELSE errors
        /\ state' = IF f = "state" THEN [state EXCEPT ![s] = "complete"] ELSE state
        /\ UNCHANGED <<cookie, forests, progress, closed, events, sess, request,
                       dispatched, task, reports, findings, errs>>
-----------------------------------------------------------------------------
UserStep ==
    \/ \E s \in Sessions, f \in 0..MaxForest : Validate(s, f)
    \/ \E s \in Sessions : CloneSession(s)
    \/ \E c \in Starts, s \in Sessions, req \in Requests : CheckState(c, s, req)

ProviderStep(c, t) ==
    \/ BeginProvider(c, t)
    \/ ReportProgress(c, t)
    \/ ProviderFails(c, t)
    \/ ProviderSucceeds(c, t)
    \/ Merge(c, t)

RunStep(c) ==
    \/ Accept(c)
    \/ Dispatch(c)
    \/ Collect(c)
    \/ CloseBroker(c)
    \/ \E f \in Fields : Land(c, f)

Next ==
    \/ UserStep
    \/ \E c \in Starts, t \in Task : ProviderStep(c, t)
    \/ \E c \in Starts : RunStep(c)

\* The Go scheduler runs every goroutine, and every Scan call returns: the SDK
\* clients carry timeouts and bounded retries (a provider goroutine sends at
\* most MaxEvents events, so its weak fairness includes the return of Scan).
Fairness ==
    /\ \A c \in Starts, t \in Task : WF_vars(ProviderStep(c, t))
    /\ \A c \in Starts : WF_vars(RunStep(c))

Spec == Init /\ [][Next]_vars
FairSpec == Spec /\ Fairness
-----------------------------------------------------------------------------
(* Properties                                                              *)

CallStages == {"idle", "checked", "rejected", "accepted", "waiting", "closing", "storing", "ended"}
TaskStages == {"absent", "spawned", "scanning", "failed", "succeeded", "merged"}

TypeOK ==
    /\ cookie \in Sessions \cup {NoSession}
    /\ state \in [Sessions -> {"none", "created", "scanning", "complete"}]
    /\ forests \in [Sessions -> 0..MaxForest]
    /\ completedAt \in [Sessions -> BOOLEAN]
    /\ result \in [Sessions -> SUBSET Task]
    /\ errors \in [Sessions -> SUBSET Task]
    /\ progress \in [Sessions -> [Providers -> Entry]]
    /\ closed \in [Sessions -> BOOLEAN]
    /\ events \in [Sessions -> SUBSET Event]
    /\ pc \in [Starts -> CallStages]
    /\ sess \in [Starts -> Sessions \cup {NoSession}]
    /\ request \in [Starts -> SUBSET Providers]
    /\ dispatched \in [Starts -> SUBSET Task]
    /\ task \in [Starts -> [Task -> TaskStages]]
    /\ reports \in [Starts -> [Task -> 0..MaxEvents]]
    /\ findings \in [Starts -> SUBSET Task]
    /\ errs \in [Starts -> SUBSET Task]
    /\ pending \in [Starts -> SUBSET Fields]

Accepted(c) == pc[c] \notin {"idle", "checked", "rejected"}

\* The run of call c has passed wg.Wait.
Collected(c) == pc[c] \in {"closing", "storing", "ended"}

(* RES-01, partial failure tolerance: when Run stops waiting, every goroutine
   it launched is accounted for exactly once, as rows or as an error, however
   successes and failures interleaved and whatever other runs did.          *)
PartialFailure ==
    \A c \in Starts : Collected(c) =>
        /\ findings[c] \cup errs[c] = dispatched[c]
        /\ findings[c] \cap errs[c] = {}

(* HandleStartScan's promise that later callers "see ScanStateScanning and
   receive 409": no session is ever scanned by two accepted starts.         *)
OneScanPerSession ==
    \A c, d \in Starts : Accepted(c) /\ Accepted(d) /\ sess[c] = sess[d] => c = d

(* What is left of that promise when starts overlap: from the State write of
   an accepted start on, while its session is scanned and ever after,
   whatever is validated or cloned and whatever other accepted starts store
   in it, no State test of that session passes. So two accepted starts of a
   session are always two whose tests overlapped.                           *)
LateStartsRefused ==
    [][\A c, d \in Starts :
          Accepted(c) /\ pc[d] = "idle" /\ pc'[d] = "checked" => sess'[d] # sess[c]]_vars

(* Once the scan goroutine has ended, the results handler serves exactly the
   outcome of that run: its rows, its errors, and its completion time.      *)
ReportIsWhole ==
    \A c \in Starts : pc[c] = "ended" =>
        LET s == sess[c]
        IN  /\ state[s] = "complete" /\ completedAt[s]
            /\ result[s] = findings[c] /\ errors[s] = errs[c]
            /\ result[s] \cup errors[s] = dispatched[c]

(* By the time the broker is closed it has fanned out the whole scan: start
   and completion of every goroutine, an error for each failed one only, and
   scan_complete; no event of a provider comes too late for the Close.       *)
EventStreamWhole ==
    \A c \in Starts : pc[c] \in {"storing", "ended"} =>
        /\ <<"scan_complete", c>> \in events[sess[c]]
        /\ \A t \in dispatched[c] :
              /\ {<<"provider_start", c, t>>, <<"provider_complete", c, t>>} \subseteq events[sess[c]]
              /\ <<"error", c, t>> \in events[sess[c]] <=> t \in errs[c]

(* The progress shown when the scan is over is final for every provider,
   although the forests of AD share one entry and overwrite each other: 100
   percent, with a status one of that provider's goroutines really had.     *)
NoProviderLeftRunning ==
    \A c \in Starts : pc[c] = "ended" =>
        \A p \in {ProviderOf(t) : t \in dispatched[c]} :
            LET entry == progress[sess[c]][p]
            IN  /\ entry.percent = 100
                /\ \E t \in dispatched[c] :
                      /\ ProviderOf(t) = p
                      /\ entry.status = IF t \in errs[c] THEN "error" ELSE "complete"

(* What the handlers serve for a finished session never changes again.      *)
Settled(s) == \E c \in Starts : sess[c] = s /\ pc[c] = "ended"

SettledFrozen ==
    [][\A s \in Sessions : Settled(s) =>
          UNCHANGED <<state[s], completedAt[s], result[s], errors[s], progress[s], events[s]>>]_vars

(* Every start answered 202 ends in a complete session: a failing or slow
   provider, or another session's scan, never leaves it scanning forever.   *)
ScanCompletes ==
    \A c \in Starts : pc[c] = "accepted" ~> (pc[c] = "ended" /\ state[sess[c]] = "complete")
=============================================================================
