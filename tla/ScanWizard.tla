------------------------------ MODULE ScanWizard ------------------------------
(***************************************************************************)
(* The scan wizard of the browser (wizard.tsx): five pages, the session    *)
(* files dropped on the first one, credentials and sources (WizardForms),  *)
(* the scan that is started, polled and shown, the demo that stands in for *)
(* the backend when the last ping failed, and Start Over.                  *)
(*                                                                         *)
(* Calls of the backend and timers outlive the page that started them:     *)
(*   calls    validations under way, with the form as it was,              *)
(*   asked    validations of additional forests, by place in the list,     *)
(*   batches  dropped files still being read,                              *)
(*   jobs     the scans started: the poller's interval and the answers to  *)
(*            it that are on their way.                                    *)
(* An answer's content is fixed when the call is made and it arrives any   *)
(* time later, in any order.                                               *)
(*                                                                         *)
(* startScan and validateCredential are memoised (useCallback): "seen" is  *)
(* the state they captured when one of the dependencies they list last     *)
(* changed, of the state they read and do not list.                        *)
(*                                                                         *)
(* History variables, for the properties only: "vault" is where the server *)
(* put the credentials of each additional forest, "shifted" that a forest  *)
(* was taken out of the list, "overtaken" that an answer came after the    *)
(* one of a later call or of a later scan, or a file after the list it was *)
(* dropped on was left.                                                    *)
(***************************************************************************)
EXTENDS SessionMerge, WizardForms

CONSTANTS Budgets,      \* bounds of what a user does, one is chosen at first
          MaxInFlight,  \* answers of one poller under way at once
          Files         \* session files

(* Files name tiles of the wizard, and no file is named like a scan.       *)
ASSUME FilesAssumption ==
  /\ None \notin Seq(Files)
  /\ \A f \in Files : /\ f.rows \in Seq(STRING) /\ f.errors \in Seq(STRING)
                       /\ f.providers \in Seq(Providers)
                       /\ f.name \notin {"scan1", "scan2"}

ASSUME FormsAssumption ==
  /\ \A p \in Providers : FirstMethod(p) \in Methods(p)
  /\ Budgets \subseteq [tiles : SUBSET Providers, moves : Nat, forms : Nat, forests : Nat, picks : Nat,
                       maxScans : Nat, losses : Nat, pings : Nat, batches : Nat]

Pages == <<"providers", "credentials", "sources", "scanning", "results">>
ScanName == <<"scan1", "scan2">>
Scans == 1..Len(ScanName)
Demo == "demo"

VARIABLES step, selected, form, forests, calls, asked, probe, qps,
          loaded, batches, report, job, jobs, server, progress, error, online,
          request, seen, budget, vault, shifted, overtaken

forms == <<form, forests, calls, asked, probe, qps, vault, shifted>>
scan == <<job, jobs, server, progress, error, request, overtaken>>
sessions == <<loaded, batches>>
vars == <<step, selected, forms, sessions, report, scan, online, seen, budget>>

Page(s) == CHOOSE i \in DOMAIN Pages : Pages[i] = s

Spend(field, n) == budget[field] >= n /\ budget' = [budget EXCEPT ![field] = @ - n]

(* What the results page is made of: rows by provider and origin, the scan *)
(* whose totals are shown (0: recomputed from the rows), what was imported *)
(* and scanned live, and the origins of the server metrics.                *)
NoReport == [rows |-> {}, totals |-> 0, imported |-> {}, live |-> {}, errors |-> {},
             nios |-> Absent, ad |-> Absent]

(* A job's stage: idle, starting (the call that starts it has not returned),*)
(* polling or demo.  It ticks until its interval is cleared.               *)
NoJob == [stage |-> "idle", ticking |-> FALSE, early |-> FALSE, stale |-> FALSE,
          kept |-> {}, providers |-> {}, answers |-> {}, done |-> {}]

NoProbe == [found |-> {}, dismissed |-> FALSE, running |-> FALSE]
NoQps == [uploading |-> FALSE, token |-> None]

Init ==
  /\ budget \in Budgets
  /\ step = "providers" /\ selected = {}
  /\ form = [p \in Providers |-> BlankForm(p, FirstMethod(p))]
  /\ forests = <<>> /\ calls = {} /\ asked = {} /\ probe = NoProbe /\ qps = NoQps
  /\ loaded = <<>> /\ batches = {}
  /\ report = NoReport /\ job = 0 /\ jobs = [k \in Scans |-> NoJob]
  /\ server = [k \in Scans |-> "none"]
  /\ progress = 0 /\ error = "" /\ online = FALSE /\ request = <<>>
  /\ seen = [forests |-> <<>>, qps |-> None, file |-> None]
  /\ vault = <<>> /\ shifted = FALSE /\ overtaken = FALSE

(* What the next rendering gives the callbacks that are made anew: the     *)
(* scan's reads the forests and the query rates, the validation's the      *)
(* EfficientIP backup.  The dependencies of the first are the mode, the    *)
(* tiles, methods, credentials, sources and findings, those of the second  *)
(* the mode, methods, credentials and the NIOS backup.                     *)
Remade(callbacks) ==
  seen' = [forests |-> IF "scan" \in callbacks THEN forests' ELSE seen.forests,
           qps     |-> IF "scan" \in callbacks THEN qps'.token ELSE seen.qps,
           file    |-> IF "upload" \in callbacks /\ "efficientip" \in Providers
                       THEN form'["efficientip"].file ELSE seen.file]

-----------------------------------------------------------------------------
(* Navigation. *)

IsEstimatorOnly == selected = {"estimator"}

CanGoNext ==
  \/ step = "providers" /\ selected # {}
  \/ /\ step = "credentials"
     /\ \A p \in selected : form[p].status = "valid"
     /\ \A i \in DOMAIN forests : forests[i].status = "valid"
  \/ /\ step = "sources"
     /\ \/ \E p \in selected : EffectiveSelected(form[p]) # {}
        \/ \E i \in DOMAIN forests : forests[i].checked # {}
        \/ "estimator" \in selected
  \/ step = "scanning" /\ progress = 100

(* Showing the estimator on the credentials page makes it valid. *)
Shown(f) ==
  IF "estimator" \in selected THEN [f EXCEPT !["estimator"] = [@ EXCEPT !.status = "valid"]] ELSE f

(* The files listed on the first page are forgotten when it is left, and   *)
(* the batches still being read keep the list they were dropped on.        *)
LeaveProviders ==
  /\ loaded' = <<>>
  /\ batches' = {[b EXCEPT !.base = IF @ = None THEN loaded ELSE @] : b \in batches}

GoTo(page) ==
  /\ step' = page
  /\ form' = IF page = "credentials" THEN Shown(form) ELSE form
  /\ IF step = "providers" THEN LeaveProviders ELSE UNCHANGED sessions
  /\ UNCHANGED <<selected, forests, calls, asked, probe, qps, vault, shifted, report, online, seen>>

(* clearScanIntervals, on the jobs. *)
Cleared(js) == [k \in Scans |-> [js[k] EXCEPT !.ticking = FALSE]]

(* ... when the page they report to is reset as well (history: "stale").   *)
Retired(js) == [k \in Scans |-> [Cleared(js)[k] EXCEPT !.stale = TRUE]]

MergeFindings(kept, found, live) == {r \in kept : r.provider \notin live} \cup found

(* The Sizer's own Next on the credentials page asks for nothing (GoNext). *)

(* startScan: what is on the page is cleared, what a session file brought  *)
(* is captured for the merge with the answer.                              *)
StartedJob(providers) ==
  [stage |-> IF online THEN "starting" ELSE "demo", ticking |-> ~online,
   early |-> FALSE, stale |-> FALSE,
   kept |-> {r \in report.rows : r.provider \in report.imported},
   providers |-> providers, answers |-> {}, done |-> {}]

StartScan ==
  /\ job < Len(ScanName) /\ job < budget.maxScans
  /\ job' = job + 1
  /\ jobs' = [Retired(jobs) EXCEPT ![job + 1] = StartedJob(selected)]
  /\ progress' = 0 /\ error' = ""
  /\ report' = [report EXCEPT !.rows = {}, !.totals = 0]
  /\ request' = IF online THEN Request(selected, form, seen.forests, seen.qps) ELSE <<>>
  /\ UNCHANGED <<server, overtaken>>

SkipsScan ==
  \/ step = "credentials" /\ "estimator" \in selected
  \/ step = "providers" /\ report.imported # {} /\ report.rows # {}

GoNext ==
  /\ CanGoNext \/ (step = "credentials" /\ "estimator" \in selected)
  /\ \/ SkipsScan /\ GoTo("results") /\ UNCHANGED scan
     \/ /\ ~SkipsScan /\ step # "sources"
        /\ GoTo(Pages[Page(step) + 1]) /\ UNCHANGED scan
  /\ UNCHANGED budget

GoScan ==
  /\ step = "sources" /\ CanGoNext /\ StartScan
  /\ step' = "scanning"
  /\ UNCHANGED <<selected, forms, sessions, online, budget>> /\ Remade({"scan"})

Retry ==
  /\ step = "scanning" /\ progress < 100 /\ error # "" /\ StartScan
  /\ UNCHANGED <<step, selected, forms, sessions, online, budget>> /\ Remade({"scan"})

(* A bug: the page is left without clearing the intervals.                 *)
GoBackTicking ==
  /\ step \in {"credentials", "sources", "scanning"}
  /\ Spend("moves", 1)
  /\ GoTo(Pages[Page(step) - 1]) /\ UNCHANGED scan

GoBack ==
  /\ step \in {"credentials", "sources", "scanning"}
  /\ Spend("moves", 1)
  /\ GoTo(Pages[Page(step) - 1])
  /\ jobs' = IF step = "scanning" THEN Cleared(jobs) ELSE jobs
  /\ UNCHANGED <<job, server, progress, error, request, overtaken>>

(* restart(): what it resets.  It does not stop a job that is still        *)
(* starting nor the answers under way, and it keeps the metrics of AD      *)
(* servers, the scan errors and the methods chosen.                        *)
Restarted ==
  /\ step' = "providers"
  /\ form' = [p \in Providers |-> CleanForm(p, form[p])]
  /\ forests' = <<>> /\ shifted' = (asked # {})
  /\ probe' = [probe EXCEPT !.found = {}, !.dismissed = FALSE] /\ qps' = NoQps
  /\ jobs' = Retired(jobs) /\ progress' = 0 /\ error' = ""
  /\ Remade({"scan", "upload"})
  /\ UNCHANGED <<calls, asked, vault, job, server, request>>

BlankReport(r) == [NoReport EXCEPT !.ad = r.ad, !.errors = r.errors]

(* Start Over, on the results page. *)
Restart ==
  /\ step = "results" /\ Spend("moves", 1)
  /\ Restarted /\ selected' = {} /\ report' = BlankReport(report)
  /\ overtaken' = FALSE /\ UNCHANGED <<sessions, online>>

(* The scan becomes input of the Sizer: the wizard goes to the Sizer's page. *)
HandleSizerImportConfirm ==
  /\ step = "results" /\ report.rows # {} /\ ~IsEstimatorOnly /\ "estimator" \in Providers
  /\ Spend("moves", 1)
  /\ selected' = {"estimator"} /\ step' = "credentials"
  /\ form' = [form EXCEPT !["estimator"] = [@ EXCEPT !.status = "valid"]]
  /\ UNCHANGED <<forests, calls, asked, probe, qps, vault, shifted, sessions, report, scan, online>>
  /\ Remade({"scan"})

ToggleProvider(p) ==
  /\ step = "providers" /\ p \in budget.tiles /\ Spend("moves", 1)
  /\ selected' = Toggled(selected, p)
  /\ form' = [form EXCEPT ![p] = ToggledForm(@)]
  /\ UNCHANGED <<step, forests, calls, asked, probe, qps, vault, shifted, sessions, report, scan, online>>
  /\ Remade({"scan"})

-----------------------------------------------------------------------------
(* The credentials page. *)

OnCredentials(p) == step = "credentials" /\ p \in selected /\ p # "estimator"

Call(p, f) ==
  LET file == IF p = "efficientip" THEN seen.file ELSE f.file
  IN [provider |-> p, method |-> f.method, demo |-> ~online,
      file |-> IF f.how = "backup" THEN file ELSE None]

FormStep(callbacks) ==
  UNCHANGED <<step, selected, sessions, report, scan, online>> /\ Remade(callbacks)

Validate(p) ==
  /\ OnCredentials(p) /\ CanValidate(p, form[p]) /\ Spend("forms", 1)
  /\ form' = [form EXCEPT ![p].status = "validating"]
  /\ calls' = calls \cup {Call(p, form[p])}
  /\ UNCHANGED <<forests, asked, probe, qps, vault, shifted>> /\ FormStep({})

SwitchMethod(p, m) ==
  /\ OnCredentials(p) /\ Spend("forms", 1)
  /\ form' = [form EXCEPT ![p] = SwitchedMethod(p, @, m)]
  /\ UNCHANGED <<forests, calls, asked, probe, qps, vault, shifted>> /\ FormStep({"scan", "upload"})

(* Typing into a field changes what is not modelled, and what is memoised.  *)
TypeCredentials(p) ==
  /\ OnCredentials(p) /\ form[p].how = "api"
  /\ UNCHANGED <<form, forests, calls, asked, probe, qps, vault, shifted, budget>>
  /\ FormStep({"scan", "upload"})

PickFile(p, b) ==
  /\ OnCredentials(p) /\ form[p].how = "backup" /\ b # form[p].file /\ Spend("forms", 1)
  /\ form' = [form EXCEPT ![p] = PickedFile(@, b)]
  /\ calls' = IF ParsesAtOnce(form[p]) THEN calls \cup {Call(p, form'[p])} ELSE calls
  /\ UNCHANGED <<forests, asked, probe, qps, vault, shifted>> /\ FormStep(IF p = "nios" THEN {"upload"} ELSE {})

RemoveFile(p) ==
  /\ OnCredentials(p) /\ form[p].how = "backup" /\ form[p].file # None
  /\ form[p].status \in {"valid", "error"} /\ Spend("forms", 1)
  /\ form' = [form EXCEPT ![p] = RemovedFile(p, @)]
  /\ UNCHANGED <<forests, calls, asked, probe, qps, vault, shifted>> /\ FormStep(IF p = "nios" THEN {"scan", "upload"} ELSE {"scan"})

(* The probe of the forest runs after the primary AD credentials validate, *)
(* not for Kerberos and not in the demo.                                   *)
Probes(p, m) == p = "microsoft" /\ m # "kerberos" /\ online

AnswerValidation(c) ==
  /\ calls' = calls \ {c}
  /\ \/ /\ form' = [form EXCEPT ![c.provider] = Validated(c.provider, @, c)]
        /\ probe' = IF ~c.demo /\ Probes(c.provider, c.method)
                    THEN [NoProbe EXCEPT !.running = TRUE] ELSE probe
        /\ UNCHANGED <<forests, asked, qps, vault, shifted, budget>> /\ FormStep({"scan"})
     \/ /\ ~c.demo /\ form' = [form EXCEPT ![c.provider] = Refused(@)] /\ UNCHANGED probe
        /\ UNCHANGED <<forests, asked, qps, vault, shifted, budget>> /\ FormStep({})

AnswerProbe(found) ==
  /\ probe.running
  /\ probe' = [probe EXCEPT !.running = FALSE, !.found = IF found = {} THEN @ ELSE found]
  /\ UNCHANGED <<form, forests, calls, asked, qps, vault, shifted, budget>> /\ FormStep({})

ProbeShown ==
  /\ OnCredentials("microsoft") /\ form["microsoft"].status = "valid"
  /\ ~probe.dismissed /\ ~probe.running /\ probe.found # {}

AddDiscovered(s) ==
  /\ ProbeShown /\ s \in probe.found
  /\ form' = [form EXCEPT !["microsoft"] = AddedServers(@, {s})]
  /\ probe' = [probe EXCEPT !.found = @ \ {s}]
  /\ UNCHANGED <<forests, calls, asked, qps, vault, shifted, budget>> /\ FormStep({"scan", "upload"})

AddAllDiscovered ==
  /\ ProbeShown
  /\ form' = [form EXCEPT !["microsoft"] = AddedServers(@, probe.found)]
  /\ probe' = [probe EXCEPT !.dismissed = TRUE]
  /\ UNCHANGED <<forests, calls, asked, qps, vault, shifted, budget>> /\ FormStep({"scan", "upload"})

DismissDiscovery ==
  /\ ProbeShown /\ probe' = [probe EXCEPT !.dismissed = TRUE]
  /\ UNCHANGED <<form, forests, calls, asked, qps, vault, shifted, budget>> /\ FormStep({})

(* Query rates may be uploaded once a backup is parsed. *)
QpsShown == OnCredentials("nios") /\ form["nios"].how = "backup"
            /\ form["nios"].status = "valid" /\ form["nios"].file # None

UploadQps ==
  /\ QpsShown /\ Spend("forms", 1) /\ qps' = [qps EXCEPT !.uploading = TRUE]
  /\ UNCHANGED <<form, forests, calls, asked, probe, vault, shifted>> /\ FormStep({})

AnswerQps ==
  /\ qps.uploading
  /\ qps' \in {[uploading |-> FALSE, token |-> t] : t \in {qps.token, "qps"}}
  /\ UNCHANGED <<form, forests, calls, asked, probe, vault, shifted, budget>> /\ FormStep({})

RemoveQps ==
  /\ QpsShown /\ ~qps.uploading /\ qps.token # None /\ qps' = NoQps
  /\ UNCHANGED <<form, forests, calls, asked, probe, vault, shifted, budget>> /\ FormStep({})

ForestsShown == OnCredentials("microsoft") /\ form["microsoft"].status = "valid"

AddForest ==
  /\ ForestsShown /\ Spend("forests", 1)
  /\ forests' = Append(forests, NewForest(budget.forests))
  /\ UNCHANGED <<form, calls, asked, probe, qps, vault, shifted>> /\ FormStep({})

RemoveForest(i) ==
  /\ ForestsShown /\ Spend("forms", 1)
  /\ forests' = RemoveAt(forests, i) /\ shifted' = TRUE
  /\ UNCHANGED <<form, calls, asked, probe, qps, vault>> /\ FormStep({})

EditForest(i) ==
  /\ ForestsShown /\ Spend("forms", 1)
  /\ \/ forests' = [forests EXCEPT ![i] = EditedForest(@)]
     \/ forests' = [forests EXCEPT ![i] = SwitchedForest(@)]
  /\ UNCHANGED <<form, calls, asked, probe, qps, vault, shifted>> /\ FormStep({})

ValidateForest(i) ==
  /\ ForestsShown /\ forests[i].status # "validating" /\ Spend("forms", 1)
  /\ forests' = [forests EXCEPT ![i] = [@ EXCEPT !.status = "validating"]]
  /\ asked' = asked \cup {[index |-> i, of |-> forests[i].id]}
  /\ UNCHANGED <<form, calls, probe, qps, vault, shifted>> /\ FormStep({})

(* The server stores the credentials it validated under the index it got.  *)
AnswerForest(a, ok) ==
  /\ asked' = asked \ {a}
  /\ forests' = AnsweredForest(forests, a.index, ok)
  /\ vault' = IF ok THEN [i \in DOMAIN vault \cup {a.index} |-> IF i = a.index THEN a.of ELSE vault[i]]
              ELSE vault
  /\ UNCHANGED <<form, calls, probe, qps, shifted, budget>> /\ FormStep({})

-----------------------------------------------------------------------------
(* The sources page. *)

ChangeSources(p, f) ==
  /\ step = "sources" /\ p \in selected /\ f # form[p] /\ Spend("picks", 1)
  /\ form' = [form EXCEPT ![p] = f]
  /\ UNCHANGED <<forests, calls, asked, probe, qps, vault, shifted>> /\ FormStep({"scan"})

ToggleSubscription(p, s) ==
  s \in form[p].listed /\ ChangeSources(p, [form[p] EXCEPT !.checked = Toggled(@, s)])

ToggleAllFiltered(p, visible) == ChangeSources(p, ToggledVisible(form[p], visible))

SwitchMode(p, m) == ChangeSources(p, SwitchedMode(form[p], m))

ValidForests == SelectSeq(forests, LAMBDA g : g.status = "valid")

ToggleForest(n, s) ==
  /\ step = "sources" /\ "microsoft" \in selected /\ Spend("picks", 1)
  /\ n \in DOMAIN ValidForests /\ s \in ValidForests[n].listed
  /\ forests' = ToggledForestSource(forests, n, s)
  /\ UNCHANGED <<form, calls, asked, probe, qps, vault, shifted>> /\ FormStep({})

-----------------------------------------------------------------------------
(* Scanning. *)

ScanStep(callbacks) ==
  UNCHANGED <<step, selected, forms, sessions, online, job, request>> /\ Remade(callbacks)

(* The call that starts the scan returns.  Its interval is created then,   *)
(* also when the page was left in the meantime.                            *)
StartAnswered(k) ==
  /\ jobs[k].stage = "starting"
  /\ jobs' = [jobs EXCEPT ![k].stage = "polling", ![k].ticking = TRUE,
                          ![k].early = jobs[k].stale \/ step # "scanning"]
  /\ server' = [server EXCEPT ![k] = "running"]
  /\ ScanStep({}) /\ UNCHANGED <<report, progress, error, overtaken, budget>>

StartFailed(k) ==
  /\ jobs[k].stage = "starting" /\ Spend("losses", 1)
  /\ jobs' = [jobs EXCEPT ![k].stage = "polling"]
  /\ error' = "start" /\ overtaken' = (overtaken \/ jobs[k].stale)
  /\ ScanStep({}) /\ UNCHANGED <<report, progress, server>>

(* The scan on the server; its progress may reach 100 before it is complete. *)
NextStage == [running |-> "half", half |-> "finishing", finishing |-> "complete"]

ServerStep(k) ==
  /\ server[k] \in DOMAIN NextStage
  /\ server' = [server EXCEPT ![k] = NextStage[@]]
  /\ ScanStep({}) /\ UNCHANGED <<report, jobs, progress, error, overtaken, budget>>

StatusOf(k) == CASE server[k] = "running" -> "0" [] server[k] = "half" -> "50"
                 [] server[k] = "finishing" -> "100" [] OTHER -> "complete"

(* The interval fires: the status is asked, and lost with the connection.  *)
Tick(k) ==
  /\ jobs[k].stage = "polling" /\ jobs[k].ticking
  /\ Cardinality(jobs[k].answers) < MaxInFlight
  /\ \/ jobs' = [jobs EXCEPT ![k].answers = @ \cup {StatusOf(k)}] /\ UNCHANGED budget
     \/ Spend("losses", 1) /\ jobs' = [jobs EXCEPT ![k].answers = @ \cup {"lost"}]
  /\ jobs' # jobs
  /\ ScanStep({}) /\ UNCHANGED <<report, server, progress, error, overtaken>>

(* An answer is late when a later scan was started or reset meanwhile, or  *)
(* an answer that says more was already applied.                           *)
ProgressOf(a) == CASE a = "0" -> 0 [] a = "50" -> 50 [] OTHER -> 100

Late(k, a) ==
  jobs[k].stale \/ step \notin {"scanning", "results"}
    \/ (a # "lost" /\ a # "results" /\ ProgressOf(a) < progress)
    \/ (a = "lost" /\ report.totals = k)

Arrives(k, a) == a \in jobs[k].answers /\ overtaken' = (overtaken \/ Late(k, a))

(* An answer with a progress; when the scan is complete the interval is    *)
(* cleared and the results are asked.                                      *)
ApplyStatus(k, a) ==
  /\ progress' = ProgressOf(a)
  /\ jobs' = [jobs EXCEPT ![k].answers = (@ \ {a}) \cup (IF a = "complete" THEN {"results"} ELSE {}),
                          ![k].ticking = @ /\ a # "complete"]
  /\ UNCHANGED <<report, error>>

ApplyResults(k) ==
  LET provs == jobs[k].providers
      found == {[provider |-> p, from |-> ScanName[k]] : p \in provs}
  IN /\ progress' = 100
     /\ report' = [report EXCEPT
          !.rows = MergeFindings(jobs[k].kept, found, provs),
          !.totals = k, !.live = provs, !.errors = {},
          !.nios = IF "nios" \in provs THEN ScanName[k] ELSE @,
          !.ad = IF "microsoft" \in provs THEN ScanName[k] ELSE @]
     /\ jobs' = [jobs EXCEPT ![k].answers = @ \ {"results"}]
     /\ UNCHANGED error

(* A bug: the interval is cleared, the page is not told.                   *)
LossSwallowed(k, a) ==
  /\ jobs' = [jobs EXCEPT ![k].answers = @ \ {a}, ![k].ticking = FALSE]
  /\ UNCHANGED <<report, progress, error>>

ApplyLoss(k, a) ==
  /\ error' = "connection"
  /\ jobs' = [jobs EXCEPT ![k].answers = @ \ {a}, ![k].ticking = FALSE]
  /\ UNCHANGED <<report, progress>>

(* The call for the results of a complete scan can fail too: the interval  *)
(* was cleared and the progress is 100 by then.                            *)
Deliver(k, a) ==
  /\ Arrives(k, a) /\ UNCHANGED server
  /\ \/ /\ a \in {"0", "50", "100", "complete"} /\ ApplyStatus(k, a)
        /\ ScanStep({}) /\ UNCHANGED budget
     \/ a = "results" /\ ApplyResults(k) /\ ScanStep({"scan"}) /\ UNCHANGED budget
     \/ a = "results" /\ ApplyLoss(k, a) /\ ScanStep({}) /\ Spend("losses", 1)
     \/ a = "lost" /\ ApplyLoss(k, a) /\ ScanStep({}) /\ UNCHANGED budget

(* The demo: one interval per provider; the last to end shows mock rows.   *)
DemoTick(k, p) ==
  LET done == jobs[k].done \cup {p}
      provs == jobs[k].providers
      found == {[provider |-> q, from |-> Demo] : q \in provs}
  IN /\ jobs[k].stage = "demo" /\ jobs[k].ticking /\ p \in provs \ jobs[k].done
     /\ jobs' = [jobs EXCEPT ![k].done = done, ![k].ticking = done # provs]
     /\ progress' = IF done = provs THEN 100 ELSE 50
     /\ report' = IF done # provs THEN report ELSE
          [report EXCEPT !.rows = MergeFindings(jobs[k].kept, found, provs),
                         !.live = provs]
     /\ ScanStep(IF done = provs THEN {"scan"} ELSE {}) /\ UNCHANGED <<server, error, overtaken, budget>>

(* The ping every eight seconds decides whether the wizard is in the demo. *)
Ping ==
  /\ Spend("pings", 1) /\ online' = ~online
  /\ UNCHANGED <<step, selected, forms, sessions, report, scan>> /\ Remade({"scan", "upload"})

-----------------------------------------------------------------------------
(* Session files, dropped on the first page.  A batch is read file by file *)
(* and committed when all are read; "base" is None while the list it was   *)
(* dropped on is shown.                                                    *)

AddFiles(names) ==
  /\ step = "providers" /\ Spend("batches", 1)
  /\ batches' = batches \cup {[todo |-> names, own |-> <<>>, base |-> None, id |-> budget.batches]}
  /\ UNCHANGED <<step, selected, forms, loaded, report, scan, online, seen>>

ListOf(b) == IF b.base = None THEN loaded ELSE b.base

(* One file is read: unreadable ones and those already loaded are reported. *)
Taken(b) ==
  LET file == Head(b.todo)
  IN IF ValidateSessionSchema(file) /\ ~IsDuplicate(ListOf(b) \o b.own, file)
     THEN Append(b.own, file) ELSE b.own

(* A bug: the totals of the server survive the restart() of applySnapshot. *)
SnapshotUnderTotals(s) ==
  [rows |-> s.rows, totals |-> report.totals, imported |-> s.providers, live |-> {},
   errors |-> s.errors, nios |-> s.nios, ad |-> s.ad]

SnapshotReport(s) ==
  [rows |-> s.rows, totals |-> 0, imported |-> s.providers, live |-> {},
   errors |-> s.errors, nios |-> s.nios, ad |-> s.ad]

(* applySnapshot: restart(), then what the files say. *)
ApplySnapshot(s) ==
  /\ Restarted
  /\ selected' = s.providers
  /\ report' = SnapshotReport(s)

(* applyList of the drop zone: restart() when no file is left. *)
ApplyList(list) ==
  IF list = <<>>
  THEN Restarted /\ selected' = {} /\ report' = BlankReport(report)
  ELSE ApplySnapshot(MergeSnapshots(list))

Reread(b) == batches' = (batches \ {b}) \cup {[b EXCEPT !.todo = Tail(@), !.own = Taken(b)]}

(* Batches dropped on the same list see what this one adds to it. *)
Committed(b, list) ==
  {IF c.base # None /\ c.base = b.base THEN [c EXCEPT !.base = list] ELSE c : c \in batches \ {b}}

ReadFile(b) ==
  /\ \/ Len(b.todo) > 1 /\ Reread(b)
        /\ UNCHANGED <<step, selected, forms, loaded, report, scan, overtaken, seen>>
     \/ /\ Len(b.todo) = 1 /\ Taken(b) = <<>> /\ batches' = batches \ {b}
        /\ UNCHANGED <<step, selected, forms, loaded, report, scan, overtaken, seen>>
     \/ /\ Len(b.todo) = 1 /\ Taken(b) # <<>>
        /\ ApplySnapshot(MergeSnapshots(ListOf(b) \o Taken(b)))
        /\ loaded' = IF b.base = None THEN ListOf(b) \o Taken(b) ELSE loaded
        /\ batches' = Committed(b, ListOf(b) \o Taken(b))
        /\ overtaken' = (b.base # None)
  /\ UNCHANGED <<online, budget>>

RemoveLoaded(i) ==
  LET list == Without(loaded, loaded[i])
  IN /\ step = "providers" /\ Spend("moves", 1)
     /\ ApplyList(list) /\ loaded' = list
     /\ overtaken' = FALSE /\ UNCHANGED <<batches, online>>

-----------------------------------------------------------------------------
(* One step of the user, of a call that returns, of the server or a timer. *)
Navigate == GoNext \/ GoScan \/ Retry \/ GoBack \/ Restart \/ HandleSizerImportConfirm
              \/ \E p \in Providers : ToggleProvider(p)

FillForms ==
  \/ \E p \in selected : Validate(p) \/ TypeCredentials(p) \/ RemoveFile(p)
  \/ \E p \in selected : \E m \in Methods(p) : SwitchMethod(p, m)
  \/ \E p \in selected, b \in Backups : PickFile(p, b)
  \/ UploadQps \/ RemoveQps \/ AddForest \/ AddAllDiscovered \/ DismissDiscovery
  \/ \E s \in Discoverable : AddDiscovered(s)
  \/ \E i \in DOMAIN forests : RemoveForest(i) \/ EditForest(i) \/ ValidateForest(i)

Answers ==
  \/ \E c \in calls : AnswerValidation(c)
  \/ \E a \in asked, ok \in BOOLEAN : AnswerForest(a, ok)
  \/ \E found \in SUBSET Discoverable : AnswerProbe(found)
  \/ AnswerQps

PickSources ==
  \/ \E p \in selected : \E s \in Sources(p) : ToggleSubscription(p, s)
  \/ \E p \in selected : \E v \in SUBSET form[p].listed : v # {} /\ ToggleAllFiltered(p, v)
  \/ \E p \in selected, m \in {"include", "exclude"} : SwitchMode(p, m)
  \/ \E n \in DOMAIN forests, s \in Sources("microsoft") : ToggleForest(n, s)

RunScan ==
  \/ \E k \in Scans : StartAnswered(k) \/ StartFailed(k) \/ ServerStep(k) \/ Tick(k)
  \/ \E k \in Scans : \E a \in jobs[k].answers : Deliver(k, a)
  \/ \E k \in Scans : \E p \in jobs[k].providers : DemoTick(k, p)
  \/ Ping

LoadFiles ==
  \/ \E f \in Files : AddFiles(<<f>>)
  \/ \E f, g \in Files : f # g /\ AddFiles(<<f, g>>)
  \/ \E b \in batches : ReadFile(b)
  \/ \E i \in DOMAIN loaded : RemoveLoaded(i)

Next == Navigate \/ FillForms \/ Answers \/ PickSources \/ RunScan \/ LoadFiles

Spec == Init /\ [][Next]_vars
-----------------------------------------------------------------------------
(* Properties. *)

Statuses == {"idle", "validating", "valid", "error"}

(* Shapes, and what restart(), the filters of the list and the bounds of   *)
(* the pollers keep true: a file is shown only where backups are read, a   *)
(* forest is listed once, and progress is what the server or the demo says.*)
TypeOK ==
  /\ step \in Range(Pages) /\ progress \in {0, 50, 100} /\ job \in 0..Len(ScanName)
  /\ error \in {"", "start", "connection"}
  /\ \A p \in Providers :
       /\ form[p].status \in Statuses /\ form[p].method \in Methods(p)
       /\ form[p].checked \subseteq form[p].listed
       /\ form[p].file # None => form[p].how = "backup"
  /\ \A i, j \in DOMAIN forests : forests[i].id = forests[j].id => i = j
  /\ \A k \in Scans : jobs[k].done \subseteq jobs[k].providers /\ (k > job => jobs[k].answers = {} /\ server[k] = "none")

(* wizard.tsx keeps the rows of a scan and the server's totals in separate *)
(* states, set together when results arrive and reset in several places:   *)
(* unless an answer came late, totals shown are those of the rows shown,   *)
(* and the rows of a scan are never mixed with those of another or a file. *)
TotalsMatchRows ==
  overtaken \/ \A r \in report.rows :
    LET from == report.totals
    IN IF from # 0 THEN r.from = ScanName[from] ELSE r.from \notin Range(ScanName)

(* mergeSnapshots, after any adding, removing and overlapping reading: all *)
(* rows and errors of a provider are those of one and the same file, one   *)
(* that lists it if any does, and else one that has rows for it.           *)
AssessmentIsMerge ==
  (step = "providers" /\ loaded # <<>> /\ ~overtaken) =>
     \A p \in UNION {Range(f.rows) : f \in Range(loaded)} :
       \E f \in Range(loaded) :
         /\ {r \in report.rows : r.provider = p} =
              {[provider |-> q, from |-> f.name] : q \in Range(f.rows) \cap {p}}
         /\ IF \E g \in Range(loaded) : Contains(g.providers, p)
            THEN Contains(f.providers, p) ELSE Contains(f.rows, p)
         /\ \A e \in report.errors : ToFrontendProvider(e.provider) = p => e.from = f.name

(* The request of startScan asks of each provider what the sources page    *)
(* says will be scanned, and sends each additional forest under the index  *)
(* where the server keeps that forest's own credentials, unless a forest   *)
(* was removed or the page was reset during a validation.                  *)
RequestIsSelection ==
  [][request' # request => \A p \in DOMAIN request' :
       /\ request'[p].subscriptions =
            {s \in form[p].listed : (form[p].mode = "include") = (s \in form[p].checked)}
       /\ (p = "nios" /\ form[p].mode = "include") => request'[p].members = form[p].checked
       /\ shifted \/ \A x \in Range(request'[p].forests) :
            x.index \in DOMAIN vault /\ vault[x.index] = x.of]_vars

(* With no error set, a user on the scanning page waits for something (the *)
(* call that starts the scan, an interval or an answer), or may go on to   *)
(* the rows of the scan, unless an answer came late.  In particular a      *)
(* failed call for the results of a complete scan sets the error           *)
(* (wizard.tsx:688, 1275-1356).                                            *)
NeverStranded ==
  (step = "scanning" /\ error = "" /\ ~overtaken) =>
     \E k \in Scans : /\ ~jobs[k].stale
                      /\ \/ jobs[k].stage = "starting" \/ jobs[k].ticking \/ jobs[k].answers # {}
                         \/ progress = 100 /\ jobs[k].providers \subseteq {r.provider : r \in report.rows}

(* No poller runs on behind pages that do not show it, but for one whose   *)
(* scan was still starting when the page was left, and late answers.       *)
PollersStop ==
  (step \notin {"scanning", "results"} /\ ~overtaken) =>
     \A k \in Scans : jobs[k].ticking => jobs[k].early

(* Query rates uploaded for a backup: "Enhances tier calculations with     *)
(* real DNS query rates" (wizard.tsx:2858).  A scan of NIOS sends those    *)
(* that the page shows as uploaded.  The callback that starts it does not  *)
(* depend on them.                                                         *)
QueryRatesAreSent ==
  [][(request' # request /\ "nios" \in DOMAIN request') => request'["nios"].qps = qps.token]_vars
=============================================================================
