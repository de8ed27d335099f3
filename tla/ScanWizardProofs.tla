--------------------------- MODULE ScanWizardProofs ---------------------------
(***************************************************************************)
(* The safety of ScanWizard for any providers, sources, session files and  *)
(* budgets. First what each action does to the page, the report and the    *)
(* jobs; then the invariants in layers: the shape of the jobs, what the    *)
(* pages may rely on, what the rows and totals are made of, the list of    *)
(* session files, and the additional forests; then the shape of the forms, *)
(* and that the request of a scan asks for what the sources page shows.    *)
(***************************************************************************)
EXTENDS ScanWizard, Induction

-----------------------------------------------------------------------------
(* What the actions do                                                     *)

LEMMA PageFacts ==
    /\ Page("providers") = 1 /\ Page("credentials") = 2 /\ Page("sources") = 3
    /\ Page("scanning") = 4 /\ Page("results") = 5
    /\ Range(Pages) = {"providers", "credentials", "sources", "scanning", "results"}
<1>1. /\ DOMAIN Pages = 1..5
      /\ Pages[1] = "providers" /\ Pages[2] = "credentials" /\ Pages[3] = "sources"
      /\ Pages[4] = "scanning" /\ Pages[5] = "results"
  BY DEF Pages
<1>2. \A i, j \in 1..5 : Pages[i] = Pages[j] => i = j
  BY <1>1
<1>3. \A i \in 1..5 : Page(Pages[i]) = i
  BY <1>1, <1>2 DEF Page
<1> QED
  BY <1>1, <1>3 DEF Range

LEMMA ScanNameFacts ==
    Scans = {1, 2} /\ Len(ScanName) = 2 /\ Range(ScanName) = {"scan1", "scan2"}
BY DEF Scans, ScanName, Range

\* Filling in a form, picking sources and the pings touch no scan.
FormsOnly == FillForms \/ Answers \/ PickSources \/ Ping

LEMMA FormsOnlyStep ==
    ASSUME FormsOnly
    PROVE  UNCHANGED <<step, selected, sessions, report, scan>>
<1> USE DEF FormStep
<1>1. ASSUME FillForms
      PROVE  UNCHANGED <<step, selected, sessions, report, scan>>
  BY <1>1 DEF FillForms, Validate, TypeCredentials, RemoveFile, SwitchMethod, PickFile, UploadQps,
              RemoveQps, AddForest, AddAllDiscovered, DismissDiscovery, AddDiscovered, RemoveForest,
              EditForest, ValidateForest
<1>2. ASSUME Answers
      PROVE  UNCHANGED <<step, selected, sessions, report, scan>>
  BY <1>2 DEF Answers, AnswerValidation, AnswerForest, AnswerProbe, AnswerQps
<1>3. ASSUME PickSources
      PROVE  UNCHANGED <<step, selected, sessions, report, scan>>
  BY <1>3 DEF PickSources, ToggleSubscription, ToggleAllFiltered, SwitchMode, ChangeSources, ToggleForest
<1> QED
  BY <1>1, <1>2, <1>3 DEF FormsOnly, Ping

\* The pages that GoNext and GoBack turn to.
NextPage ==
  \/ step = "providers" /\ step' = "results" /\ report.imported # {} /\ report.rows # {}
  \/ step = "providers" /\ step' = "credentials" /\ (report.imported = {} \/ report.rows = {})
  \/ step = "credentials" /\ step' = "results" /\ "estimator" \in selected
  \/ step = "credentials" /\ step' = "sources" /\ "estimator" \notin selected
  \/ step = "scanning" /\ step' = "results" /\ progress = 100

LEMMA GoNextStep ==
    ASSUME GoNext
    PROVE  NextPage /\ UNCHANGED <<selected, report, scan>>
<1>1. UNCHANGED <<selected, report, scan>>
  BY DEF GoNext, GoTo
<1>2. CASE SkipsScan
  BY <1>1, <1>2 DEF GoNext, GoTo, CanGoNext, SkipsScan, NextPage
<1>3. CASE ~SkipsScan
  <2>1. step' = Pages[Page(step) + 1] /\ step # "sources" /\ CanGoNext
    BY <1>3 DEF GoNext, GoTo, SkipsScan
  <2>2. Pages[1 + 1] = "credentials" /\ Pages[2 + 1] = "sources" /\ Pages[4 + 1] = "results"
    BY DEF Pages
  <2>3. CASE step = "providers"
    BY <1>1, <1>3, <2>1, <2>2, <2>3, PageFacts DEF SkipsScan, NextPage
  <2>4. CASE step = "credentials"
    BY <1>1, <1>3, <2>1, <2>2, <2>4, PageFacts DEF SkipsScan, NextPage
  <2>5. CASE step = "scanning"
    BY <1>1, <2>1, <2>2, <2>5, PageFacts DEF CanGoNext, NextPage
  <2> QED
    BY <2>1, <2>3, <2>4, <2>5 DEF CanGoNext
<1> QED
  BY <1>1, <1>2, <1>3

\* Steps that touch no page, report or scan.
Aside == UNCHANGED <<step, selected, report, scan>>

Turned == NextPage /\ UNCHANGED <<selected, report, scan>>

Back ==
  /\ \/ step = "credentials" /\ step' = "providers"
     \/ step = "sources" /\ step' = "credentials"
     \/ step = "scanning" /\ step' = "sources"
  /\ jobs' = IF step = "scanning" THEN Cleared(jobs) ELSE jobs
  /\ UNCHANGED <<selected, report, job, server, progress, error, overtaken>>

Started ==
  /\ step \in {"sources", "scanning"} /\ step' = "scanning"
  /\ StartScan /\ UNCHANGED <<selected, sessions>>

\* The lists of files whose merge becomes the report.
Lists == {ListOf(b) \o Taken(b) : b \in batches} \cup {Without(loaded, loaded[i]) : i \in DOMAIN loaded}

Reset ==
  /\ step' = "providers" /\ jobs' = Retired(jobs) /\ progress' = 0 /\ error' = ""
  /\ UNCHANGED <<job, server>> /\ overtaken' \in BOOLEAN
  /\ report' = BlankReport(report) \/ \E list \in Lists : report' = SnapshotReport(MergeSnapshots(list))

ToSizer ==
  /\ step = "results" /\ step' = "credentials" /\ report.rows # {}
  /\ selected' = {"estimator"} /\ UNCHANGED <<sessions, report, scan>>

LEMMA GoBackStep ==
    ASSUME GoBack
    PROVE  Back
<1>1. Pages[2 - 1] = "providers" /\ Pages[3 - 1] = "credentials" /\ Pages[4 - 1] = "sources"
  BY DEF Pages
<1> QED
  BY <1>1, PageFacts DEF GoBack, GoTo, Back

LEMMA ReadFileStep ==
    ASSUME NEW b \in batches, ReadFile(b)
    PROVE  Aside \/ Reset
BY DEF ReadFile, ApplySnapshot, Restarted, Aside, Reset, scan, Lists

LEMMA RemoveLoadedStep ==
    ASSUME NEW i \in DOMAIN loaded, RemoveLoaded(i)
    PROVE  Reset
BY DEF RemoveLoaded, ApplyList, ApplySnapshot, Restarted, Reset, Lists

\* What a step does to the page, the report and the jobs.
LEMMA StepCases ==
    ASSUME [Next]_vars
    PROVE  \/ Aside \/ Turned \/ Back \/ Started \/ Reset \/ ToSizer
           \/ \E p \in Providers : ToggleProvider(p)
           \/ \E k \in Scans : StartAnswered(k) \/ StartFailed(k) \/ ServerStep(k) \/ Tick(k)
           \/ \E k \in Scans : \E a \in jobs[k].answers : Deliver(k, a)
           \/ \E k \in Scans : \E p \in jobs[k].providers : DemoTick(k, p)
<1>1. CASE GoNext
  BY <1>1, GoNextStep DEF Turned
<1>2. CASE GoScan \/ Retry
  BY <1>2 DEF GoScan, Retry, Started
<1>3. CASE GoBack
  BY <1>3, GoBackStep
<1>4. CASE Restart
  BY <1>4 DEF Restart, Restarted, Reset
<1>5. CASE HandleSizerImportConfirm
  BY <1>5 DEF HandleSizerImportConfirm, ToSizer
<1>6. CASE FormsOnly
  BY <1>6, FormsOnlyStep DEF Aside
<1>7. CASE LoadFiles
  <2>1. ASSUME NEW names, AddFiles(names)
        PROVE  Aside
    BY <2>1 DEF AddFiles, Aside
  <2> QED
    BY <1>7, <2>1, ReadFileStep, RemoveLoadedStep DEF LoadFiles
<1>8. CASE UNCHANGED vars
  BY <1>8 DEF vars, Aside, scan
<1> QED
  BY <1>1, <1>2, <1>3, <1>4, <1>5, <1>6, <1>7, <1>8
  DEF Next, Navigate, FormsOnly, RunScan
-----------------------------------------------------------------------------
(* Shapes                                                                  *)

JobFields == {"stage", "ticking", "early", "stale", "kept", "providers", "answers", "done"}

JobShape(j) ==
  /\ DOMAIN j = JobFields
  /\ j.stage \in {"idle", "starting", "polling", "demo"}
  /\ j.ticking \in BOOLEAN /\ j.early \in BOOLEAN /\ j.stale \in BOOLEAN

JobsShape == DOMAIN jobs = Scans /\ \A k \in Scans : JobShape(jobs[k])

ReportFields == {"rows", "totals", "imported", "live", "errors", "nios", "ad"}

ScanShape ==
  /\ step \in {"providers", "credentials", "sources", "scanning", "results"}
  /\ progress \in {0, 50, 100} /\ job \in {0, 1, 2}
  /\ error \in {"", "start", "connection"} /\ overtaken \in BOOLEAN
  /\ JobsShape
  /\ DOMAIN server = Scans /\ DOMAIN report = ReportFields

\* What clearScanIntervals does to each job.
LEMMA ClearedJobs ==
    ASSUME JobsShape
    PROVE  /\ DOMAIN Cleared(jobs) = Scans
           /\ \A k \in Scans : LET j == Cleared(jobs)[k]
                               IN /\ JobShape(j) /\ ~j.ticking
                                  /\ j.stage = jobs[k].stage /\ j.early = jobs[k].early
                                  /\ j.stale = jobs[k].stale /\ j.kept = jobs[k].kept
                                  /\ j.providers = jobs[k].providers
                                  /\ j.answers = jobs[k].answers
BY DEF Cleared, JobsShape, JobShape, JobFields

LEMMA RetiredJobs ==
    ASSUME JobsShape
    PROVE  /\ DOMAIN Retired(jobs) = Scans
           /\ \A k \in Scans : LET j == Retired(jobs)[k]
                               IN /\ JobShape(j) /\ ~j.ticking /\ j.stale
                                  /\ j.stage = jobs[k].stage /\ j.early = jobs[k].early
                                  /\ j.answers = jobs[k].answers
<1>1. \A k \in Scans : Retired(jobs)[k] = [Cleared(jobs)[k] EXCEPT !.stale = TRUE]
  BY DEF Retired
<1> QED
  BY <1>1, ClearedJobs DEF Retired, JobShape, JobFields

\* A scan that starts: every other job is retired.
LEMMA StartedJobs ==
    ASSUME JobsShape, Started, job \in {0, 1, 2}
    PROVE  /\ job' = job + 1 /\ job' \in Scans
           /\ DOMAIN jobs' = Scans
           /\ jobs'[job'] = StartedJob(selected)
           /\ \A k \in Scans : k # job' => jobs'[k] = Retired(jobs)[k]
<1>1. job < 2 /\ job' = job + 1
  BY ScanNameFacts DEF Started, StartScan
<1>2. job' \in Scans
  BY <1>1, ScanNameFacts
<1>3. jobs' = [Retired(jobs) EXCEPT ![job'] = StartedJob(selected)]
  BY <1>1 DEF Started, StartScan
<1> QED
  BY <1>1, <1>2, <1>3, RetiredJobs

LEMMA StartedShape ==
    ASSUME NEW providers
    PROVE  LET j == StartedJob(providers)
           IN /\ JobShape(j) /\ ~j.early /\ ~j.stale /\ j.answers = {} /\ j.providers = providers
              /\ j.kept = {r \in report.rows : r.provider \in report.imported}
              /\ (j.stage = "starting" /\ ~j.ticking) \/ (j.stage = "demo" /\ j.ticking)
<1> DEFINE j == StartedJob(providers)
<1>1. /\ DOMAIN j = JobFields /\ j.ticking \in BOOLEAN /\ ~j.early /\ ~j.stale
      /\ j.early \in BOOLEAN /\ j.stale \in BOOLEAN /\ j.stage \in {"starting", "demo"}
  BY DEF StartedJob, JobFields
<1>2. /\ j.answers = {} /\ j.providers = providers
      /\ j.kept = {r \in report.rows : r.provider \in report.imported}
  BY DEF StartedJob
<1>3. CASE online
  <2>1. j.stage = "starting"
    BY <1>3 DEF StartedJob
  <2>2. ~j.ticking
    BY <1>3 DEF StartedJob
  <2>3. JobShape(j)
    BY <1>1, <2>1 DEF JobShape
  <2> QED
    BY <1>1, <1>2, <2>1, <2>2, <2>3
<1>4. CASE ~online
  <2>1. j.stage = "demo"
    BY <1>4 DEF StartedJob
  <2>2. j.ticking
    BY <1>4 DEF StartedJob
  <2>3. JobShape(j)
    BY <1>1, <2>1 DEF JobShape
  <2> QED
    BY <1>1, <1>2, <2>1, <2>2, <2>3
<1> QED
  BY <1>3, <1>4

LEMMA InitShape == Init => ScanShape
<1> SUFFICES ASSUME Init
             PROVE  ScanShape
  OBVIOUS
<1>1. JobShape(NoJob)
  BY DEF JobShape, NoJob, JobFields
<1>2. DOMAIN report = ReportFields
  BY DEF Init, ReportFields, NoReport
<1>3. DOMAIN jobs = Scans /\ DOMAIN server = Scans
  BY DEF Init
<1>4. ASSUME NEW k \in Scans
      PROVE  JobShape(jobs[k])
  BY <1>1 DEF Init
<1>5. job \in {0, 1, 2} /\ progress \in {0, 50, 100} /\ overtaken \in BOOLEAN /\ error = "" /\ step = "providers"
  BY DEF Init
<1> QED
  BY <1>2, <1>3, <1>4, <1>5 DEF ScanShape, JobsShape

LEMMA ShapeStep ==
    ASSUME ScanShape, [Next]_vars
    PROVE  ScanShape'
<1>0. JobsShape
  BY DEF ScanShape
<1>1. CASE Aside
  BY <1>1 DEF ScanShape, Aside, scan, JobsShape
<1>2. CASE Turned
  BY <1>2 DEF ScanShape, Turned, NextPage, scan, JobsShape
<1>3. CASE Back
  <2>1. JobsShape'
    BY <1>0, <1>3, ClearedJobs DEF Back, JobsShape
  <2> QED
    BY <1>3, <2>1 DEF ScanShape, Back
<1>4. CASE Started
  <2>0. /\ job' \in Scans /\ DOMAIN jobs' = Scans /\ jobs'[job'] = StartedJob(selected)
        /\ \A k \in Scans : k # job' => jobs'[k] = Retired(jobs)[k]
    BY <1>0, <1>4, StartedJobs DEF ScanShape
  <2>1. JobsShape'
    <3>1. ASSUME NEW k \in Scans
          PROVE  JobShape(jobs'[k])
      <4>1. CASE k = job'
        BY <2>0, <4>1, StartedShape
      <4>2. CASE k # job'
        BY <1>0, <2>0, <4>2, RetiredJobs
      <4> QED
        BY <4>1, <4>2
    <3> QED
      BY <2>0, <3>1 DEF JobsShape
  <2>2. DOMAIN report' = ReportFields /\ DOMAIN server' = Scans /\ overtaken' = overtaken
    BY <1>4 DEF ScanShape, Started, StartScan
  <2>3. job' \in {0, 1, 2}
    BY <2>0, ScanNameFacts
  <2>4. progress' = 0 /\ error' = "" /\ step' = "scanning"
    BY <1>4 DEF Started, StartScan
  <2> QED
    BY <2>1, <2>2, <2>3, <2>4 DEF ScanShape
<1>5. CASE Reset
  <2>1. DOMAIN report' = ReportFields
    BY <1>5 DEF Reset, SnapshotReport, BlankReport, NoReport, ReportFields
  <2>2. JobsShape'
    BY <1>0, <1>5, RetiredJobs DEF Reset, JobsShape
  <2> QED
    BY <1>5, <2>1, <2>2 DEF ScanShape, Reset
<1>6. CASE ToSizer
  BY <1>6 DEF ScanShape, ToSizer, scan, JobsShape
<1>7. CASE \E p \in Providers : ToggleProvider(p)
  BY <1>7, ZenonT(60) DEF ScanShape, ToggleProvider, scan, JobsShape
<1>8. ASSUME NEW k \in Scans, StartAnswered(k) \/ StartFailed(k) \/ ServerStep(k) \/ Tick(k)
      PROVE  ScanShape'
  <2> USE DEF ScanStep
  <2>1. JobsShape'
    <3> USE DEF JobsShape, JobShape, JobFields
    <3>1. CASE StartAnswered(k)
      <4>1. jobs' = [jobs EXCEPT ![k].stage = "polling", ![k].ticking = TRUE,
                                 ![k].early = jobs[k].stale \/ step # "scanning"]
        BY <3>1 DEF StartAnswered
      <4> QED
        BY <1>0, <4>1
    <3>2. CASE StartFailed(k)
      <4>1. jobs' = [jobs EXCEPT ![k].stage = "polling"]
        BY <3>2 DEF StartFailed
      <4> QED
        BY <1>0, <4>1
    <3>3. CASE ServerStep(k)
      BY <1>0, <3>3 DEF ServerStep
    <3>4. CASE Tick(k)
      <4>1. PICK a : jobs' = [jobs EXCEPT ![k].answers = @ \cup {a}]
        BY <3>4 DEF Tick
      <4> QED
        BY <1>0, <4>1
    <3> QED
      BY <1>8, <3>1, <3>2, <3>3, <3>4
  <2>2. UNCHANGED <<step, job, report, progress>> /\ DOMAIN server' = Scans
    BY <1>8 DEF ScanShape, StartAnswered, StartFailed, ServerStep, Tick
  <2>3. overtaken' \in BOOLEAN /\ error' \in {"", "start", "connection"}
    BY <1>8 DEF ScanShape, StartAnswered, StartFailed, ServerStep, Tick
  <2> QED
    BY <2>1, <2>2, <2>3 DEF ScanShape
<1>9. ASSUME NEW k \in Scans, NEW a \in jobs[k].answers, Deliver(k, a)
      PROVE  ScanShape'
  <2> USE DEF ScanStep, Deliver
  <2>1. JobsShape'
    <3> USE DEF JobsShape, JobShape, JobFields
    <3>1. CASE ApplyStatus(k, a)
      <4> DEFINE t == jobs[k].ticking /\ a # "complete"
                 S == (jobs[k].answers \ {a}) \cup (IF a = "complete" THEN {"results"} ELSE {})
      <4>1. jobs' = [jobs EXCEPT ![k].answers = S, ![k].ticking = t] /\ t \in BOOLEAN
        BY <1>0, <3>1 DEF ApplyStatus
      <4> QED
        BY <1>0, <4>1
    <3>2. CASE ApplyResults(k)
      <4>1. jobs' = [jobs EXCEPT ![k].answers = @ \ {"results"}]
        BY <3>2 DEF ApplyResults
      <4> QED
        BY <1>0, <4>1
    <3>3. CASE ApplyLoss(k, a)
      <4>1. jobs' = [jobs EXCEPT ![k].answers = @ \ {a}, ![k].ticking = FALSE]
        BY <3>3 DEF ApplyLoss
      <4> QED
        BY <1>0, <4>1
    <3> QED
      BY <1>9, <3>1, <3>2, <3>3
  <2>2. progress' \in {0, 50, 100} /\ error' \in {"", "start", "connection"} /\ overtaken' \in BOOLEAN
    BY <1>9 DEF ScanShape, ApplyStatus, ApplyResults, ApplyLoss, Arrives, ProgressOf
  <2>3. UNCHANGED <<step, job, server>> /\ DOMAIN report' = DOMAIN report
    BY <1>9 DEF ApplyStatus, ApplyResults, ApplyLoss
  <2> QED
    BY <2>1, <2>2, <2>3 DEF ScanShape
<1>10. ASSUME NEW k \in Scans, NEW p \in jobs[k].providers, DemoTick(k, p)
       PROVE  ScanShape'
  <2> USE DEF ScanStep, DemoTick
  <2>1. JobsShape'
    <3> DEFINE S == jobs[k].done \cup {p}
               t == S # jobs[k].providers
    <3>1. jobs' = [jobs EXCEPT ![k].done = S, ![k].ticking = t] /\ t \in BOOLEAN
      BY <1>10
    <3> HIDE DEF t
    <3> QED
      BY <1>0, <3>1 DEF JobsShape, JobShape, JobFields
  <2>2. progress' \in {0, 50, 100} /\ DOMAIN report' = DOMAIN report /\ UNCHANGED <<step, job, server, error, overtaken>>
    BY <1>10
  <2> QED
    BY <2>1, <2>2, ZenonT(60) DEF ScanShape
<1> QED
  BY <1>1, <1>2, <1>3, <1>4, <1>5, <1>6, <1>7, <1>8, <1>9, <1>10, StepCases
-----------------------------------------------------------------------------
(* The jobs                                                                *)

\* Scans are numbered as they start. What started a poller or a demo is over
\* before it ticks, a job of which the results are asked ticks no more, and
\* one whose page was reset only ticks when it was still starting then.
JobOk(k) ==
  /\ k > job => jobs[k].stage = "idle" /\ server[k] = "none"
  /\ k < job => jobs[k].stale
  /\ jobs[k].ticking => jobs[k].stage \in {"polling", "demo"}
  /\ jobs[k].answers # {} => jobs[k].stage = "polling"
  /\ jobs[k].early => jobs[k].stage = "polling"
  /\ jobs[k].ticking => "results" \notin jobs[k].answers
  /\ jobs[k].ticking /\ jobs[k].stale => jobs[k].early

JobInv == \A k \in Scans : JobOk(k)

LEMMA JobInvInit == Init => JobInv
<1> SUFFICES ASSUME Init, NEW k \in Scans
             PROVE  JobOk(k)
  BY DEF JobInv
<1>1. jobs[k] = NoJob /\ server[k] = "none"
  BY DEF Init
<1>2. job = 0
  BY DEF Init
<1>3. /\ NoJob.stage = "idle" /\ ~NoJob.ticking /\ ~NoJob.early /\ NoJob.answers = {}
  BY DEF NoJob
<1> QED
  BY <1>1, <1>2, <1>3, ScanNameFacts DEF JobOk

\* What a step of the scan changes of its job, by what remains to be shown of it.
LEMMA OtherJobs ==
    ASSUME JobsShape, JobInv, NEW k \in Scans, job' = job,
           \A i \in Scans : i # k => jobs'[i] = jobs[i] /\ server'[i] = server[i],
           JobOk(k)'
    PROVE  JobInv'
<1>1. \A i \in Scans : i # k => JobOk(i)'
  BY DEF JobInv, JobOk
<1> QED
  BY <1>1 DEF JobInv

LEMMA JobStep ==
    ASSUME ScanShape, JobInv, [Next]_vars
    PROVE  JobInv'
<1>0. JobsShape /\ DOMAIN server = Scans /\ job \in {0, 1, 2}
  BY DEF ScanShape
<1>1. CASE UNCHANGED <<jobs, job, server>>
  BY <1>1 DEF JobInv, JobOk
<1>2. CASE Back
  BY <1>0, <1>2, ClearedJobs DEF Back, JobInv, JobOk
<1>3. CASE Started
  <2>1. server' = server
    BY <1>3 DEF Started, StartScan
  <2>2. ASSUME NEW k \in Scans
        PROVE  JobOk(k)'
    <3>1. CASE k = job'
      BY <1>0, <1>3, <3>1, StartedJobs, StartedShape, ScanNameFacts DEF JobOk
    <3>2. CASE k # job'
      <4>1. jobs'[k] = Retired(jobs)[k] /\ job' = job + 1
        BY <1>0, <1>3, <3>2, StartedJobs
      <4> QED
        BY <1>0, <2>1, <3>2, <4>1, RetiredJobs, ScanNameFacts DEF JobInv, JobOk
    <3> QED
      BY <3>1, <3>2
  <2> QED
    BY <2>2 DEF JobInv
<1>4. CASE Reset
  <2>1. jobs' = Retired(jobs) /\ UNCHANGED <<job, server>>
    BY <1>4 DEF Reset
  <2> QED
    BY <1>0, <2>1, RetiredJobs DEF JobInv, JobOk
<1>5. ASSUME NEW k \in Scans, StartAnswered(k) \/ StartFailed(k) \/ ServerStep(k) \/ Tick(k)
      PROVE  JobInv'
  <2> USE DEF ScanStep, JobsShape, JobShape, JobFields
  <2>1. CASE StartAnswered(k)
    <3>1. /\ jobs' = [jobs EXCEPT ![k].stage = "polling", ![k].ticking = TRUE,
                                  ![k].early = jobs[k].stale \/ step # "scanning"]
          /\ server' = [server EXCEPT ![k] = "running"] /\ job' = job /\ jobs[k].stage = "starting"
      BY <2>1 DEF StartAnswered
    <3> QED
      BY <1>0, <3>1, OtherJobs DEF JobInv, JobOk
  <2>2. CASE StartFailed(k)
    <3>1. /\ jobs' = [jobs EXCEPT ![k].stage = "polling"]
          /\ server' = server /\ job' = job /\ jobs[k].stage = "starting"
      BY <2>2 DEF StartFailed
    <3> QED
      BY <1>0, <3>1, OtherJobs DEF JobInv, JobOk
  <2>3. CASE ServerStep(k)
    <3>1. /\ server[k] # "none" /\ \A i \in Scans : i # k => server'[i] = server[i]
          /\ job' = job /\ jobs' = jobs
      BY <1>0, <2>3 DEF ServerStep, NextStage
    <3> QED
      BY <1>0, <3>1, OtherJobs DEF JobInv, JobOk
  <2>4. CASE Tick(k)
    <3>1. server' = server /\ job' = job /\ jobs[k].stage = "polling"
      BY <2>4 DEF Tick
    <3>2. CASE jobs' = [jobs EXCEPT ![k].answers = @ \cup {StatusOf(k)}]
      <4>1. StatusOf(k) # "results"
        BY DEF StatusOf
      <4> QED
        BY <1>0, <3>1, <3>2, <4>1, OtherJobs DEF JobInv, JobOk
    <3>3. CASE jobs' = [jobs EXCEPT ![k].answers = @ \cup {"lost"}]
      BY <1>0, <3>1, <3>3, OtherJobs DEF JobInv, JobOk
    <3> QED
      BY <2>4, <3>2, <3>3 DEF Tick
  <2> QED
    BY <1>5, <2>1, <2>2, <2>3, <2>4
<1>6. ASSUME NEW k \in Scans, NEW a \in jobs[k].answers, Deliver(k, a)
      PROVE  JobInv'
  <2> USE DEF ScanStep, Deliver, JobsShape, JobShape, JobFields
  <2>1. server' = server /\ job' = job
    BY <1>6
  <2>2. jobs[k].stage = "polling"
    BY DEF JobInv, JobOk
  <2>3. CASE ApplyStatus(k, a) /\ a = "complete"
    <3>1. jobs' = [jobs EXCEPT ![k].answers = (@ \ {a}) \cup {"results"}, ![k].ticking = FALSE]
      BY <2>3 DEF ApplyStatus
    <3> QED
      BY <1>0, <2>1, <2>2, <3>1, OtherJobs DEF JobInv, JobOk
  <2>4. CASE ApplyStatus(k, a) /\ a # "complete"
    <3>1. jobs' = [jobs EXCEPT ![k].answers = @ \ {a}]
      BY <1>0, <2>4 DEF ApplyStatus
    <3> QED
      BY <1>0, <2>1, <2>2, <3>1, OtherJobs DEF JobInv, JobOk
  <2>5. CASE ApplyResults(k)
    <3>1. jobs' = [jobs EXCEPT ![k].answers = @ \ {"results"}]
      BY <2>5 DEF ApplyResults
    <3> QED
      BY <1>0, <2>1, <2>2, <3>1, OtherJobs DEF JobInv, JobOk
  <2>6. CASE ApplyLoss(k, a)
    <3>1. jobs' = [jobs EXCEPT ![k].answers = @ \ {a}, ![k].ticking = FALSE]
      BY <2>6 DEF ApplyLoss
    <3> QED
      BY <1>0, <2>1, <2>2, <3>1, OtherJobs DEF JobInv, JobOk
  <2> QED
    BY <1>6, <2>3, <2>4, <2>5, <2>6
<1>7. ASSUME NEW k \in Scans, NEW p \in jobs[k].providers, DemoTick(k, p)
      PROVE  JobInv'
  <2> DEFINE S == jobs[k].done \cup {p}
             t == S # jobs[k].providers
  <2>1. /\ jobs' = [jobs EXCEPT ![k].done = S, ![k].ticking = t] /\ t \in BOOLEAN
        /\ server' = server /\ job' = job /\ jobs[k].ticking
    BY <1>7 DEF DemoTick, ScanStep
  <2> HIDE DEF t
  <2> QED
    BY <1>0, <2>1, OtherJobs DEF JobInv, JobOk, JobsShape, JobShape, JobFields
<1>8. Aside \/ Turned \/ ToSizer \/ (\E p \in Providers : ToggleProvider(p)) => UNCHANGED <<jobs, job, server>>
  BY DEF Aside, Turned, ToSizer, ToggleProvider, scan
<1> QED
  BY <1>1, <1>2, <1>3, <1>4, <1>5, <1>6, <1>7, <1>8, StepCases

\* Only the last scan that was started has a page that was not reset.
LEMMA OwnJob ==
    ASSUME ScanShape, JobInv, NEW k \in Scans,
           \/ jobs[k].stage # "idle" /\ ~jobs[k].stale
           \/ jobs[k].stage = "demo" /\ jobs[k].ticking
    PROVE  k = job
<1>1. jobs[k].stage # "idle" /\ ~jobs[k].stale
  BY DEF JobInv, JobOk
<1>2. ~(k > job) /\ ~(k < job)
  BY <1>1 DEF JobInv, JobOk
<1>3. k \in {1, 2} /\ job \in {0, 1, 2}
  BY ScanNameFacts DEF ScanShape
<1> QED
  BY <1>2, <1>3

\* Every provider of a scan has a row.
Answered(provs, rows) == provs \subseteq {r.provider : r \in rows}

LEMMA MergeAnswers ==
    ASSUME NEW kept, NEW provs, NEW name
    PROVE  Answered(provs, MergeFindings(kept, {[provider |-> q, from |-> name] : q \in provs}, provs))
<1> DEFINE found == {[provider |-> q, from |-> name] : q \in provs}
<1>1. ASSUME NEW q \in provs
      PROVE  \E r \in MergeFindings(kept, found, provs) : r.provider = q
  <2>1. [provider |-> q, from |-> name] \in MergeFindings(kept, found, provs)
    BY DEF MergeFindings
  <2>2. [provider |-> q, from |-> name].provider = q
    OBVIOUS
  <2> QED
    BY <2>1, <2>2
<1> QED
  BY <1>1 DEF Answered

LEMMA DeliverJobs ==
    ASSUME JobsShape, NEW k \in Scans, NEW a, Deliver(k, a)
    PROVE  /\ step' = step /\ job' = job /\ selected' = selected
           /\ \A i \in Scans : i # k => jobs'[i] = jobs[i]
           /\ \A i \in Scans : /\ jobs'[i].stage = jobs[i].stage /\ jobs'[i].early = jobs[i].early
                               /\ jobs'[i].stale = jobs[i].stale /\ jobs'[i].kept = jobs[i].kept
                               /\ jobs'[i].providers = jobs[i].providers
                               /\ jobs'[i].ticking => jobs[i].ticking
           /\ \/ a \in {"0", "50", "100", "complete"} /\ ApplyStatus(k, a)
                 /\ (a # "complete" => /\ jobs'[k].ticking = jobs[k].ticking
                                       /\ jobs'[k].answers = jobs[k].answers \ {a})
                 /\ (a = "complete" => "results" \in jobs'[k].answers)
              \/ a = "results" /\ ApplyResults(k)
              \/ a \in {"lost", "results"} /\ ApplyLoss(k, a)
<1> USE DEF JobsShape, JobShape, JobFields
<1>1. step' = step /\ job' = job /\ selected' = selected
  BY DEF Deliver, ScanStep
<1>2. CASE ApplyStatus(k, a) /\ a = "complete"
  <2>1. jobs' = [jobs EXCEPT ![k].answers = (@ \ {a}) \cup {"results"}, ![k].ticking = FALSE]
    BY <1>2 DEF ApplyStatus
  <2> QED
    BY <1>1, <1>2, <2>1
<1>3. CASE ApplyStatus(k, a) /\ a \in {"0", "50", "100"}
  <2>1. jobs' = [jobs EXCEPT ![k].answers = @ \ {a}]
    BY <1>3, ZenonT(60) DEF ApplyStatus
  <2> QED
    BY <1>1, <1>3, <2>1
<1>4. CASE ApplyResults(k) /\ a = "results"
  <2>1. jobs' = [jobs EXCEPT ![k].answers = @ \ {"results"}]
    BY <1>4 DEF ApplyResults
  <2> QED
    BY <1>1, <1>4, <2>1
<1>5. CASE ApplyLoss(k, a) /\ a \in {"lost", "results"}
  <2>1. jobs' = [jobs EXCEPT ![k].answers = @ \ {a}, ![k].ticking = FALSE]
    BY <1>5 DEF ApplyLoss
  <2> QED
    BY <1>1, <1>5, <2>1
<1> QED
  BY <1>2, <1>3, <1>4, <1>5 DEF Deliver

LEMMA DemoTickJobs ==
    ASSUME JobsShape, DOMAIN report = ReportFields, NEW k \in Scans, NEW p, DemoTick(k, p)
    PROVE  /\ UNCHANGED <<step, job, selected, error, overtaken>>
           /\ jobs[k].stage = "demo" /\ jobs[k].ticking
           /\ \A i \in Scans : i # k => jobs'[i] = jobs[i]
           /\ \A i \in Scans : /\ jobs'[i].stage = jobs[i].stage /\ jobs'[i].early = jobs[i].early
                               /\ jobs'[i].stale = jobs[i].stale /\ jobs'[i].kept = jobs[i].kept
                               /\ jobs'[i].providers = jobs[i].providers
           /\ \/ ~jobs'[k].ticking /\ progress' = 100 /\ Answered(jobs[k].providers, report'.rows)
              \/ jobs'[k].ticking /\ report' = report
<1> USE DEF JobsShape, JobShape, JobFields
<1>1. /\ UNCHANGED <<step, job, selected, error, overtaken>>
      /\ jobs[k].stage = "demo" /\ jobs[k].ticking
  BY DEF DemoTick, ScanStep
<1> DEFINE S == jobs[k].done \cup {p}
<1>2. CASE S = jobs[k].providers
  <2>1. jobs' = [jobs EXCEPT ![k].done = S, ![k].ticking = FALSE]
    BY <1>2 DEF DemoTick
  <2>2. Answered(jobs[k].providers, report'.rows)
    <3>1. report'.rows = MergeFindings(jobs[k].kept, {[provider |-> q, from |-> Demo] : q \in jobs[k].providers},
                                       jobs[k].providers)
      BY <1>2 DEF DemoTick, ReportFields
    <3>2. ASSUME NEW q \in jobs[k].providers
          PROVE  [provider |-> q, from |-> Demo] \in report'.rows
      BY <3>1 DEF MergeFindings
    <3>3. ASSUME NEW q \in jobs[k].providers
          PROVE  [provider |-> q, from |-> Demo].provider = q
      OBVIOUS
    <3> QED
      BY <3>2, <3>3 DEF Answered
  <2>3. progress' = 100
    BY <1>2 DEF DemoTick
  <2> QED
    BY <1>1, <2>1, <2>2, <2>3
<1>3. CASE S # jobs[k].providers
  <2>1. jobs' = [jobs EXCEPT ![k].done = S, ![k].ticking = TRUE] /\ report' = report
    BY <1>3 DEF DemoTick
  <2> QED
    BY <1>1, <2>1
<1> QED
  BY <1>2, <1>3

\* The steps of a job that touch no interval but its own.
LEMMA PollJobs ==
    ASSUME JobsShape, NEW k \in Scans, StartAnswered(k) \/ StartFailed(k) \/ ServerStep(k) \/ Tick(k)
    PROVE  /\ UNCHANGED <<step, job, selected, report, progress>>
           /\ \A i \in Scans : i # k => jobs'[i] = jobs[i]
           /\ \A i \in Scans : /\ jobs'[i].stale = jobs[i].stale /\ jobs'[i].kept = jobs[i].kept
                               /\ jobs'[i].providers = jobs[i].providers
                               /\ jobs[i].answers \subseteq jobs'[i].answers
           /\ \/ /\ jobs[k].stage = "starting" /\ jobs'[k].stage = "polling" /\ jobs'[k].ticking
                 /\ jobs'[k].early = (jobs[k].stale \/ step # "scanning")
                 /\ UNCHANGED <<error, overtaken>>
              \/ /\ jobs[k].stage = "starting" /\ jobs'[k].stage = "polling"
                 /\ jobs'[k].ticking = jobs[k].ticking /\ jobs'[k].early = jobs[k].early
                 /\ error' = "start" /\ overtaken' = (overtaken \/ jobs[k].stale)
              \/ /\ \A i \in Scans : /\ jobs'[i].stage = jobs[i].stage /\ jobs'[i].early = jobs[i].early
                                     /\ jobs'[i].ticking = jobs[i].ticking
                 /\ UNCHANGED <<error, overtaken>>
<1> USE DEF JobsShape, JobShape, JobFields, ScanStep
<1>1. UNCHANGED <<step, job, selected, report, progress>>
  BY DEF StartAnswered, StartFailed, ServerStep, Tick
<1>2. CASE StartAnswered(k)
  <2>1. jobs' = [jobs EXCEPT ![k].stage = "polling", ![k].ticking = TRUE,
                             ![k].early = jobs[k].stale \/ step # "scanning"]
    BY <1>2 DEF StartAnswered
  <2>2. jobs[k].stage = "starting" /\ UNCHANGED <<error, overtaken>>
    BY <1>2 DEF StartAnswered
  <2> QED
    BY <1>1, <2>1, <2>2
<1>3. CASE StartFailed(k)
  <2>1. jobs' = [jobs EXCEPT ![k].stage = "polling"]
    BY <1>3 DEF StartFailed
  <2>2. jobs[k].stage = "starting" /\ error' = "start" /\ overtaken' = (overtaken \/ jobs[k].stale)
    BY <1>3 DEF StartFailed
  <2> QED
    BY <1>1, <2>1, <2>2
<1>4. CASE ServerStep(k)
  BY <1>1, <1>4 DEF ServerStep
<1>5. CASE Tick(k)
  <2>1. UNCHANGED <<error, overtaken>>
    BY <1>5 DEF Tick
  <2>2. CASE jobs' = [jobs EXCEPT ![k].answers = @ \cup {StatusOf(k)}]
    BY <1>1, <2>1, <2>2
  <2>3. CASE jobs' = [jobs EXCEPT ![k].answers = @ \cup {"lost"}]
    BY <1>1, <2>1, <2>3
  <2> QED
    BY <1>5, <2>2, <2>3 DEF Tick
<1> QED
  BY <1>2, <1>3, <1>4, <1>5
-----------------------------------------------------------------------------
(* The scanning page                                                       *)

\* The scanning page shows the last scan, and unless it failed or something
\* came late it is being started or polled, its results are asked for, or
\* they are there.
Awaited(k) ==
  \/ jobs[k].stage = "starting" \/ jobs[k].ticking \/ "results" \in jobs[k].answers
  \/ progress = 100 /\ Answered(jobs[k].providers, report.rows)

WaitInv ==
  step = "scanning" =>
    /\ job \in Scans /\ ~jobs[job].stale
    /\ error = "" /\ ~overtaken => Awaited(job)

LEMMA WaitStep ==
    ASSUME ScanShape, JobInv, WaitInv, [Next]_vars
    PROVE  WaitInv'
<1>0. JobsShape /\ job \in {0, 1, 2} /\ DOMAIN report = ReportFields
  BY DEF ScanShape
<1>1. CASE Aside
  BY <1>1 DEF Aside, scan, WaitInv, Awaited
<1>2. CASE Turned \/ Back \/ Reset \/ ToSizer \/ (\E p \in Providers : ToggleProvider(p))
  BY <1>2 DEF Turned, NextPage, Back, Reset, ToSizer, ToggleProvider, WaitInv
<1>3. CASE Started
  <2>1. job' \in Scans /\ jobs'[job'] = StartedJob(selected)
    BY <1>0, <1>3, StartedJobs
  <2>2. ~jobs'[job'].stale
    BY <2>1, StartedShape
  <2>3. jobs'[job'].stage = "starting" \/ jobs'[job'].ticking
    BY <2>1, StartedShape
  <2> QED
    BY <2>1, <2>2, <2>3 DEF WaitInv, Awaited
<1>4. ASSUME NEW k \in Scans, StartAnswered(k) \/ StartFailed(k) \/ ServerStep(k) \/ Tick(k)
      PROVE  WaitInv'
  <2> SUFFICES ASSUME step = "scanning"
               PROVE  WaitInv'
    BY <1>0, <1>4, PollJobs DEF WaitInv
  <2>1. job \in Scans /\ job' = job /\ report' = report /\ progress' = progress
    BY <1>0, <1>4, PollJobs DEF WaitInv
  <2>2. ~jobs'[job'].stale
    BY <1>0, <1>4, <2>1, PollJobs DEF WaitInv
  <2>3. ASSUME error' = "", ~overtaken'
        PROVE  Awaited(job)'
    <3>1. error = "" /\ ~overtaken
      BY <1>0, <1>4, <2>3, PollJobs
    <3>2. Awaited(job)
      BY <3>1 DEF WaitInv
    <3>3. CASE k = job
      BY <1>0, <1>4, <2>1, <2>3, <3>2, <3>3, PollJobs DEF Awaited
    <3>4. CASE k # job
      BY <1>0, <1>4, <2>1, <3>2, <3>4, PollJobs DEF Awaited
    <3> QED
      BY <3>3, <3>4
  <2> QED
    BY <2>1, <2>2, <2>3 DEF WaitInv
<1>5. ASSUME NEW k \in Scans, NEW a \in jobs[k].answers, Deliver(k, a)
      PROVE  WaitInv'
  <2> SUFFICES ASSUME step = "scanning"
               PROVE  WaitInv'
    BY <1>0, <1>5, DeliverJobs DEF WaitInv
  <2>1. job \in Scans /\ ~jobs[job].stale
    BY DEF WaitInv
  <2>2. job' \in Scans /\ ~jobs'[job'].stale
    BY <1>0, <1>5, <2>1, DeliverJobs
  <2>3. overtaken' = (overtaken \/ Late(k, a))
    BY <1>5 DEF Deliver, Arrives
  <2>4. jobs[k].stage = "polling"
    BY DEF JobInv, JobOk
  <2>5. CASE jobs[k].stale
    BY <2>2, <2>3, <2>5 DEF Late, WaitInv
  <2>6. CASE ~jobs[k].stale
    <3>1. k = job
      BY <2>4, <2>6, OwnJob
    <3>2. CASE ApplyStatus(k, a) /\ a \in {"0", "50", "100"}
      <4>1. error' = error /\ report' = report
        BY <3>2 DEF ApplyStatus
      <4>2. /\ jobs'[k].stage = jobs[k].stage /\ jobs'[k].ticking = jobs[k].ticking
            /\ jobs'[k].providers = jobs[k].providers /\ job' = job
        BY <1>0, <1>5, <3>2, DeliverJobs DEF ApplyResults, ApplyLoss
      <4>3. "results" \in jobs[k].answers => "results" \in jobs'[k].answers
        BY <1>0, <1>5, <3>2, DeliverJobs
      <4>4. error = "" /\ ~overtaken => Awaited(job)
        BY DEF WaitInv
      <4>5. progress = 100 /\ ~overtaken' => progress' = 100
        <5>1. progress' = ProgressOf(a) /\ ProgressOf(a) \in {0, 50, 100}
          BY <3>2 DEF ApplyStatus, ProgressOf
        <5>2. a # "lost" /\ a # "results"
          BY <3>2
        <5>3. ~overtaken' => ~(ProgressOf(a) < progress)
          BY <2>3, <5>2 DEF Late
        <5> QED
          BY <5>1, <5>3
      <4> QED
        BY <2>2, <2>3, <3>1, <4>1, <4>2, <4>3, <4>4, <4>5 DEF WaitInv, Awaited
    <3>3. CASE ApplyStatus(k, a) /\ a = "complete"
      <4>1. "results" \in jobs'[job'].answers
        BY <1>0, <1>5, <3>1, <3>3, DeliverJobs
      <4> QED
        BY <2>2, <4>1 DEF WaitInv, Awaited
    <3>4. CASE ApplyResults(k)
      <4>1. report'.rows = MergeFindings(jobs[k].kept, {[provider |-> p, from |-> ScanName[k]] : p \in jobs[k].providers},
                                         jobs[k].providers)
        BY <1>0, <3>4 DEF ApplyResults, ReportFields
      <4>2. Answered(jobs[k].providers, report'.rows)
        BY <4>1, MergeAnswers
      <4>3. /\ job' = k /\ jobs'[k].providers = jobs[k].providers
            /\ progress' = 100
        BY <1>0, <1>5, <3>1, <3>4, DeliverJobs DEF ApplyResults
      <4> QED
        BY <2>2, <4>2, <4>3 DEF WaitInv, Awaited
    <3>5. CASE ApplyLoss(k, a)
      BY <2>2, <3>5 DEF ApplyLoss, WaitInv
    <3> QED
      BY <1>0, <1>5, <3>2, <3>3, <3>4, <3>5, DeliverJobs
  <2> QED
    BY <2>5, <2>6
<1>6. ASSUME NEW k \in Scans, NEW p \in jobs[k].providers, DemoTick(k, p)
      PROVE  WaitInv'
  <2>1. k = job
    BY <1>0, <1>6, DemoTickJobs, OwnJob
  <2> QED
    <3> SUFFICES ASSUME step = "scanning"
                 PROVE  WaitInv'
      BY <1>0, <1>6, DemoTickJobs DEF WaitInv
    <3>1. job' = job /\ ~jobs'[job'].stale
      <4>1. ~jobs[k].stale
        BY <2>1 DEF WaitInv
      <4> QED
        BY <1>0, <1>6, <2>1, <4>1, DemoTickJobs
    <3>2. CASE progress' = 100 /\ Answered(jobs[k].providers, report'.rows)
      BY <1>0, <1>6, <2>1, <3>1, <3>2, DemoTickJobs DEF WaitInv, Awaited
    <3>3. CASE jobs'[k].ticking
      BY <2>1, <3>1, <3>3 DEF WaitInv, Awaited
    <3> QED
      BY <1>0, <1>6, <3>2, <3>3, DemoTickJobs
<1> QED
  BY <1>1, <1>2, <1>3, <1>4, <1>5, <1>6, StepCases

\* Behind other pages, and when rows are shown, only a poller of a scan that
\* was still starting when its page was left ticks.
QuietInv ==
  ~overtaken =>
    /\ step \notin {"scanning", "results"} \/ report.rows # {} =>
         \A k \in Scans : jobs[k].ticking => jobs[k].early
    /\ step = "scanning" /\ jobs[job].stage = "starting" => report.rows = {}

LEMMA QuietStep ==
    ASSUME ScanShape, JobInv, WaitInv, QuietInv, [Next]_vars
    PROVE  QuietInv'
<1>0. JobsShape /\ job \in {0, 1, 2} /\ DOMAIN report = ReportFields
  BY DEF ScanShape
<1>1. CASE Aside \/ Turned \/ ToSizer \/ (\E p \in Providers : ToggleProvider(p))
  BY <1>1 DEF Aside, Turned, NextPage, ToSizer, ToggleProvider, scan, QuietInv
<1>2. CASE Back
  BY <1>0, <1>2, ClearedJobs DEF Back, QuietInv
<1>3. CASE Started
  <2>1. report'.rows = {} /\ step' = "scanning"
    BY <1>0, <1>3 DEF Started, StartScan, ReportFields
  <2> QED
    BY <2>1 DEF QuietInv
<1>4. CASE Reset
  BY <1>0, <1>4, RetiredJobs DEF Reset, QuietInv
<1>5. ASSUME NEW k \in Scans, StartAnswered(k) \/ StartFailed(k) \/ ServerStep(k) \/ Tick(k)
      PROVE  QuietInv'
  <2>1. jobs[k].stage = "starting" => k = job \/ jobs[k].stale
    BY OwnJob
  <2>2. ~overtaken' => ~overtaken
    BY <1>0, <1>5, PollJobs
  <2>3. step = "scanning" => job \in Scans
    BY DEF WaitInv
  <2> SUFFICES ASSUME ~overtaken, ~overtaken'
               PROVE  QuietInv'
    BY <2>2 DEF QuietInv
  <2>4. UNCHANGED <<step, job, report>>
    BY <1>0, <1>5, PollJobs
  <2>5. ASSUME step \notin {"scanning", "results"} \/ report.rows # {}, NEW i \in Scans, jobs'[i].ticking
        PROVE  jobs'[i].early
    <3>1. jobs[i].ticking => jobs[i].early
      BY <2>5 DEF QuietInv
    <3>2. CASE i # k
      BY <1>0, <1>5, <2>5, <3>1, <3>2, PollJobs
    <3>3. CASE i = k /\ jobs[k].stage = "starting" /\ ~jobs[k].stale /\ step = "scanning"
      BY <2>1, <2>5, <3>3 DEF QuietInv
    <3>4. CASE i = k /\ jobs[k].stage = "starting" /\ (jobs[k].stale \/ step # "scanning")
      <4>1. ~jobs[k].ticking
        BY <3>4 DEF JobInv, JobOk
      <4> QED
        BY <1>0, <1>5, <2>5, <3>4, <4>1, PollJobs
    <3>5. CASE i = k /\ jobs[k].stage # "starting"
      BY <1>0, <1>5, <2>5, <3>1, <3>5, PollJobs
    <3> QED
      BY <3>2, <3>3, <3>4, <3>5
  <2>6. ASSUME step = "scanning", jobs'[job].stage = "starting"
        PROVE  report.rows = {}
    <3>1. jobs[job].stage = "starting"
      BY <1>0, <1>5, <2>3, <2>6, PollJobs
    <3> QED
      BY <2>6, <3>1 DEF QuietInv
  <2> QED
    BY <2>4, <2>5, <2>6 DEF QuietInv
<1>6. ASSUME NEW k \in Scans, NEW a \in jobs[k].answers, Deliver(k, a)
      PROVE  QuietInv'
  <2> SUFFICES ASSUME ~overtaken, ~Late(k, a)
               PROVE  QuietInv'
    BY <1>6 DEF Deliver, Arrives, QuietInv
  <2>1. step \in {"scanning", "results"} /\ ~jobs[k].stale
    BY DEF Late
  <2>2. k = job /\ jobs[k].stage = "polling"
    BY <2>1, OwnJob DEF JobInv, JobOk
  <2>3. CASE a = "results"
    <3>1. ~jobs[k].ticking
      BY <2>3 DEF JobInv, JobOk
    <3>2. \A i \in Scans : i # k => (jobs[i].ticking => jobs[i].early)
      BY <2>2, OwnJob DEF JobInv, JobOk
    <3> QED
      BY <1>0, <1>6, <2>2, <3>1, <3>2, DeliverJobs DEF QuietInv
  <2>4. CASE a # "results"
    <3>1. report' = report
      <4>1. ApplyStatus(k, a) \/ ApplyLoss(k, a)
        BY <1>0, <1>6, <2>4, DeliverJobs
      <4> QED
        BY <4>1 DEF ApplyStatus, ApplyLoss
    <3> QED
      BY <1>0, <1>6, <2>2, <3>1, DeliverJobs DEF QuietInv
  <2> QED
    BY <2>3, <2>4
<1>7. ASSUME NEW k \in Scans, NEW p \in jobs[k].providers, DemoTick(k, p)
      PROVE  QuietInv'
  <2>1. k = job /\ jobs[k].stage = "demo" /\ jobs[k].ticking
    BY <1>0, <1>7, DemoTickJobs, OwnJob
  <2>2. ~jobs[k].early
    BY <2>1 DEF JobInv, JobOk
  <2>3. \A i \in Scans : i # k => (jobs[i].ticking => jobs[i].early)
    BY <2>1, OwnJob DEF JobInv, JobOk
  <2> QED
    BY <1>0, <1>7, <2>1, <2>2, <2>3, DemoTickJobs DEF QuietInv
<1> QED
  BY <1>1, <1>2, <1>3, <1>4, <1>5, <1>6, <1>7, StepCases
-----------------------------------------------------------------------------
(* The list of session files                                               *)

\* Taking a file out of a list leaves files of the list.
LEMMA WithoutIsList ==
    ASSUME NEW S, NEW list \in Seq(S), NEW file
    PROVE  Without(list, file) \in Seq(S)
<1> DEFINE N == Len(list)
           Drops(n) == list[n].name = file.name /\ list[n].exportedAt = file.exportedAt
           Next1(f, n) == IF n = 0 THEN <<>> ELSE IF Drops(n) THEN f[n - 1] ELSE Append(f[n - 1], list[n])
           left == CHOOSE f : f = [n \in 0..N |-> Next1(f, n)]
           extend == [x \in (1..N) \X Seq(S) |-> IF Drops(x[1]) THEN x[2] ELSE Append(x[2], list[x[1]])]
<1>1. Without(list, file) = left[N]
  BY DEF Without
<1>2. N \in Nat /\ <<>> \in Seq(S)
  OBVIOUS
<1>3. extend \in [(1..N) \X Seq(S) -> Seq(S)]
  OBVIOUS
<1>4. PICK g \in [0..N -> Seq(S)] : g[0] = <<>> /\ \A n \in 1..N : g[n] = extend[<<n, g[n - 1]>>]
  <2> HIDE DEF extend, N
  <2> DEFINE V == Seq(S)
             base == <<>>
  <2>1. base \in V /\ extend \in [(1..N) \X V -> V]
    BY <1>2, <1>3
  <2> HIDE DEF V, base
  <2>2. Solvable(N, V, base, extend)
    BY <1>2, <2>1, Recursion
  <2> QED
    BY <2>2 DEF V, base, Solvable, Solves
<1>5. ASSUME NEW n \in 0..N
      PROVE  g[n] = Next1(g, n)
  <2>1. CASE n = 0
    BY <1>4, <2>1
  <2>2. CASE n # 0
    <3>1. n \in 1..N /\ g[n - 1] \in Seq(S)
      BY <1>2, <2>2
    <3>2. g[n] = extend[<<n, g[n - 1]>>]
      BY <1>4, <3>1
    <3>3. extend[<<n, g[n - 1]>>] = IF Drops(n) THEN g[n - 1] ELSE Append(g[n - 1], list[n])
      BY <3>1
    <3> QED
      BY <2>2, <3>2, <3>3
  <2> QED
    BY <2>1, <2>2
<1>6. g = [n \in 0..N |-> Next1(g, n)]
  BY <1>5
<1>7. left = [n \in 0..N |-> Next1(left, n)]
  BY <1>6
<1>8. \A n \in 0..N : left[n] = Next1(left, n)
  <2> HIDE DEF left, Next1
  <2> QED
    BY <1>7
<1> DEFINE T == {n \in Nat : n <= N => left[n] \in Seq(S)}
<1>9. 0 \in T
  <2>1. left[0] = <<>>
    <3> HIDE DEF left
    <3> QED
      BY <1>2, <1>8
  <2> HIDE DEF left
  <2> QED
    BY <1>2, <2>1
<1>10. ASSUME NEW n \in Nat, n \in T
       PROVE  n + 1 \in T
  <2> HIDE DEF left
  <2> SUFFICES ASSUME n + 1 <= N
               PROVE  left[n + 1] \in Seq(S)
    OBVIOUS
  <2>1. left[n] \in Seq(S) /\ list[n + 1] \in S
    BY <1>2, <1>10
  <2>2. left[n + 1] = Next1(left, n + 1)
    BY <1>2, <1>8
  <2> QED
    BY <2>1, <2>2
<1>11. N \in T
  <2> HIDE DEF T
  <2> QED
    BY <1>2, <1>9, <1>10, Induction
<1> QED
  BY <1>1, <1>2, <1>11

BatchFields == {"todo", "own", "base", "id"}

BatchShape(b) ==
  /\ DOMAIN b = BatchFields
  /\ b.todo \in Seq(Files) /\ b.own \in Seq(Files) /\ b.todo # <<>>
  /\ b.base # None => b.base \in Seq(Files)

\* The list is kept for the first page alone; the batches that are still read
\* when it is left keep what was on it.
ListInv ==
  /\ loaded \in Seq(Files)
  /\ \A b \in batches : BatchShape(b)
  /\ step # "providers" => loaded = <<>> /\ \A b \in batches : b.base # None

LEMMA SessionCases ==
    ASSUME [Next]_vars
    PROVE  \/ UNCHANGED sessions /\ (step' = "providers" \/ step # "providers")
           \/ LeaveProviders
           \/ \E names \in Seq(Files) : names # <<>> /\ AddFiles(names)
           \/ \E b \in batches : ReadFile(b)
           \/ \E i \in DOMAIN loaded : RemoveLoaded(i)
<1>1. CASE GoNext \/ GoBack
  BY <1>1 DEF GoNext, GoBack, GoTo
<1>2. CASE GoScan \/ Retry \/ Restart \/ HandleSizerImportConfirm \/ \E p \in Providers : ToggleProvider(p)
  BY <1>2 DEF GoScan, Retry, Restart, HandleSizerImportConfirm, ToggleProvider, Restarted
<1>3. CASE FormsOnly
  BY <1>3, FormsOnlyStep
<1>4. CASE RunScan
  BY <1>4 DEF RunScan, StartAnswered, StartFailed, ServerStep, Tick, Deliver, DemoTick, Ping, ScanStep
<1>5. CASE LoadFiles
  <2>1. ASSUME NEW f \in Files
        PROVE  <<f>> \in Seq(Files) /\ <<f>> # <<>>
    OBVIOUS
  <2>2. ASSUME NEW f \in Files, NEW g \in Files
        PROVE  <<f, g>> \in Seq(Files) /\ <<f, g>> # <<>>
    OBVIOUS
  <2> QED
    BY <1>5, <2>1, <2>2 DEF LoadFiles
<1>6. CASE UNCHANGED vars
  BY <1>6 DEF vars
<1> QED
  BY <1>1, <1>2, <1>3, <1>4, <1>5, <1>6 DEF Next, Navigate, FormsOnly

LEMMA TakenIsList ==
    ASSUME NEW b, BatchShape(b)
    PROVE  Taken(b) \in Seq(Files)
BY DEF BatchShape, Taken

LEMMA ListOfIsList ==
    ASSUME NEW b, BatchShape(b), loaded \in Seq(Files)
    PROVE  ListOf(b) \o Taken(b) \in Seq(Files)
BY TakenIsList DEF BatchShape, ListOf

LEMMA RebasedShape ==
    ASSUME NEW b, BatchShape(b), NEW list \in Seq(Files)
    PROVE  BatchShape([b EXCEPT !.base = list]) /\ [b EXCEPT !.base = list].base = list
BY DEF BatchShape, BatchFields

LEMMA ListInit == Init => ListInv
<1> SUFFICES ASSUME Init
             PROVE  ListInv
  OBVIOUS
<1>1. loaded = <<>> /\ batches = {} /\ step = "providers"
  BY DEF Init
<1> QED
  BY <1>1 DEF ListInv

LEMMA ListStep ==
    ASSUME ListInv, [Next]_vars
    PROVE  ListInv'
<1>0. None \notin Seq(Files)
  BY FilesAssumption
<1>1. CASE UNCHANGED sessions /\ (step' = "providers" \/ step # "providers")
  BY <1>1 DEF sessions, ListInv
<1>2. CASE LeaveProviders
  <2> DEFINE left(b) == [b EXCEPT !.base = IF @ = None THEN loaded ELSE @]
  <2>1. loaded' = <<>> /\ batches' = {left(b) : b \in batches}
    BY <1>2 DEF LeaveProviders
  <2>2. ASSUME NEW b \in batches
        PROVE  BatchShape(left(b)) /\ left(b).base # None
    <3>1. BatchShape(b) /\ loaded \in Seq(Files)
      BY DEF ListInv
    <3>2. left(b) = [b EXCEPT !.base = loaded] \/ (left(b) = [b EXCEPT !.base = b.base] /\ b.base # None)
      OBVIOUS
    <3>3. b.base # None => b.base \in Seq(Files)
      BY <3>1 DEF BatchShape
    <3> QED
      BY <1>0, <3>1, <3>2, <3>3, RebasedShape
  <2> HIDE DEF left
  <2>3. \A c \in batches' : BatchShape(c) /\ c.base # None
    BY <2>1, <2>2
  <2>4. loaded' \in Seq(Files)
    BY <2>1
  <2> QED
    BY <2>1, <2>3, <2>4 DEF ListInv
<1>3. ASSUME NEW names \in Seq(Files), names # <<>>, AddFiles(names)
      PROVE  ListInv'
  <2> DEFINE b == [todo |-> names, own |-> <<>>, base |-> None, id |-> budget.batches]
  <2>1. BatchShape(b)
    BY <1>3 DEF BatchShape, BatchFields
  <2>2. batches' = batches \cup {b} /\ loaded' = loaded /\ step' = "providers" /\ step = "providers"
    BY <1>3 DEF AddFiles
  <2> HIDE DEF b
  <2>3. loaded' \in Seq(Files) /\ \A c \in batches' : BatchShape(c)
    BY <2>1, <2>2 DEF ListInv
  <2> QED
    BY <2>2, <2>3 DEF ListInv
<1>4. ASSUME NEW b \in batches, ReadFile(b)
      PROVE  ListInv'
  <2>1. BatchShape(b) /\ loaded \in Seq(Files) /\ \A c \in batches : BatchShape(c)
    BY DEF ListInv
  <2>2. CASE Len(b.todo) > 1 /\ Reread(b) /\ UNCHANGED <<step, loaded>>
    <3> DEFINE c == [b EXCEPT !.todo = Tail(@), !.own = Taken(b)]
    <3>1. Taken(b) \in Seq(Files)
      BY <2>1, TakenIsList
    <3>2. Tail(b.todo) \in Seq(Files) /\ Tail(b.todo) # <<>>
      <4>1. \A s \in Seq(Files) : Len(s) > 1 => Tail(s) \in Seq(Files) /\ Tail(s) # <<>>
        <5>1. ASSUME NEW s \in Seq(Files), Len(s) > 1
              PROVE  Tail(s) \in Seq(Files) /\ Len(Tail(s)) > 0
          BY <5>1
        <5>2. Len(<<>>) = 0
          OBVIOUS
        <5>3. \A s : Len(s) > 0 => s # <<>>
          BY <5>2
        <5> QED
          BY <5>1, <5>3
      <4>2. b.todo \in Seq(Files) /\ Len(b.todo) > 1
        BY <2>1, <2>2 DEF BatchShape
      <4> QED
        BY <4>1, <4>2
    <3>3. BatchShape(c) /\ c.base = b.base
      BY <2>1, <3>1, <3>2 DEF BatchShape, BatchFields
    <3>4. batches' = (batches \ {b}) \cup {c}
      BY <2>2 DEF Reread
    <3> HIDE DEF c
    <3> QED
      BY <2>2, <3>3, <3>4 DEF ListInv
  <2>3. CASE batches' = batches \ {b} /\ UNCHANGED <<step, loaded>>
    BY <2>3 DEF ListInv
  <2>4. CASE /\ ApplySnapshot(MergeSnapshots(ListOf(b) \o Taken(b)))
             /\ loaded' = IF b.base = None THEN ListOf(b) \o Taken(b) ELSE loaded
             /\ batches' = Committed(b, ListOf(b) \o Taken(b))
    <3> DEFINE list == ListOf(b) \o Taken(b)
    <3>1. list \in Seq(Files)
      BY <2>1, ListOfIsList
    <3> HIDE DEF list
    <3>2. step' = "providers"
      BY <2>4 DEF ApplySnapshot, Restarted
    <3>3. loaded' \in Seq(Files)
      BY <2>1, <2>4, <3>1 DEF list
    <3>4. batches' = {IF c.base # None /\ c.base = b.base THEN [c EXCEPT !.base = list] ELSE c : c \in batches \ {b}}
      BY <2>4 DEF Committed, list
    <3>5. \A c \in batches' : BatchShape(c)
      BY <2>1, <3>1, <3>4, RebasedShape
    <3> QED
      BY <3>2, <3>3, <3>5 DEF ListInv
  <2> QED
    BY <1>4, <2>2, <2>3, <2>4 DEF ReadFile
<1>5. ASSUME NEW i \in DOMAIN loaded, RemoveLoaded(i)
      PROVE  ListInv'
  <2>1. loaded' \in Seq(Files) /\ batches' = batches
    BY <1>5, WithoutIsList DEF RemoveLoaded, ListInv
  <2>2. step' = "providers"
    BY <1>5, RemoveLoadedStep DEF Reset
  <2> QED
    BY <2>1, <2>2 DEF ListInv
<1> QED
  BY <1>1, <1>2, <1>3, <1>4, <1>5, SessionCases
-----------------------------------------------------------------------------
(* Rows and totals                                                         *)

LEMMA ResetReport ==
    ASSUME ListInv, Reset
    PROVE  /\ report'.totals = 0
           /\ \A r \in report'.rows : r.from \notin Range(ScanName)
<1>1. CASE report' = BlankReport(report)
  BY <1>1 DEF BlankReport, NoReport
<1>2. ASSUME NEW list \in Lists, report' = SnapshotReport(MergeSnapshots(list))
      PROVE  /\ report'.totals = 0
             /\ \A r \in report'.rows : r.from \notin Range(ScanName)
  <2>1. list \in Seq(Files)
    BY ListOfIsList, WithoutIsList DEF Lists, ListInv
  <2>2. report'.totals = 0 /\ report'.rows = MergedRows(list)
    BY <1>2 DEF SnapshotReport, MergeSnapshots
  <2>3. \A r \in MergedRows(list) : \E i \in DOMAIN list : r.from = list[i].name
    BY DEF MergedRows, OwnedRows
  <2>4. \A i \in DOMAIN list : list[i] \in Files
    BY <2>1
  <2>5. \A f \in Files : f.name \notin Range(ScanName)
    BY FilesAssumption, ScanNameFacts
  <2> QED
    BY <2>2, <2>3, <2>4, <2>5
<1> QED
  BY <1>1, <1>2 DEF Reset

\* On the way from the credentials to the scan.
OnWay == step \in {"sources", "scanning"} \/ (step = "credentials" /\ "estimator" \notin selected)

\* What a session file brought is of providers that the scan asks again, so
\* that nothing of it remains beside the rows of the scan.
KeptInv ==
  ~overtaken =>
    /\ OnWay => \A r \in report.rows : r.provider \in report.imported => r.provider \in selected
    /\ \A k \in Scans : ~jobs[k].stale => \A r \in jobs[k].kept : r.provider \in jobs[k].providers
    /\ step = "scanning" => jobs[job].providers = selected

LEMMA KeptInit == Init => KeptInv
<1> SUFFICES ASSUME Init
             PROVE  KeptInv
  OBVIOUS
<1>1. step = "providers" /\ \A k \in Scans : jobs[k].kept = {}
  BY DEF Init, NoJob
<1> QED
  BY <1>1 DEF KeptInv, OnWay

FoundRows(provs, name) == {[provider |-> p, from |-> name] : p \in provs}

\* The rows of a scan or a demo that ends in time are its own and no others.
LEMMA OwnRows ==
    ASSUME ScanShape, JobInv, KeptInv, ~overtaken, NEW k \in Scans, ~jobs[k].stale,
           NEW name
    PROVE  LET found == FoundRows(jobs[k].providers, name)
           IN  /\ MergeFindings(jobs[k].kept, found, jobs[k].providers) = found
               /\ \A r \in found : r.from = name /\ r.provider \in jobs[k].providers
BY DEF KeptInv, MergeFindings, FoundRows

LEMMA DeliverInTime ==
    ASSUME ScanShape, JobInv, NEW k \in Scans, NEW a \in jobs[k].answers, Deliver(k, a), ~overtaken'
    PROVE  /\ ~overtaken /\ step \in {"scanning", "results"} /\ ~jobs[k].stale
           /\ k = job /\ jobs[k].stage = "polling"
<1>1. ~overtaken /\ ~Late(k, a)
  BY DEF Deliver, Arrives
<1>2. step \in {"scanning", "results"} /\ ~jobs[k].stale
  BY <1>1 DEF Late
<1>3. jobs[k].stage = "polling"
  BY DEF JobInv, JobOk
<1> QED
  BY <1>1, <1>2, <1>3, OwnJob

LEMMA DemoInTime ==
    ASSUME ScanShape, JobInv, QuietInv, NEW k \in Scans, NEW p \in jobs[k].providers, DemoTick(k, p),
           ~overtaken
    PROVE  /\ step \in {"scanning", "results"} /\ ~jobs[k].stale /\ k = job
           /\ jobs[k].stage = "demo" /\ jobs[k].ticking
<1>1. k = job /\ jobs[k].stage = "demo" /\ jobs[k].ticking
  BY DemoTickJobs, OwnJob DEF ScanShape
<1>2. ~jobs[k].early
  BY <1>1 DEF JobInv, JobOk
<1>3. ~jobs[k].stale
  BY <1>1, <1>2 DEF JobInv, JobOk
<1>4. step \in {"scanning", "results"}
  BY <1>1, <1>2 DEF QuietInv
<1> QED
  BY <1>1, <1>3, <1>4

LEMMA KeptStep ==
    ASSUME ScanShape, JobInv, WaitInv, QuietInv, ListInv, KeptInv, [Next]_vars
    PROVE  KeptInv'
<1>0. JobsShape /\ job \in {0, 1, 2} /\ DOMAIN report = ReportFields
  BY DEF ScanShape
<1>1. CASE Aside
  BY <1>1 DEF Aside, scan, KeptInv, OnWay
<1>2. CASE Turned
  BY <1>2 DEF Turned, NextPage, scan, KeptInv, OnWay
<1>3. CASE Back
  <2>1. step' # "scanning" /\ (OnWay' => OnWay)
    BY <1>3 DEF Back, OnWay
  <2>2. \A k \in Scans : /\ jobs'[k].stale = jobs[k].stale /\ jobs'[k].kept = jobs[k].kept
                         /\ jobs'[k].providers = jobs[k].providers
    BY <1>0, <1>3, ClearedJobs DEF Back
  <2> QED
    BY <1>3, <2>1, <2>2 DEF Back, KeptInv
<1>4. CASE Started
  <2> SUFFICES ASSUME ~overtaken
               PROVE  KeptInv'
    BY <1>4 DEF Started, StartScan, KeptInv
  <2>1. report'.rows = {} /\ selected' = selected
    BY <1>0, <1>4 DEF Started, StartScan, ReportFields
  <2>2. OnWay
    BY <1>4 DEF Started, OnWay
  <2>3. /\ job' \in Scans /\ jobs'[job'] = StartedJob(selected)
        /\ \A k \in Scans : k # job' => jobs'[k] = Retired(jobs)[k]
    BY <1>0, <1>4, StartedJobs
  <2>4. /\ jobs'[job'].providers = selected
        /\ jobs'[job'].kept = {r \in report.rows : r.provider \in report.imported}
    BY <2>3, StartedShape
  <2>5. \A k \in Scans : k # job' => jobs'[k].stale
    BY <1>0, <2>3, RetiredJobs
  <2>6. \A r \in jobs'[job'].kept : r.provider \in jobs'[job'].providers
    BY <2>2, <2>4 DEF KeptInv
  <2> QED
    BY <2>1, <2>4, <2>5, <2>6 DEF KeptInv
<1>5. CASE Reset
  BY <1>0, <1>5, RetiredJobs DEF Reset, KeptInv, OnWay
<1>6. CASE ToSizer
  BY <1>6 DEF ToSizer, scan, KeptInv, OnWay
<1>7. CASE \E p \in Providers : ToggleProvider(p)
  BY <1>7 DEF ToggleProvider, scan, KeptInv, OnWay
<1>8. ASSUME NEW k \in Scans, StartAnswered(k) \/ StartFailed(k) \/ ServerStep(k) \/ Tick(k)
      PROVE  KeptInv'
  <2>1. /\ UNCHANGED <<step, job, selected, report>>
        /\ \A i \in Scans : /\ jobs'[i].stale = jobs[i].stale /\ jobs'[i].kept = jobs[i].kept
                            /\ jobs'[i].providers = jobs[i].providers
    BY <1>0, <1>8, PollJobs
  <2>2. ~overtaken' => ~overtaken
    BY <1>0, <1>8, PollJobs
  <2>3. step = "scanning" => job \in Scans
    BY DEF WaitInv
  <2> QED
    BY <2>1, <2>2, <2>3 DEF KeptInv, OnWay
<1>9. ASSUME NEW k \in Scans, NEW a \in jobs[k].answers, Deliver(k, a)
      PROVE  KeptInv'
  <2> SUFFICES ASSUME ~overtaken'
               PROVE  KeptInv'
    BY DEF KeptInv
  <2>1. ~overtaken /\ step \in {"scanning", "results"} /\ ~jobs[k].stale /\ k = job
    BY <1>9, DeliverInTime
  <2>2. /\ UNCHANGED <<step, job, selected>>
        /\ \A i \in Scans : /\ jobs'[i].stale = jobs[i].stale /\ jobs'[i].kept = jobs[i].kept
                            /\ jobs'[i].providers = jobs[i].providers
    BY <1>0, <1>9, DeliverJobs
  <2>3. /\ \A i \in Scans : ~jobs'[i].stale => \A r \in jobs'[i].kept : r.provider \in jobs'[i].providers
        /\ step = "scanning" => jobs'[job].providers = selected
    BY <2>1, <2>2 DEF KeptInv
  <2>4. ASSUME OnWay, NEW r \in report'.rows, r.provider \in report'.imported
        PROVE  r.provider \in selected
    <3>1. step = "scanning" /\ jobs[k].providers = selected
      BY <2>1, <2>4 DEF KeptInv, OnWay
    <3>2. CASE ApplyResults(k)
      <4> DEFINE found == FoundRows(jobs[k].providers, ScanName[k])
      <4>1. report'.rows = MergeFindings(jobs[k].kept, found, jobs[k].providers)
        BY <1>0, <3>2 DEF ApplyResults, ReportFields, FoundRows
      <4>2. MergeFindings(jobs[k].kept, found, jobs[k].providers) = found
        BY <2>1, OwnRows
      <4>3. r \in found
        BY <2>4, <4>1, <4>2
      <4> QED
        BY <2>1, <3>1, <4>3, OwnRows
    <3>3. CASE report' = report
      BY <2>1, <2>4, <3>3 DEF KeptInv
    <3> QED
      BY <1>0, <1>9, <3>2, <3>3, DeliverJobs DEF ApplyStatus, ApplyLoss
  <2> QED
    BY <2>2, <2>3, <2>4 DEF KeptInv, OnWay
<1>10. ASSUME NEW k \in Scans, NEW p \in jobs[k].providers, DemoTick(k, p)
       PROVE  KeptInv'
  <2>0. /\ UNCHANGED <<step, job, selected, overtaken>>
        /\ \A i \in Scans : /\ jobs'[i].stale = jobs[i].stale /\ jobs'[i].kept = jobs[i].kept
                            /\ jobs'[i].providers = jobs[i].providers
    BY <1>0, <1>10, DemoTickJobs
  <2> SUFFICES ASSUME ~overtaken
               PROVE  KeptInv'
    BY <2>0 DEF KeptInv
  <2>1. step \in {"scanning", "results"} /\ ~jobs[k].stale /\ k = job
    BY <1>10, DemoInTime
  <2>3. /\ \A i \in Scans : ~jobs'[i].stale => \A r \in jobs'[i].kept : r.provider \in jobs'[i].providers
        /\ step = "scanning" => jobs'[job].providers = selected
    BY <2>0, <2>1 DEF KeptInv
  <2>4. ASSUME OnWay, NEW r \in report'.rows, r.provider \in report'.imported
        PROVE  r.provider \in selected
    <3>1. step = "scanning" /\ jobs[k].providers = selected
      BY <2>1, <2>4 DEF KeptInv, OnWay
    <3> DEFINE found == FoundRows(jobs[k].providers, Demo)
    <3>2. CASE report'.rows = MergeFindings(jobs[k].kept, found, jobs[k].providers)
      BY <2>1, <2>4, <3>1, <3>2, OwnRows
    <3>3. CASE report' = report
      BY <2>1, <2>4, <3>3 DEF KeptInv
    <3> QED
      BY <1>0, <1>10, <3>2, <3>3 DEF DemoTick, ReportFields, FoundRows
  <2> QED
    BY <2>0, <2>3, <2>4 DEF KeptInv, OnWay
<1> QED
  BY <1>1, <1>2, <1>3, <1>4, <1>5, <1>6, <1>7, <1>8, <1>9, <1>10, StepCases

\* The totals shown are those of the scan the rows are of.
TotalsInv ==
  ~overtaken =>
    /\ \A r \in report.rows :
         IF report.totals # 0 THEN report.totals \in Scans /\ r.from = ScanName[report.totals]
         ELSE r.from \notin Range(ScanName)
    /\ \A k \in Scans : jobs[k].ticking /\ jobs[k].stage = "demo" => report.totals = 0

LEMMA TotalsInit == Init => TotalsInv
<1> SUFFICES ASSUME Init
             PROVE  TotalsInv
  OBVIOUS
<1>1. report.rows = {} /\ \A k \in Scans : jobs[k].stage = "idle"
  BY DEF Init, NoJob, NoReport
<1> QED
  BY <1>1 DEF TotalsInv

LEMMA TotalsStep ==
    ASSUME ScanShape, JobInv, QuietInv, ListInv, KeptInv, TotalsInv, [Next]_vars
    PROVE  TotalsInv'
<1>0. JobsShape /\ job \in {0, 1, 2} /\ DOMAIN report = ReportFields
  BY DEF ScanShape
<1>1. CASE Aside \/ Turned \/ ToSizer \/ (\E p \in Providers : ToggleProvider(p))
  <2>1. UNCHANGED <<report, jobs, overtaken>>
    BY <1>1 DEF Aside, Turned, ToSizer, ToggleProvider, scan
  <2> QED
    BY <2>1 DEF TotalsInv
<1>2. CASE Back
  BY <1>0, <1>2, ClearedJobs DEF Back, TotalsInv
<1>3. CASE Started
  <2>1. report'.rows = {} /\ report'.totals = 0
    BY <1>0, <1>3 DEF Started, StartScan, ReportFields
  <2> QED
    BY <2>1 DEF TotalsInv
<1>4. CASE Reset
  BY <1>4, ResetReport DEF TotalsInv
<1>5. ASSUME NEW k \in Scans, StartAnswered(k) \/ StartFailed(k) \/ ServerStep(k) \/ Tick(k)
      PROVE  TotalsInv'
  <2>1. report' = report /\ (~overtaken' => ~overtaken)
    BY <1>0, <1>5, PollJobs
  <2>2. ASSUME NEW i \in Scans, jobs'[i].ticking, jobs'[i].stage = "demo"
        PROVE  jobs[i].ticking /\ jobs[i].stage = "demo"
    BY <1>0, <1>5, <2>2, PollJobs
  <2> QED
    BY <2>1, <2>2 DEF TotalsInv
<1>6. ASSUME NEW k \in Scans, NEW a \in jobs[k].answers, Deliver(k, a)
      PROVE  TotalsInv'
  <2> SUFFICES ASSUME ~overtaken'
               PROVE  TotalsInv'
    BY DEF TotalsInv
  <2>1. ~overtaken /\ ~jobs[k].stale /\ k = job /\ jobs[k].stage = "polling"
    BY <1>6, DeliverInTime
  <2>2. \A i \in Scans : /\ jobs'[i].stage = jobs[i].stage
                         /\ jobs'[i].ticking => jobs[i].ticking
    BY <1>0, <1>6, DeliverJobs
  <2>3. CASE ApplyResults(k)
    <3> DEFINE found == FoundRows(jobs[k].providers, ScanName[k])
    <3>1. report'.rows = MergeFindings(jobs[k].kept, found, jobs[k].providers) /\ report'.totals = k
      BY <1>0, <2>3 DEF ApplyResults, ReportFields, FoundRows
    <3>2. MergeFindings(jobs[k].kept, found, jobs[k].providers) = found
      BY <2>1, OwnRows
    <3>3. \A r \in report'.rows : r.from = ScanName[k]
      BY <2>1, <3>1, <3>2, OwnRows
    <3>4. \A i \in Scans : ~(jobs[i].ticking /\ jobs[i].stage = "demo")
      BY <2>1, OwnJob
    <3>5. k # 0
      BY ScanNameFacts
    <3> QED
      BY <2>2, <3>1, <3>3, <3>4, <3>5 DEF TotalsInv
  <2>4. CASE report' = report
    BY <2>1, <2>2, <2>4 DEF TotalsInv
  <2> QED
    BY <1>0, <1>6, <2>3, <2>4, DeliverJobs DEF ApplyStatus, ApplyLoss
<1>7. ASSUME NEW k \in Scans, NEW p \in jobs[k].providers, DemoTick(k, p)
      PROVE  TotalsInv'
  <2>0. UNCHANGED overtaken /\ \A i \in Scans : jobs'[i].stage = jobs[i].stage
    BY <1>0, <1>7, DemoTickJobs
  <2> SUFFICES ASSUME ~overtaken
               PROVE  TotalsInv'
    BY <2>0 DEF TotalsInv
  <2>1. ~jobs[k].stale /\ k = job /\ jobs[k].stage = "demo" /\ jobs[k].ticking
    BY <1>7, DemoInTime
  <2>2. report.totals = 0
    BY <2>1 DEF TotalsInv
  <2>3. report'.totals = 0
    BY <1>0, <1>7, <2>2 DEF DemoTick, ReportFields
  <2> DEFINE found == FoundRows(jobs[k].providers, Demo)
  <2>4. CASE report'.rows = MergeFindings(jobs[k].kept, found, jobs[k].providers)
    <3>1. MergeFindings(jobs[k].kept, found, jobs[k].providers) = found
      BY <2>1, OwnRows
    <3>2. \A r \in report'.rows : r.from = Demo
      BY <2>1, <2>4, <3>1, OwnRows
    <3>3. Demo \notin Range(ScanName)
      BY ScanNameFacts DEF Demo
    <3> QED
      BY <2>3, <3>2, <3>3 DEF TotalsInv
  <2>5. CASE report' = report
    BY <2>2, <2>3, <2>5 DEF TotalsInv
  <2> QED
    BY <1>0, <1>7, <2>4, <2>5 DEF DemoTick, ReportFields, FoundRows
<1> QED
  BY <1>1, <1>2, <1>3, <1>4, <1>5, <1>6, <1>7, StepCases
-----------------------------------------------------------------------------
(* The assessment that session files make                                  *)

\* The rows and errors of the first page are the merge of the files on it.
AssessInv ==
  (step = "providers" /\ loaded # <<>> /\ ~overtaken) =>
     report.rows = MergedRows(loaded) /\ report.errors = MergedErrors(loaded)

LEMMA AssessStep ==
    ASSUME ScanShape, JobInv, QuietInv, ListInv, AssessInv, [Next]_vars
    PROVE  AssessInv'
<1>0. JobsShape /\ DOMAIN report = ReportFields
  BY DEF ScanShape
<1>1. CASE UNCHANGED <<step, loaded, report, overtaken>>
  BY <1>1 DEF AssessInv
<1>2. CASE step' # "providers" \/ overtaken'
  BY <1>2 DEF AssessInv
<1>3. CASE step # "providers" /\ UNCHANGED sessions
  BY <1>3 DEF sessions, ListInv, AssessInv
<1>4. CASE GoNext
  BY <1>2, <1>4, GoNextStep DEF NextPage
<1>5. CASE GoScan \/ Retry
  BY <1>2, <1>5 DEF GoScan, Retry
<1>6. CASE GoBack
  BY <1>3, <1>6 DEF GoBack, GoTo
<1>7. CASE Restart \/ HandleSizerImportConfirm
  BY <1>3, <1>7 DEF Restart, HandleSizerImportConfirm
<1>8. CASE \E p \in Providers : ToggleProvider(p)
  BY <1>1, <1>8 DEF ToggleProvider, scan, sessions
<1>9. CASE FormsOnly
  BY <1>1, <1>9, FormsOnlyStep DEF scan, sessions
<1>10. ASSUME NEW k \in Scans, StartAnswered(k) \/ StartFailed(k) \/ ServerStep(k) \/ Tick(k)
       PROVE  AssessInv'
  <2>1. UNCHANGED <<step, loaded, report>>
    BY <1>10 DEF StartAnswered, StartFailed, ServerStep, Tick, ScanStep, sessions
  <2>2. ~overtaken' => ~overtaken
    BY <1>0, <1>10, PollJobs
  <2> QED
    BY <2>1, <2>2 DEF AssessInv
<1>11. ASSUME NEW k \in Scans, NEW a \in jobs[k].answers, Deliver(k, a)
       PROVE  AssessInv'
  <2>1. step' = step
    BY <1>0, <1>11, DeliverJobs
  <2> QED
    BY <1>11, <2>1, DeliverInTime DEF AssessInv
<1>12. ASSUME NEW k \in Scans, NEW p \in jobs[k].providers, DemoTick(k, p)
       PROVE  AssessInv'
  <2>1. step' = step /\ overtaken' = overtaken
    BY <1>0, <1>12, DemoTickJobs
  <2> QED
    BY <1>12, <2>1, DemoInTime DEF AssessInv
<1>13. ASSUME NEW names, AddFiles(names)
       PROVE  AssessInv'
  BY <1>1, <1>13 DEF AddFiles, scan
<1>14. ASSUME NEW b \in batches, ReadFile(b)
       PROVE  AssessInv'
  <2>1. CASE UNCHANGED <<step, selected, forms, loaded, report, scan, overtaken, seen>>
    BY <1>1, <2>1
  <2>2. CASE /\ ApplySnapshot(MergeSnapshots(ListOf(b) \o Taken(b)))
             /\ loaded' = IF b.base = None THEN ListOf(b) \o Taken(b) ELSE loaded
             /\ overtaken' = (b.base # None)
    <3>1. CASE b.base = None
      <4>1. loaded' = ListOf(b) \o Taken(b)
        BY <2>2, <3>1
      <4>2. report' = SnapshotReport(MergeSnapshots(loaded'))
        BY <2>2, <4>1 DEF ApplySnapshot
      <4> QED
        BY <4>2 DEF SnapshotReport, MergeSnapshots, AssessInv
    <3>2. CASE b.base # None
      BY <1>2, <2>2, <3>2
    <3> QED
      BY <3>1, <3>2
  <2> QED
    BY <1>14, <2>1, <2>2 DEF ReadFile
<1>15. ASSUME NEW i \in DOMAIN loaded, RemoveLoaded(i)
       PROVE  AssessInv'
  <2>1. loaded' = Without(loaded, loaded[i]) /\ ApplyList(loaded')
    BY <1>15 DEF RemoveLoaded
  <2>2. loaded' # <<>> => report' = SnapshotReport(MergeSnapshots(loaded'))
    BY <2>1 DEF ApplyList, ApplySnapshot
  <2> QED
    BY <2>2 DEF SnapshotReport, MergeSnapshots, AssessInv
<1>16. CASE UNCHANGED vars
  BY <1>1, <1>16 DEF vars, scan, sessions
<1> QED
  BY <1>4, <1>5, <1>6, <1>7, <1>8, <1>9, <1>10, <1>11, <1>12, <1>13, <1>14, <1>15, <1>16
  DEF Next, Navigate, FormsOnly, RunScan, LoadFiles

LEMMA ListingIsOwned ==
    ASSUME NEW S, S \subseteq Nat \ {0}, S # {}
    PROVE  FirstOf(S) \in S
<1>1. PICK n \in S : \A m \in S : n <= m
  BY LeastNumber
<1> QED
  BY <1>1 DEF FirstOf, Min

\* Each row and error of a provider in a merge comes from the provider's owner.
LEMMA OwnersRows ==
    ASSUME NEW files, NEW p, OwnerOf(files, p) \in DOMAIN files
    PROVE  LET f == files[OwnerOf(files, p)]
           IN  /\ {r \in MergedRows(files) : r.provider = p} =
                    {[provider |-> q, from |-> f.name] : q \in Range(f.rows) \cap {p}}
               /\ \A e \in MergedErrors(files) : ToFrontendProvider(e.provider) = p => e.from = f.name
<1> DEFINE i == OwnerOf(files, p)
<1>1. ASSUME NEW r \in MergedRows(files), r.provider = p
      PROVE  r = [provider |-> p, from |-> files[i].name] /\ p \in Range(files[i].rows)
  <2>1. PICK j \in DOMAIN files : r \in OwnedRows(files, j)
    BY DEF MergedRows
  <2>2. PICK q \in Range(files[j].rows) : OwnerOf(files, q) = j /\ r = [provider |-> q, from |-> files[j].name]
    BY <2>1 DEF OwnedRows
  <2> QED
    BY <1>1, <2>2
<1>2. ASSUME p \in Range(files[i].rows)
      PROVE  [provider |-> p, from |-> files[i].name] \in MergedRows(files)
  <2>1. [provider |-> p, from |-> files[i].name] \in OwnedRows(files, i)
    BY <1>2 DEF OwnedRows
  <2> QED
    BY <2>1 DEF MergedRows
<1>3. ASSUME NEW e \in MergedErrors(files), ToFrontendProvider(e.provider) = p
      PROVE  e.from = files[i].name
  <2>1. PICK j \in DOMAIN files : e \in OwnedErrors(files, j)
    BY DEF MergedErrors
  <2>2. PICK x \in Range(files[j].errors) : /\ OwnerOf(files, ToFrontendProvider(x)) = j
                                           /\ e = [provider |-> x, from |-> files[j].name]
    BY <2>1 DEF OwnedErrors
  <2> QED
    BY <1>3, <2>2
<1> HIDE DEF i
<1> QED
  BY <1>1, <1>2, <1>3 DEF i

\* The owner of a provider that some file has rows for.
LEMMA OwnerFound ==
    ASSUME NEW files \in Seq(Files), NEW p, NEW f \in Range(files), p \in Range(f.rows)
    PROVE  /\ OwnerOf(files, p) \in DOMAIN files
           /\ IF \E g \in Range(files) : Contains(g.providers, p)
              THEN Contains(files[OwnerOf(files, p)].providers, p)
              ELSE Contains(files[OwnerOf(files, p)].rows, p)
<1>1. PICK j \in DOMAIN files : f = files[j]
  BY DEF Range
<1>2. DOMAIN files \subseteq Nat \ {0} /\ f \in Files
  BY <1>1
<1>3. Contains(f.rows, p)
  <2>1. f.rows \in Seq(STRING)
    BY <1>2, FilesAssumption
  <2>2. DOMAIN f.rows = 1..Len(f.rows)
    BY <2>1
  <2> QED
    BY <2>2 DEF Range, Contains
<1>4. CASE Listing(files, p) # {}
  <2>1. OwnerOf(files, p) \in Listing(files, p)
    BY <1>2, <1>4, ListingIsOwned DEF OwnerOf, Listing
  <2>2. OwnerOf(files, p) \in DOMAIN files /\ Contains(files[OwnerOf(files, p)].providers, p)
    BY <2>1 DEF Listing
  <2>3. \E g \in Range(files) : Contains(g.providers, p)
    BY <2>2 DEF Range
  <2> QED
    BY <2>2, <2>3
<1>5. CASE Listing(files, p) = {}
  <2>1. j \in Holding(files, p)
    BY <1>1, <1>3 DEF Holding
  <2>2. OwnerOf(files, p) \in Holding(files, p)
    BY <1>2, <1>5, <2>1, ListingIsOwned DEF OwnerOf, Holding
  <2>3. ~\E g \in Range(files) : Contains(g.providers, p)
    BY <1>5 DEF Range, Listing
  <2> QED
    BY <2>2, <2>3 DEF Holding
<1> QED
  BY <1>4, <1>5
-----------------------------------------------------------------------------
(* The theorems                                                            *)

PagesInv ==
  ScanShape /\ JobInv /\ WaitInv /\ QuietInv /\ ListInv /\ KeptInv /\ TotalsInv /\ AssessInv

LEMMA PagesInvInit == Init => PagesInv
<1>1. Init => step = "providers" /\ loaded = <<>>
  BY DEF Init
<1>2. Init => \A k \in Scans : ~jobs[k].ticking
  <2>1. ~NoJob.ticking
    BY DEF NoJob
  <2>2. Init => \A k \in Scans : jobs[k] = NoJob
    BY DEF Init
  <2> QED
    BY <2>1, <2>2
<1> QED
  BY <1>1, <1>2, InitShape, JobInvInit, ListInit, KeptInit, TotalsInit
  DEF PagesInv, WaitInv, QuietInv, AssessInv

LEMMA PagesInvStep == PagesInv /\ [Next]_vars => PagesInv'
BY ShapeStep, JobStep, WaitStep, QuietStep, ListStep, KeptStep, TotalsStep, AssessStep DEF PagesInv

LEMMA PagesInvariant == Spec => []PagesInv
BY PagesInvInit, PagesInvStep, PTL DEF Spec

(* With no error set, a user on the scanning page waits for a call that    *)
(* starts the scan, an interval or an answer, or has the rows of the scan, *)
(* unless an answer came late (startScan and its poller in wizard.tsx).    *)
THEOREM NobodyIsStranded == Spec => []NeverStranded
<1>1. PagesInv => NeverStranded
  BY DEF PagesInv, WaitInv, Awaited, Answered, NeverStranded
<1> QED
  BY <1>1, PagesInvariant, PTL

(* Behind the pages that show no scan only a poller ticks whose scan was   *)
(* still starting when its page was left, unless an answer came late       *)
(* (clearScanIntervals and goBack in wizard.tsx).                          *)
THEOREM PollersAreCleared == Spec => []PollersStop
<1>1. PagesInv => PollersStop
  BY DEF PagesInv, QuietInv, PollersStop
<1> QED
  BY <1>1, PagesInvariant, PTL

(* Totals of the server are shown only beside the rows of the same scan,   *)
(* and rows of a scan never beside others, unless an answer came late (the *)
(* results and the merge of findings in wizard.tsx).                       *)
THEOREM TotalsAreOfTheRows == Spec => []TotalsMatchRows
<1>1. PagesInv => TotalsMatchRows
  BY DEF PagesInv, TotalsInv, TotalsMatchRows
<1> QED
  BY <1>1, PagesInvariant, PTL

(* After any adding, removing and overlapping reading of files, the rows   *)
(* and errors of each provider are those of one file, one that lists the   *)
(* provider if any does (mergeSnapshots in session-io.ts and the drop zone)*)
THEOREM AssessmentIsOfTheFiles == Spec => []AssessmentIsMerge
<1>1. PagesInv => AssessmentIsMerge
  <2> SUFFICES ASSUME PagesInv, step = "providers", loaded # <<>>, ~overtaken,
                      NEW f \in Range(loaded), NEW p \in Range(f.rows)
               PROVE  \E g \in Range(loaded) :
                        /\ {r \in report.rows : r.provider = p} =
                             {[provider |-> q, from |-> g.name] : q \in Range(g.rows) \cap {p}}
                        /\ IF \E h \in Range(loaded) : Contains(h.providers, p)
                           THEN Contains(g.providers, p) ELSE Contains(g.rows, p)
                        /\ \A e \in report.errors : ToFrontendProvider(e.provider) = p => e.from = g.name
    BY DEF AssessmentIsMerge
  <2> DEFINE g == loaded[OwnerOf(loaded, p)]
  <2>1. loaded \in Seq(Files) /\ report.rows = MergedRows(loaded) /\ report.errors = MergedErrors(loaded)
    BY DEF PagesInv, ListInv, AssessInv
  <2>2. /\ OwnerOf(loaded, p) \in DOMAIN loaded
        /\ IF \E h \in Range(loaded) : Contains(h.providers, p)
           THEN Contains(g.providers, p) ELSE Contains(g.rows, p)
    BY <2>1, OwnerFound
  <2>3. g \in Range(loaded)
    BY <2>2 DEF Range
  <2>4. /\ {r \in report.rows : r.provider = p} =
             {[provider |-> q, from |-> g.name] : q \in Range(g.rows) \cap {p}}
        /\ \A e \in report.errors : ToFrontendProvider(e.provider) = p => e.from = g.name
    BY <2>1, <2>2, OwnersRows
  <2> HIDE DEF g
  <2> QED
    BY <2>2, <2>3, <2>4
<1> QED
  BY <1>1, PagesInvariant, PTL

-----------------------------------------------------------------------------
(* One form                                                                *)

FormFields == {"status", "method", "how", "file", "token", "listed", "checked", "mode"}

FormShape(p, f) ==
  /\ DOMAIN f = FormFields
  /\ f.status \in Statuses /\ f.method \in Methods(p)
  /\ f.checked \subseteq f.listed
  /\ f.file # None => f.how = "backup"

LEMMA BlankFormShape ==
    ASSUME NEW p, NEW m \in Methods(p)
    PROVE  FormShape(p, BlankForm(p, m))
BY DEF FormShape, BlankForm, FormFields, Statuses

\* What the credentials page does to a form.
LEMMA CredentialsShape ==
    ASSUME NEW p, NEW f, FormShape(p, f)
    PROVE  /\ FormShape(p, CleanForm(p, f))
           /\ FormShape(p, ToggledForm(f))
           /\ \A m \in Methods(p) : FormShape(p, SwitchedMethod(p, f, m))
           /\ \A b : f.how = "backup" => FormShape(p, PickedFile(f, b))
           /\ FormShape(p, RemovedFile(p, f))
           /\ \A call : FormShape(p, Validated(p, f, call))
           /\ FormShape(p, Refused(f))
           /\ \A s \in Statuses : FormShape(p, [f EXCEPT !.status = s])
<1> USE DEF FormShape, FormFields, Statuses
<1>1. FormShape(p, CleanForm(p, f))
  BY BlankFormShape DEF CleanForm
<1>2. FormShape(p, ToggledForm(f))
  BY DEF ToggledForm
<1>3. ASSUME NEW m \in Methods(p)
      PROVE  FormShape(p, SwitchedMethod(p, f, m))
  BY DEF SwitchedMethod
<1>4. ASSUME NEW b, f.how = "backup"
      PROVE  FormShape(p, PickedFile(f, b))
  BY <1>4 DEF PickedFile
<1>5. FormShape(p, RemovedFile(p, f))
  BY DEF RemovedFile
<1>6. ASSUME NEW call
      PROVE  FormShape(p, Validated(p, f, call))
  BY DEF Validated
<1>7. FormShape(p, Refused(f))
  BY DEF Refused
<1>8. \A s \in Statuses : FormShape(p, [f EXCEPT !.status = s])
  OBVIOUS
<1> HIDE DEF FormShape
<1> QED
  BY <1>1, <1>2, <1>3, <1>4, <1>5, <1>6, <1>7, <1>8

\* What the sources page does to it, and the servers a forest probe found.
LEMMA SourcesShape ==
    ASSUME NEW p, NEW f, FormShape(p, f)
    PROVE  /\ \A s \in f.listed : FormShape(p, [f EXCEPT !.checked = Toggled(@, s)])
           /\ \A v \in SUBSET f.listed : FormShape(p, ToggledVisible(f, v))
           /\ \A m : FormShape(p, SwitchedMode(f, m))
           /\ \A S : FormShape(p, AddedServers(f, S))
<1> USE DEF FormShape, FormFields
<1>1. ASSUME NEW s \in f.listed
      PROVE  FormShape(p, [f EXCEPT !.checked = Toggled(@, s)])
  <2>1. Toggled(f.checked, s) \subseteq f.listed
    BY DEF Toggled
  <2> QED
    BY <2>1
<1>2. ASSUME NEW v \in SUBSET f.listed
      PROVE  FormShape(p, ToggledVisible(f, v))
  BY DEF ToggledVisible
<1>3. ASSUME NEW m
      PROVE  FormShape(p, SwitchedMode(f, m))
  BY DEF SwitchedMode
<1>4. ASSUME NEW S
      PROVE  FormShape(p, AddedServers(f, S))
  BY DEF AddedServers
<1> HIDE DEF FormShape
<1> QED
  BY <1>1, <1>2, <1>3, <1>4
-----------------------------------------------------------------------------
(* All forms                                                               *)

FormsShape == DOMAIN form = Providers /\ \A p \in Providers : FormShape(p, form[p])

FormsInv == selected \subseteq Providers /\ FormsShape

LEMMA FormsInit == Init => FormsInv
<1> SUFFICES ASSUME Init
             PROVE  FormsInv
  OBVIOUS
<1>1. selected = {} /\ form = [p \in Providers |-> BlankForm(p, FirstMethod(p))]
  BY DEF Init
<1>2. \A p \in Providers : FormShape(p, BlankForm(p, FirstMethod(p)))
  BY BlankFormShape, FormsAssumption
<1> QED
  BY <1>1, <1>2 DEF FormsInv, FormsShape

LEMMA OneForm ==
    ASSUME FormsShape, NEW p, NEW f, p \in Providers => FormShape(p, f),
           form' = [form EXCEPT ![p] = f]
    PROVE  FormsShape'
BY DEF FormsShape

LEMMA ShownShape ==
    ASSUME FormsShape, form' = Shown(form)
    PROVE  FormsShape'
<1>1. CASE "estimator" \in selected
  <2> DEFINE f == [form["estimator"] EXCEPT !.status = "valid"]
  <2>1. "estimator" \in Providers => FormShape("estimator", f)
    BY CredentialsShape DEF FormsShape, Statuses
  <2>2. form' = [form EXCEPT !["estimator"] = f]
    BY <1>1 DEF Shown
  <2> HIDE DEF f
  <2> QED
    BY <2>1, <2>2, OneForm
<1>2. CASE "estimator" \notin selected
  BY <1>2 DEF Shown, FormsShape
<1> QED
  BY <1>1, <1>2

LEMMA MergedAreTiles ==
    ASSUME NEW list \in Seq(Files)
    PROVE  MergedProviders(list) \subseteq Providers
<1> SUFFICES ASSUME NEW i \in DOMAIN list, NEW p \in Range(list[i].providers)
             PROVE  p \in Providers
  BY DEF MergedProviders
<1>1. list[i].providers \in Seq(Providers)
  BY FilesAssumption
<1> QED
  BY <1>1 DEF Range

LEMMA FillFormsShape ==
    ASSUME FormsInv, FillForms
    PROVE  FormsShape'
<1>0. \A p \in selected : p \in Providers /\ FormShape(p, form[p])
  BY DEF FormsInv, FormsShape
<1>1. ASSUME NEW p \in selected, Validate(p)
      PROVE  FormsShape'
  <2>1. form' = [form EXCEPT ![p] = [form[p] EXCEPT !.status = "validating"]]
    BY <1>1 DEF Validate
  <2>2. FormShape(p, [form[p] EXCEPT !.status = "validating"])
    BY <1>0, CredentialsShape DEF Statuses
  <2> QED
    BY <2>1, <2>2, OneForm DEF FormsInv
<1>2. ASSUME NEW p \in selected, RemoveFile(p)
      PROVE  FormsShape'
  BY <1>0, <1>2, CredentialsShape, OneForm DEF RemoveFile, FormsInv
<1>3. ASSUME NEW p \in selected, NEW m \in Methods(p), SwitchMethod(p, m)
      PROVE  FormsShape'
  BY <1>0, <1>3, CredentialsShape, OneForm DEF SwitchMethod, FormsInv
<1>4. ASSUME NEW p \in selected, NEW b, PickFile(p, b)
      PROVE  FormsShape'
  BY <1>0, <1>4, CredentialsShape, OneForm DEF PickFile, FormsInv
<1>5. ASSUME NEW S, form' = [form EXCEPT !["microsoft"] = AddedServers(@, S)]
      PROVE  FormsShape'
  <2>1. "microsoft" \in Providers => FormShape("microsoft", AddedServers(form["microsoft"], S))
    BY SourcesShape DEF FormsInv, FormsShape
  <2> QED
    BY <1>5, <2>1, OneForm DEF FormsInv
<1>6. CASE form' = form
  BY <1>6 DEF FormsInv, FormsShape
<1> QED
  BY <1>1, <1>2, <1>3, <1>4, <1>5, <1>6
  DEF FillForms, TypeCredentials, UploadQps, RemoveQps, AddForest, AddAllDiscovered, DismissDiscovery,
      AddDiscovered, RemoveForest, EditForest, ValidateForest

LEMMA AnswersShape ==
    ASSUME FormsInv, Answers
    PROVE  FormsShape'
<1>1. ASSUME NEW c \in calls, AnswerValidation(c)
      PROVE  FormsShape'
  <2> DEFINE p == c.provider
  <2>1. p \in Providers => FormShape(p, Validated(p, form[p], c)) /\ FormShape(p, Refused(form[p]))
    BY CredentialsShape DEF FormsInv, FormsShape
  <2>2. \/ form' = [form EXCEPT ![p] = Validated(p, form[p], c)]
        \/ form' = [form EXCEPT ![p] = Refused(form[p])]
    BY <1>1 DEF AnswerValidation
  <2> HIDE DEF p
  <2> QED
    BY <2>1, <2>2, OneForm DEF FormsInv
<1>2. CASE form' = form
  BY <1>2 DEF FormsInv, FormsShape
<1> QED
  BY <1>1, <1>2 DEF Answers, AnswerForest, AnswerProbe, AnswerQps

LEMMA PickSourcesShape ==
    ASSUME FormsInv, PickSources
    PROVE  FormsShape'
<1>0. \A p \in selected : p \in Providers /\ FormShape(p, form[p])
  BY DEF FormsInv, FormsShape
<1>1. ASSUME NEW p \in selected, NEW s, ToggleSubscription(p, s)
      PROVE  FormsShape'
  <2> DEFINE f == [form[p] EXCEPT !.checked = Toggled(@, s)]
  <2>1. FormShape(p, f)
    BY <1>0, <1>1, SourcesShape DEF ToggleSubscription
  <2>2. form' = [form EXCEPT ![p] = f]
    BY <1>1 DEF ToggleSubscription, ChangeSources
  <2> HIDE DEF f
  <2> QED
    BY <2>1, <2>2, OneForm DEF FormsInv
<1>2. ASSUME NEW p \in selected, NEW v \in SUBSET form[p].listed, ToggleAllFiltered(p, v)
      PROVE  FormsShape'
  BY <1>0, <1>2, SourcesShape, OneForm DEF ToggleAllFiltered, ChangeSources, FormsInv
<1>3. ASSUME NEW p \in selected, NEW m, SwitchMode(p, m)
      PROVE  FormsShape'
  BY <1>0, <1>3, SourcesShape, OneForm DEF SwitchMode, ChangeSources, FormsInv
<1>4. ASSUME NEW n, NEW s, ToggleForest(n, s)
      PROVE  FormsShape'
  BY <1>4 DEF ToggleForest, FormsInv, FormsShape
<1> QED
  BY <1>1, <1>2, <1>3, <1>4 DEF PickSources

LEMMA RestartedShape ==
    ASSUME FormsInv, Restarted
    PROVE  FormsShape'
<1>1. form' = [p \in Providers |-> CleanForm(p, form[p])]
  BY DEF Restarted
<1> QED
  BY <1>1, CredentialsShape DEF FormsInv, FormsShape

LEMMA FormsStep ==
    ASSUME ListInv, FormsInv, [Next]_vars
    PROVE  FormsInv'
<1>1. CASE GoNext \/ GoBack
  <2>1. selected' = selected /\ (form' = form \/ form' = Shown(form))
    BY <1>1 DEF GoNext, GoBack, GoTo
  <2> QED
    BY <2>1, ShownShape DEF FormsInv, FormsShape
<1>2. CASE GoScan \/ Retry
  BY <1>2 DEF GoScan, Retry, forms, FormsInv, FormsShape
<1>3. CASE Restart
  BY <1>3, RestartedShape DEF Restart, FormsInv
<1>4. CASE HandleSizerImportConfirm
  <2> DEFINE f == [form["estimator"] EXCEPT !.status = "valid"]
  <2>1. form' = [form EXCEPT !["estimator"] = f] /\ selected' \subseteq Providers
    BY <1>4 DEF HandleSizerImportConfirm
  <2>2. "estimator" \in Providers => FormShape("estimator", f)
    BY CredentialsShape DEF FormsInv, FormsShape, Statuses
  <2> HIDE DEF f
  <2> QED
    BY <2>1, <2>2, OneForm DEF FormsInv
<1>5. ASSUME NEW p \in Providers, ToggleProvider(p)
      PROVE  FormsInv'
  <2>1. FormShape(p, ToggledForm(form[p]))
    BY CredentialsShape DEF FormsInv, FormsShape
  <2>2. FormsShape'
    BY <1>5, <2>1, OneForm DEF ToggleProvider, FormsInv
  <2>3. selected' \subseteq Providers
    BY <1>5 DEF ToggleProvider, Toggled, FormsInv
  <2> QED
    BY <2>2, <2>3 DEF FormsInv
<1>6. CASE FillForms \/ Answers \/ PickSources
  <2>1. selected' = selected
    BY <1>6, FormsOnlyStep DEF FormsOnly
  <2> QED
    BY <1>6, <2>1, FillFormsShape, AnswersShape, PickSourcesShape DEF FormsInv
<1>7. CASE RunScan
  <2>1. UNCHANGED <<selected, form>>
    BY <1>7 DEF RunScan, StartAnswered, StartFailed, ServerStep, Tick, Deliver, DemoTick, Ping, ScanStep, forms
  <2> QED
    BY <2>1 DEF FormsInv, FormsShape
<1>8. ASSUME NEW names, AddFiles(names)
      PROVE  FormsInv'
  BY <1>8 DEF AddFiles, forms, FormsInv, FormsShape
<1>9. ASSUME NEW list \in Seq(Files), ApplySnapshot(MergeSnapshots(list))
      PROVE  FormsInv'
  <2>1. selected' = MergedProviders(list)
    BY <1>9 DEF ApplySnapshot, MergeSnapshots
  <2> QED
    BY <1>9, <2>1, MergedAreTiles, RestartedShape DEF ApplySnapshot, FormsInv
<1>10. ASSUME NEW b \in batches, ReadFile(b)
       PROVE  FormsInv'
  <2>1. ListOf(b) \o Taken(b) \in Seq(Files)
    BY ListOfIsList DEF ListInv
  <2>2. CASE UNCHANGED <<selected, form>>
    BY <2>2 DEF FormsInv, FormsShape
  <2> QED
    BY <1>9, <1>10, <2>1, <2>2 DEF ReadFile, forms
<1>11. ASSUME NEW i \in DOMAIN loaded, RemoveLoaded(i)
       PROVE  FormsInv'
  <2>1. Without(loaded, loaded[i]) \in Seq(Files)
    BY WithoutIsList DEF ListInv
  <2>2. CASE Restarted /\ selected' = {}
    BY <2>2, RestartedShape DEF FormsInv
  <2> QED
    BY <1>9, <1>11, <2>1, <2>2 DEF RemoveLoaded, ApplyList
<1>12. CASE UNCHANGED vars
  BY <1>12 DEF vars, forms, FormsInv, FormsShape
<1> QED
  BY <1>1, <1>2, <1>3, <1>4, <1>5, <1>6, <1>7, <1>8, <1>10, <1>11, <1>12
  DEF Next, Navigate, LoadFiles
-----------------------------------------------------------------------------
(* The additional forests                                                  *)

Forest ==
  [id : Int, status : Statuses, listed : SUBSET Sources("microsoft"), checked : SUBSET Sources("microsoft")]

\* Ids are given in falling order.
ForestsInv ==
  /\ forests \in Seq(Forest)
  /\ "forests" \in DOMAIN budget /\ budget.forests \in Int
  /\ \A i \in DOMAIN forests : forests[i].id > budget.forests
  /\ \A i, j \in DOMAIN forests : forests[i].id = forests[j].id => i = j

\* While no place was shifted, the places that startScan captured, that calls
\* ask about and under which the server keeps credentials are of the forests
\* that are there, and a forest that is valid or scanned has its credentials.
SeenPlaces == \A i \in DOMAIN seen.forests : i \in DOMAIN forests /\ seen.forests[i].id = forests[i].id

AskedPlaces == \A a \in asked : a.index \in DOMAIN forests /\ forests[a.index].id = a.of

VaultPlaces ==
  \A i \in DOMAIN forests : forests[i].status = "valid" \/ step \in {"sources", "scanning"} =>
    i \in DOMAIN vault /\ vault[i] = forests[i].id

VaultInv == ~shifted => SeenPlaces /\ AskedPlaces /\ VaultPlaces

SameIds == "forests" \in DOMAIN budget' /\ budget'.forests = budget.forests

SeenStep == seen'.forests = seen.forests \/ seen'.forests = forests'

\* The way to the sources is open when all forests are valid.
WayStep ==
  step' \in {"sources", "scanning"} =>
    step \in {"sources", "scanning"} \/ \A i \in DOMAIN forests : forests[i].status = "valid"

ForestsKept == UNCHANGED <<forests, asked, vault, shifted>> /\ SeenStep /\ WayStep /\ SameIds

ForestsGone ==
  forests' = <<>> /\ asked' = asked /\ shifted' = (asked # {}) /\ seen'.forests = forests' /\ SameIds

LEMMA ForestCases ==
    ASSUME [Next]_vars, "forests" \in DOMAIN budget
    PROVE  \/ ForestsKept \/ ForestsGone \/ AddForest
           \/ \E i \in DOMAIN forests : RemoveForest(i) \/ EditForest(i) \/ ValidateForest(i)
           \/ \E a \in asked, ok \in BOOLEAN : AnswerForest(a, ok)
           \/ \E n \in DOMAIN forests, s \in Sources("microsoft") : ToggleForest(n, s)
<1>0. \A field : field # "forests" /\ Spend(field, 1) => SameIds
  BY DEF Spend, SameIds
<1>1. budget' = budget => SameIds
  BY DEF SameIds
<1>2. \A callbacks : Remade(callbacks) => SeenStep
  BY DEF Remade, SeenStep
<1>3. seen' = seen => SeenStep
  BY DEF SeenStep
<1>4. step' = step => WayStep
  BY DEF WayStep
<1>5. Restarted => forests' = <<>> /\ asked' = asked /\ shifted' = (asked # {}) /\ seen'.forests = forests'
  <2> SUFFICES ASSUME Restarted
               PROVE  forests' = <<>> /\ asked' = asked /\ shifted' = (asked # {}) /\ seen'.forests = forests'
    OBVIOUS
  <2>1. forests' = <<>> /\ asked' = asked /\ shifted' = (asked # {}) /\ Remade({"scan", "upload"})
    BY Zenon DEF Restarted
  <2>2. seen'.forests = forests'
    BY <2>1 DEF Remade
  <2> QED
    BY <2>1, <2>2
<1>6. CASE GoNext
  <2>1. UNCHANGED <<forests, asked, vault, shifted, seen, budget>>
    BY <1>6 DEF GoNext, GoTo
  <2>2. CASE step' # "sources"
    <3>1. WayStep
      BY <1>6, <2>2, GoNextStep DEF NextPage, WayStep
    <3> QED
      BY <1>1, <1>3, <2>1, <3>1 DEF ForestsKept
  <2>3. CASE step' = "sources"
    <3>1. step = "credentials" /\ "estimator" \notin selected
      BY <1>6, <2>3, GoNextStep DEF NextPage
    <3>2. \A i \in DOMAIN forests : forests[i].status = "valid"
      BY <1>6, <3>1 DEF GoNext, CanGoNext
    <3> QED
      BY <1>1, <1>3, <2>1, <3>2 DEF ForestsKept, WayStep
  <2> QED
    BY <2>2, <2>3
<1>7. CASE GoScan \/ Retry
  <2>1. UNCHANGED <<forests, asked, vault, shifted, budget>> /\ SeenStep
    BY <1>2, <1>7 DEF GoScan, Retry, forms
  <2>2. step \in {"sources", "scanning"}
    BY <1>7 DEF GoScan, Retry
  <2> QED
    BY <1>1, <2>1, <2>2 DEF ForestsKept, WayStep
<1>8. CASE GoBack
  <2>1. UNCHANGED <<forests, asked, vault, shifted, seen>> /\ SameIds
    BY <1>0, <1>8 DEF GoBack, GoTo
  <2>2. WayStep
    BY <1>8, GoBackStep DEF Back, WayStep
  <2> QED
    BY <1>3, <2>1, <2>2 DEF ForestsKept
<1>9. CASE Restart
  BY <1>0, <1>5, <1>9 DEF Restart, ForestsGone
<1>10. CASE HandleSizerImportConfirm \/ \E p \in Providers : ToggleProvider(p)
  <2>1. UNCHANGED <<forests, asked, vault, shifted>> /\ SeenStep /\ SameIds
    BY <1>0, <1>2, <1>10 DEF HandleSizerImportConfirm, ToggleProvider
  <2>2. WayStep
    BY <1>10 DEF HandleSizerImportConfirm, ToggleProvider, WayStep
  <2> QED
    BY <2>1, <2>2 DEF ForestsKept
<1>11. CASE FillForms
  <2>1. CASE \E p \in selected : Validate(p) \/ TypeCredentials(p) \/ RemoveFile(p)
    BY <1>0, <1>1, <1>2, <1>4, <2>1 DEF Validate, TypeCredentials, RemoveFile, FormStep, ForestsKept
  <2>2. CASE \/ \E p \in selected : \E m \in Methods(p) : SwitchMethod(p, m)
             \/ \E p \in selected, b \in Backups : PickFile(p, b)
             \/ UploadQps \/ RemoveQps
    BY <1>0, <1>1, <1>2, <1>4, <2>2 DEF SwitchMethod, PickFile, UploadQps, RemoveQps, FormStep, ForestsKept
  <2>3. CASE AddAllDiscovered \/ DismissDiscovery \/ \E s \in Discoverable : AddDiscovered(s)
    BY <1>1, <1>2, <1>4, <2>3 DEF AddAllDiscovered, DismissDiscovery, AddDiscovered, FormStep, ForestsKept
  <2> QED
    BY <1>11, <2>1, <2>2, <2>3 DEF FillForms
<1>12. CASE Answers
  <2>1. CASE \E c \in calls : AnswerValidation(c)
    BY <1>1, <1>2, <1>4, <2>1 DEF AnswerValidation, FormStep, ForestsKept
  <2>2. CASE AnswerQps \/ \E found \in SUBSET Discoverable : AnswerProbe(found)
    BY <1>1, <1>2, <1>4, <2>2 DEF AnswerQps, AnswerProbe, FormStep, ForestsKept
  <2> QED
    BY <1>12, <2>1, <2>2 DEF Answers
<1>13. CASE PickSources
  <2>1. ASSUME NEW p, NEW f, ChangeSources(p, f)
        PROVE  ForestsKept
    BY <1>0, <1>2, <1>4, <2>1 DEF ChangeSources, FormStep, ForestsKept
  <2> QED
    BY <1>13, <2>1 DEF PickSources, ToggleSubscription, ToggleAllFiltered, SwitchMode
<1>14. CASE RunScan
  <2>1. ASSUME NEW k \in Scans, StartAnswered(k) \/ StartFailed(k) \/ ServerStep(k) \/ Tick(k)
        PROVE  ForestsKept
    BY <1>0, <1>1, <1>2, <1>4, <2>1
    DEF StartAnswered, StartFailed, ServerStep, Tick, ScanStep, forms, ForestsKept
  <2>2. ASSUME NEW k \in Scans, NEW a, Deliver(k, a)
        PROVE  ForestsKept
    <3>1. ScanStep({"scan"}) \/ ScanStep({})
      BY <2>2 DEF Deliver
    <3>2. SameIds
      BY <1>0, <1>1, <2>2 DEF Deliver
    <3> QED
      BY <1>2, <1>4, <3>1, <3>2 DEF ScanStep, forms, ForestsKept
  <2>3. ASSUME NEW k \in Scans, NEW p, DemoTick(k, p)
        PROVE  ForestsKept
    BY <1>1, <1>2, <1>4, <2>3 DEF DemoTick, ScanStep, forms, ForestsKept
  <2>4. CASE Ping
    BY <1>0, <1>2, <1>4, <2>4 DEF Ping, forms, ForestsKept
  <2> QED
    BY <1>14, <2>1, <2>2, <2>3, <2>4 DEF RunScan
<1>15. ASSUME NEW names, AddFiles(names)
       PROVE  ForestsKept
  BY <1>0, <1>3, <1>4, <1>15 DEF AddFiles, forms, ForestsKept
<1>16. ASSUME NEW b \in batches, ReadFile(b)
       PROVE  ForestsKept \/ ForestsGone
  <2>1. CASE UNCHANGED <<step, selected, forms, loaded, report, scan, overtaken, seen>>
    BY <1>1, <1>3, <1>4, <1>16, <2>1 DEF ReadFile, forms, ForestsKept
  <2>2. CASE ApplySnapshot(MergeSnapshots(ListOf(b) \o Taken(b)))
    BY <1>1, <1>5, <1>16, <2>2 DEF ReadFile, ApplySnapshot, ForestsGone
  <2> QED
    BY <1>16, <2>1, <2>2 DEF ReadFile
<1>17. ASSUME NEW i \in DOMAIN loaded, RemoveLoaded(i)
       PROVE  ForestsGone
  <2>1. Restarted
    BY <1>17 DEF RemoveLoaded, ApplyList, ApplySnapshot
  <2> QED
    BY <1>0, <1>5, <1>17, <2>1 DEF RemoveLoaded, ForestsGone
<1>18. CASE UNCHANGED vars
  BY <1>1, <1>3, <1>4, <1>18 DEF vars, forms, ForestsKept
<1> QED
  BY <1>6, <1>7, <1>8, <1>9, <1>10, <1>11, <1>12, <1>13, <1>14, <1>15, <1>16, <1>17, <1>18
  DEF Next, Navigate, LoadFiles

\* The second half of a joined sequence.
LEMMA SecondHalf ==
    ASSUME NEW S, NEW p \in Seq(S), NEW q \in Seq(S), NEW k \in 1..Len(q)
    PROVE  (p \o q)[Len(p) + k] = q[k]
<1>1. Len(p) \in Nat /\ Len(q) \in Nat /\ k \in Int /\ 1 <= k /\ k <= Len(q)
  OBVIOUS
<1>2. Len(p) + k \in 1..(Len(p) + Len(q)) /\ ~(Len(p) + k <= Len(p)) /\ (Len(p) + k) - Len(p) = k
  BY <1>1
<1> QED
  BY <1>2

LEMMA WithoutOneForest ==
    ASSUME NEW S, NEW s \in Seq(S), NEW i \in DOMAIN s
    PROVE  LET t == RemoveAt(s, i)
           IN  /\ t \in Seq(S)
               /\ DOMAIN t = 1..(Len(s) - 1)
               /\ \A j \in DOMAIN t : t[j] = s[IF j < i THEN j ELSE j + 1]
<1>1. i \in 1..Len(s) /\ Len(s) \in Nat
  OBVIOUS
<1> DEFINE left == SubSeq(s, 1, i - 1)
           right == SubSeq(s, i + 1, Len(s))
<1>2. left \in Seq(S) /\ Len(left) = i - 1 /\ \A j \in 1..(i - 1) : left[j] = s[j]
  BY <1>1
<1>3. right \in Seq(S) /\ Len(right) = Len(s) - i /\ \A j \in 1..(Len(s) - i) : right[j] = s[i + j]
  BY <1>1
<1>4. RemoveAt(s, i) = left \o right
  BY DEF RemoveAt
<1> HIDE DEF left, right
<1>5. left \o right \in Seq(S) /\ Len(left \o right) = Len(s) - 1
  BY <1>1, <1>2, <1>3
<1>6. ASSUME NEW j \in 1..(Len(s) - 1)
      PROVE  (left \o right)[j] = s[IF j < i THEN j ELSE j + 1]
  <2>1. CASE j < i
    <3>1. (left \o right)[j] = s[j]
      BY <1>1, <1>2, <1>3, <2>1
    <3> QED
      BY <2>1, <3>1
  <2>2. CASE ~(j < i)
    <3> DEFINE k == j - i + 1
    <3>1. k \in 1..(Len(s) - i) /\ i + k = j + 1 /\ (i - 1) + k = j
      BY <1>1, <2>2
    <3> HIDE DEF k
    <3>2. (left \o right)[Len(left) + k] = right[k]
      <4>1. k \in 1..Len(right)
        BY <1>3, <3>1
      <4>2. left \in Seq(S) /\ right \in Seq(S)
        BY <1>2, <1>3
      <4> QED
        BY <4>1, <4>2, SecondHalf
    <3>3. Len(left) + k = j
      BY <1>2, <3>1
    <3>4. right[k] = s[i + k]
      BY <1>3, <3>1
    <3>5. (left \o right)[j] = s[j + 1]
      BY <3>1, <3>2, <3>3, <3>4
    <3> QED
      BY <2>2, <3>5
  <2> QED
    BY <2>1, <2>2
<1>7. DOMAIN (left \o right) = 1..(Len(s) - 1)
  BY <1>5
<1> QED
  BY <1>4, <1>5, <1>6, <1>7

\* A forest changed in its place keeps its id.
LEMMA ChangedForest ==
    ASSUME NEW g \in Forest
    PROVE  /\ EditedForest(g) \in Forest /\ EditedForest(g).id = g.id /\ EditedForest(g).status = "idle"
           /\ SwitchedForest(g) \in Forest /\ SwitchedForest(g).id = g.id /\ SwitchedForest(g).status = "idle"
           /\ \A t \in Statuses : LET h == [g EXCEPT !.status = t]
                                  IN h \in Forest /\ h.id = g.id /\ h.status = t
           /\ LET h == [g EXCEPT !.status = "valid", !.listed = Sources("microsoft"),
                                 !.checked = Sources("microsoft")]
              IN h \in Forest /\ h.id = g.id
           /\ \A s \in Sources("microsoft") :
                LET h == [g EXCEPT !.checked = Toggled(@, s)]
                IN h \in Forest /\ h.id = g.id /\ h.status = g.status
BY DEF Forest, EditedForest, SwitchedForest, Statuses, Toggled

LEMMA OneForest ==
    ASSUME ForestsInv, NEW i \in DOMAIN forests, NEW h \in Forest, h.id = forests[i].id,
           forests' = [forests EXCEPT ![i] = h], SameIds
    PROVE  /\ ForestsInv' /\ DOMAIN forests' = DOMAIN forests
           /\ \A j \in DOMAIN forests : forests'[j].id = forests[j].id
           /\ forests'[i] = h /\ \A j \in DOMAIN forests : j # i => forests'[j] = forests[j]
BY DEF ForestsInv, SameIds

LEMMA ForestsInit == Init => ForestsInv /\ VaultInv
<1> SUFFICES ASSUME Init
             PROVE  ForestsInv /\ VaultInv
  OBVIOUS
<1>1. budget \in Budgets /\ forests = <<>> /\ asked = {} /\ seen.forests = <<>>
  BY DEF Init
<1>2. "forests" \in DOMAIN budget /\ budget.forests \in Int
  BY <1>1, FormsAssumption
<1>3. forests \in Seq(Forest) /\ DOMAIN forests = {} /\ DOMAIN seen.forests = {}
  BY <1>1
<1>4. ForestsInv
  BY <1>2, <1>3 DEF ForestsInv
<1>5. VaultInv
  BY <1>1, <1>3 DEF VaultInv, SeenPlaces, AskedPlaces, VaultPlaces
<1> QED
  BY <1>4, <1>5

LEMMA SpentForest ==
    ASSUME ForestsInv, Spend("forests", 1)
    PROVE  "forests" \in DOMAIN budget' /\ budget'.forests = budget.forests - 1
BY DEF ForestsInv, Spend

LEMMA SpentElse ==
    ASSUME ForestsInv, NEW field, field # "forests", Spend(field, 1)
    PROVE  SameIds
BY DEF ForestsInv, Spend, SameIds

LEMMA AddedForest ==
    ASSUME ForestsInv, AddForest
    PROVE  /\ ForestsInv'
           /\ \A j \in DOMAIN forests : j \in DOMAIN forests' /\ forests'[j] = forests[j]
           /\ \A j \in DOMAIN forests' : j \in DOMAIN forests \/ forests'[j].status = "idle"
<1> DEFINE g == NewForest(budget.forests)
<1>1. forests' = Append(forests, g) /\ Spend("forests", 1)
  BY DEF AddForest
<1>2. g \in Forest /\ g.id = budget.forests /\ g.status = "idle"
  BY DEF NewForest, Forest, Statuses, ForestsInv
<1>3. budget.forests \in Int /\ forests \in Seq(Forest)
  BY DEF ForestsInv
<1> HIDE DEF g
<1>4. forests' \in Seq(Forest) /\ DOMAIN forests = 1..Len(forests) /\ DOMAIN forests' = 1..(Len(forests) + 1)
      /\ Len(forests) \in Nat
  BY <1>1, <1>2, <1>3
<1>5. \A j \in DOMAIN forests : j \in DOMAIN forests' /\ forests'[j] = forests[j]
  BY <1>1, <1>3, <1>4
<1>6. \A j \in DOMAIN forests' : j \in DOMAIN forests \/ j = Len(forests) + 1
  BY <1>4
<1>7. forests'[Len(forests) + 1] = g
  BY <1>1, <1>2, <1>3
<1>8. budget'.forests = budget.forests - 1 /\ "forests" \in DOMAIN budget'
  BY <1>1, SpentForest
<1>9. ASSUME NEW j \in DOMAIN forests
      PROVE  forests[j].id \in Int /\ forests[j].id > budget.forests
  <2>1. forests[j] \in Forest
    BY <1>3
  <2> QED
    BY <2>1 DEF ForestsInv, Forest
<1>10. \A j \in DOMAIN forests' : forests'[j].id > budget'.forests
  BY <1>2, <1>3, <1>5, <1>6, <1>7, <1>8, <1>9
<1>11. ASSUME NEW i \in DOMAIN forests', NEW j \in DOMAIN forests', forests'[i].id = forests'[j].id
       PROVE  i = j
  <2>1. CASE i \in DOMAIN forests /\ j \in DOMAIN forests
    BY <1>5, <1>11, <2>1 DEF ForestsInv
  <2>2. CASE i \notin DOMAIN forests /\ j \notin DOMAIN forests
    BY <1>6, <2>2
  <2>3. \A k \in DOMAIN forests : forests'[k].id # budget.forests
    BY <1>3, <1>5, <1>9
  <2>4. \A k \in DOMAIN forests' : k \notin DOMAIN forests => forests'[k].id = budget.forests
    BY <1>2, <1>6, <1>7
  <2> QED
    BY <1>11, <2>1, <2>2, <2>3, <2>4
<1>12. ForestsInv'
  <2>1. budget'.forests \in Int
    BY <1>3, <1>8
  <2> QED
    BY <1>4, <1>8, <1>10, <1>11, <2>1 DEF ForestsInv
<1>13. \A j \in DOMAIN forests' : j \in DOMAIN forests \/ forests'[j].status = "idle"
  BY <1>2, <1>6, <1>7
<1> QED
  BY <1>5, <1>12, <1>13

LEMMA RemovedForest ==
    ASSUME ForestsInv, NEW k \in DOMAIN forests, RemoveForest(k)
    PROVE  ForestsInv'
<1>1. forests' = RemoveAt(forests, k) /\ Spend("forms", 1)
  BY DEF RemoveForest
<1>2. forests \in Seq(Forest) /\ DOMAIN forests = 1..Len(forests) /\ Len(forests) \in Nat
  BY DEF ForestsInv
<1>3. SameIds
  BY <1>1, SpentElse
<1> DEFINE at(j) == IF j < k THEN j ELSE j + 1
<1>4. /\ forests' \in Seq(Forest) /\ DOMAIN forests' = 1..(Len(forests) - 1)
      /\ \A j \in DOMAIN forests' : forests'[j] = forests[at(j)]
  BY <1>1, <1>2, WithoutOneForest
<1>5. \A j \in DOMAIN forests' : at(j) \in DOMAIN forests
  BY <1>2, <1>4
<1>6. \A i, j \in DOMAIN forests' : at(i) = at(j) => i = j
  BY <1>2, <1>4
<1> HIDE DEF at
<1>7. \A i, j \in DOMAIN forests' : forests'[i].id = forests'[j].id => i = j
  BY <1>4, <1>5, <1>6 DEF ForestsInv
<1>8. \A j \in DOMAIN forests' : forests'[j].id > budget'.forests
  BY <1>3, <1>4, <1>5 DEF ForestsInv, SameIds
<1> QED
  BY <1>3, <1>4, <1>7, <1>8 DEF ForestsInv, SameIds

\* The forest whose place an answer or the user names, as it becomes.
LEMMA ForestInPlace ==
    ASSUME ForestsInv,
           \/ \E i \in DOMAIN forests : EditForest(i) \/ ValidateForest(i)
           \/ \E a \in asked, ok \in BOOLEAN : AnswerForest(a, ok)
           \/ \E n \in DOMAIN forests, s \in Sources("microsoft") : ToggleForest(n, s)
    PROVE  /\ ForestsInv' /\ DOMAIN forests' = DOMAIN forests
           /\ \A j \in DOMAIN forests : forests'[j].id = forests[j].id
<1>0. ASSUME NEW i \in DOMAIN forests
      PROVE  forests[i] \in Forest
  BY <1>0 DEF ForestsInv
<1> DEFINE Kept == /\ ForestsInv' /\ DOMAIN forests' = DOMAIN forests
                   /\ \A j \in DOMAIN forests : forests'[j].id = forests[j].id
<1>1. ASSUME NEW i \in DOMAIN forests, NEW h \in Forest, h.id = forests[i].id,
             forests' = [forests EXCEPT ![i] = h], SameIds
      PROVE  Kept
  BY <1>1, OneForest
<1> HIDE DEF Kept
<1>2. ASSUME NEW i \in DOMAIN forests, EditForest(i)
      PROVE  Kept
  <2>1. SameIds
    BY <1>2, SpentElse DEF EditForest
  <2>2. \/ forests' = [forests EXCEPT ![i] = EditedForest(forests[i])]
        \/ forests' = [forests EXCEPT ![i] = SwitchedForest(forests[i])]
    BY <1>2 DEF EditForest
  <2> QED
    BY <1>0, <1>1, <2>1, <2>2, ChangedForest
<1>3. ASSUME NEW i \in DOMAIN forests, ValidateForest(i)
      PROVE  Kept
  <2>1. SameIds
    BY <1>3, SpentElse DEF ValidateForest
  <2> DEFINE h == [forests[i] EXCEPT !.status = "validating"]
  <2>2. forests' = [forests EXCEPT ![i] = h]
    BY <1>3 DEF ValidateForest
  <2>3. h \in Forest /\ h.id = forests[i].id
    BY <1>0, ChangedForest DEF Statuses
  <2> HIDE DEF h
  <2> QED
    BY <1>1, <2>1, <2>2, <2>3
<1>4. ASSUME NEW a \in asked, NEW ok \in BOOLEAN, AnswerForest(a, ok)
      PROVE  Kept
  <2>1. SameIds
    BY <1>4 DEF AnswerForest, SameIds, ForestsInv
  <2>2. forests' = AnsweredForest(forests, a.index, ok)
    BY <1>4 DEF AnswerForest
  <2> DEFINE i == a.index
             v == [forests[i] EXCEPT !.status = "valid", !.listed = Sources("microsoft"),
                                     !.checked = Sources("microsoft")]
             e == [forests[i] EXCEPT !.status = "error"]
  <2>3. CASE i \notin DOMAIN forests
    <3>1. forests' = forests
      BY <2>2, <2>3 DEF AnsweredForest
    <3> QED
      BY <2>1, <3>1 DEF Kept, ForestsInv, SameIds
  <2>4. CASE i \in DOMAIN forests
    <3>1. v \in Forest /\ v.id = forests[i].id /\ e \in Forest /\ e.id = forests[i].id
      BY <1>0, <2>4, ChangedForest DEF Statuses
    <3>2. forests' = [forests EXCEPT ![i] = v] \/ forests' = [forests EXCEPT ![i] = e]
      BY <2>2, <2>4 DEF AnsweredForest
    <3> HIDE DEF i, v, e
    <3> QED
      BY <1>1, <2>1, <2>4, <3>1, <3>2
  <2> QED
    BY <2>3, <2>4
<1>5. ASSUME NEW n \in DOMAIN forests, NEW s \in Sources("microsoft"), ToggleForest(n, s)
      PROVE  Kept
  <2>1. SameIds
    BY <1>5, SpentElse DEF ToggleForest
  <2> DEFINE h == [forests[n] EXCEPT !.checked = Toggled(forests[n].checked, s)]
  <2>2. forests' = [forests EXCEPT ![n] = h]
    <3>1. forests' = ToggledForestSource(forests, n, s)
      BY <1>5 DEF ToggleForest
    <3> QED
      BY <3>1 DEF ToggledForestSource
  <2>3. h \in Forest /\ h.id = forests[n].id
    BY <1>0, ChangedForest
  <2> HIDE DEF h
  <2> QED
    BY <1>1, <2>1, <2>2, <2>3
<1> QED
  BY <1>2, <1>3, <1>4, <1>5 DEF Kept

LEMMA ForestsStep ==
    ASSUME ForestsInv, [Next]_vars
    PROVE  ForestsInv'
<1>1. CASE ForestsKept
  BY <1>1 DEF ForestsInv, ForestsKept, SameIds
<1>2. CASE ForestsGone
  <2>1. forests' \in Seq(Forest) /\ DOMAIN forests' = {}
    BY <1>2 DEF ForestsGone
  <2> QED
    BY <1>2, <2>1 DEF ForestsInv, ForestsGone, SameIds
<1> QED
  BY <1>1, <1>2, ForestCases, AddedForest, RemovedForest, ForestInPlace DEF ForestsInv

\* What is said of the places holds on when the forests keep theirs.
LEMMA SamePlaces ==
    ASSUME SeenPlaces, AskedPlaces, seen'.forests = seen.forests, asked' \subseteq asked,
           \A j \in DOMAIN forests : j \in DOMAIN forests' /\ forests'[j].id = forests[j].id
    PROVE  SeenPlaces' /\ AskedPlaces'
BY DEF SeenPlaces, AskedPlaces

LEMMA FormStepKeeps ==
    ASSUME FormStep({})
    PROVE  step' = step /\ seen'.forests = seen.forests
BY DEF FormStep, Remade

LEMMA VaultStep ==
    ASSUME ForestsInv, VaultInv, [Next]_vars
    PROVE  VaultInv'
<1> SUFFICES ASSUME ~shifted'
             PROVE  SeenPlaces' /\ AskedPlaces' /\ VaultPlaces'
  BY DEF VaultInv
<1>0. \A i \in DOMAIN forests : forests[i] \in Forest
  BY DEF ForestsInv
<1>a. "forests" \in DOMAIN budget
  BY DEF ForestsInv
<1>1. CASE ForestsKept
  <2>1. SeenPlaces /\ AskedPlaces /\ VaultPlaces /\ UNCHANGED <<forests, asked, vault>>
    BY <1>1 DEF ForestsKept, VaultInv
  <2>2. SeenPlaces'
    BY <1>1, <2>1 DEF ForestsKept, SeenStep, SeenPlaces
  <2>3. VaultPlaces'
    BY <1>1, <2>1 DEF ForestsKept, WayStep, VaultPlaces
  <2> QED
    BY <2>1, <2>2, <2>3 DEF AskedPlaces
<1>2. CASE ForestsGone
  <2>1. DOMAIN forests' = {} /\ seen'.forests = forests'
    BY <1>2 DEF ForestsGone
  <2>2. asked' = {}
    <3>1. asked' = asked /\ shifted' = (asked # {})
      BY <1>2 DEF ForestsGone
    <3> QED
      BY <3>1, Zenon
  <2> QED
    BY <2>1, <2>2 DEF SeenPlaces, AskedPlaces, VaultPlaces
<1>3. CASE \E k \in DOMAIN forests : RemoveForest(k)
  BY <1>3 DEF RemoveForest
<1>4. CASE AddForest
  <2>1. ~shifted /\ asked' = asked /\ vault' = vault /\ FormStep({}) /\ step = "credentials"
    BY <1>4 DEF AddForest, ForestsShown, OnCredentials
  <2>2. SeenPlaces /\ AskedPlaces /\ VaultPlaces
    BY <2>1 DEF VaultInv
  <2>3. SeenPlaces' /\ AskedPlaces'
    BY <1>4, <2>1, <2>2, AddedForest, FormStepKeeps, SamePlaces
  <2>4. step' = "credentials"
    BY <2>1, FormStepKeeps
  <2>5. VaultPlaces'
    BY <1>4, <2>1, <2>2, <2>4, AddedForest DEF VaultPlaces
  <2> QED
    BY <2>3, <2>5
<1>5. ASSUME NEW i \in DOMAIN forests, EditForest(i) \/ ValidateForest(i)
      PROVE  SeenPlaces' /\ AskedPlaces' /\ VaultPlaces'
  <2>1. ~shifted /\ vault' = vault /\ FormStep({}) /\ step = "credentials"
    BY <1>5 DEF EditForest, ValidateForest, ForestsShown, OnCredentials
  <2>2. SeenPlaces /\ AskedPlaces /\ VaultPlaces
    BY <2>1 DEF VaultInv
  <2>3. DOMAIN forests' = DOMAIN forests /\ \A j \in DOMAIN forests : forests'[j].id = forests[j].id
    BY <1>5, ForestInPlace
  <2>4. step' = "credentials" /\ seen'.forests = seen.forests
    BY <2>1, FormStepKeeps
  <2>5. \A a \in asked' : a \in asked \/ a = [index |-> i, of |-> forests[i].id]
    BY <1>5 DEF EditForest, ValidateForest
  <2>6. SeenPlaces'
    BY <2>2, <2>3, <2>4 DEF SeenPlaces
  <2>7. AskedPlaces'
    BY <2>2, <2>3, <2>5 DEF AskedPlaces
  <2>8. forests'[i].status # "valid" /\ \A j \in DOMAIN forests : j # i => forests'[j] = forests[j]
    <3>1. EditedForest(forests[i]).status = "idle" /\ SwitchedForest(forests[i]).status = "idle"
      BY <1>0, ChangedForest
    <3>2. \/ forests' = [forests EXCEPT ![i] = EditedForest(forests[i])]
          \/ forests' = [forests EXCEPT ![i] = SwitchedForest(forests[i])]
          \/ forests' = [forests EXCEPT ![i] = [forests[i] EXCEPT !.status = "validating"]]
      BY <1>5 DEF EditForest, ValidateForest
    <3>3. [forests[i] EXCEPT !.status = "validating"].status = "validating"
      BY <1>0 DEF Forest
    <3> QED
      BY <3>1, <3>2, <3>3
  <2>9. VaultPlaces'
    BY <2>1, <2>2, <2>3, <2>4, <2>8 DEF VaultPlaces
  <2> QED
    BY <2>6, <2>7, <2>9
<1>6. ASSUME NEW a \in asked, NEW ok \in BOOLEAN, AnswerForest(a, ok)
      PROVE  SeenPlaces' /\ AskedPlaces' /\ VaultPlaces'
  <2>1. ~shifted /\ asked' \subseteq asked /\ FormStep({})
    BY <1>6 DEF AnswerForest
  <2>2. SeenPlaces /\ AskedPlaces /\ VaultPlaces
    BY <2>1 DEF VaultInv
  <2>3. DOMAIN forests' = DOMAIN forests /\ \A j \in DOMAIN forests : forests'[j].id = forests[j].id
    BY <1>6, ForestInPlace
  <2>4. SeenPlaces' /\ AskedPlaces' /\ step' = step
    BY <2>1, <2>2, <2>3, FormStepKeeps, SamePlaces
  <2>5. a.index \in DOMAIN forests /\ forests[a.index].id = a.of
    BY <2>2 DEF AskedPlaces
  <2>6. \A j \in DOMAIN forests : j # a.index => forests'[j] = forests[j]
    BY <1>6, <2>5 DEF AnswerForest, AnsweredForest
  <2>7. CASE ok
    <3>1. vault' = [j \in DOMAIN vault \cup {a.index} |-> IF j = a.index THEN a.of ELSE vault[j]]
      BY <1>6, <2>7 DEF AnswerForest
    <3>2. \A j \in DOMAIN vault : j # a.index => j \in DOMAIN vault' /\ vault'[j] = vault[j]
      BY <3>1
    <3>3. a.index \in DOMAIN vault' /\ vault'[a.index] = a.of
      BY <3>1
    <3>4. VaultPlaces'
      BY <2>2, <2>3, <2>4, <2>5, <2>6, <3>2, <3>3 DEF VaultPlaces
    <3> QED
      BY <2>4, <3>4
  <2>8. CASE ~ok
    <3>1. vault' = vault /\ forests' = [forests EXCEPT ![a.index] = [@ EXCEPT !.status = "error"]]
      BY <1>6, <2>5, <2>8 DEF AnswerForest, AnsweredForest
    <3>2. forests'[a.index].status = "error"
      BY <1>0, <2>5, <3>1 DEF Forest
    <3>3. VaultPlaces'
      BY <2>2, <2>3, <2>4, <2>6, <3>1, <3>2 DEF VaultPlaces
    <3> QED
      BY <2>4, <3>3
  <2> QED
    BY <2>7, <2>8
<1>7. ASSUME NEW n \in DOMAIN forests, NEW s \in Sources("microsoft"), ToggleForest(n, s)
      PROVE  SeenPlaces' /\ AskedPlaces' /\ VaultPlaces'
  <2>1. ~shifted /\ asked' = asked /\ vault' = vault /\ FormStep({})
    BY <1>7 DEF ToggleForest
  <2>2. SeenPlaces /\ AskedPlaces /\ VaultPlaces
    BY <2>1 DEF VaultInv
  <2>3. DOMAIN forests' = DOMAIN forests /\ \A j \in DOMAIN forests : forests'[j].id = forests[j].id
    BY <1>7, ForestInPlace
  <2>4. SeenPlaces' /\ AskedPlaces' /\ step' = step
    BY <2>1, <2>2, <2>3, FormStepKeeps, SamePlaces
  <2>5. \A j \in DOMAIN forests : forests'[j].status = forests[j].status
    <3>1. forests' = [forests EXCEPT ![n].checked = Toggled(@, s)]
      BY <1>7 DEF ToggleForest, ToggledForestSource
    <3> QED
      BY <1>0, <3>1 DEF Forest
  <2>6. VaultPlaces'
    BY <2>1, <2>2, <2>3, <2>4, <2>5 DEF VaultPlaces
  <2> QED
    BY <2>4, <2>6
<1> QED
  BY <1>a, <1>1, <1>2, <1>3, <1>4, <1>5, <1>6, <1>7, ForestCases
-----------------------------------------------------------------------------
(* The demo of a scan ends the providers the scan has                      *)

DoneInv == \A k \in Scans : jobs[k].done \subseteq jobs[k].providers

LEMMA DoneInit == Init => DoneInv
<1>1. NoJob.done = {}
  BY DEF NoJob
<1> QED
  BY <1>1 DEF Init, DoneInv

LEMMA SameDone ==
    ASSUME JobsShape, DoneInv, NEW k \in Scans,
           StartAnswered(k) \/ StartFailed(k) \/ ServerStep(k) \/ Tick(k) \/ \E a \in jobs[k].answers : Deliver(k, a)
    PROVE  DoneInv'
<1> USE DEF JobsShape, JobShape, JobFields
<1> SUFFICES \A i \in Scans : jobs'[i].done = jobs[i].done /\ jobs'[i].providers = jobs[i].providers
  BY DEF DoneInv
<1>1. CASE StartAnswered(k)
  <2>1. jobs' = [jobs EXCEPT ![k].stage = "polling", ![k].ticking = TRUE,
                             ![k].early = jobs[k].stale \/ step # "scanning"]
    BY <1>1 DEF StartAnswered
  <2> QED
    BY <2>1
<1>2. CASE StartFailed(k)
  <2>1. jobs' = [jobs EXCEPT ![k].stage = "polling"]
    BY <1>2 DEF StartFailed
  <2> QED
    BY <2>1
<1>3. CASE ServerStep(k)
  BY <1>3 DEF ServerStep
<1>4. CASE Tick(k)
  <2>1. CASE jobs' = [jobs EXCEPT ![k].answers = @ \cup {StatusOf(k)}]
    BY <2>1
  <2>2. CASE jobs' = [jobs EXCEPT ![k].answers = @ \cup {"lost"}]
    BY <2>2
  <2> QED
    BY <1>4, <2>1, <2>2 DEF Tick
<1>5. ASSUME NEW a \in jobs[k].answers, Deliver(k, a)
      PROVE  \A i \in Scans : jobs'[i].done = jobs[i].done /\ jobs'[i].providers = jobs[i].providers
  <2>1. CASE ApplyStatus(k, a)
    <3> DEFINE A == (jobs[k].answers \ {a}) \cup (IF a = "complete" THEN {"results"} ELSE {})
               t == jobs[k].ticking /\ a # "complete"
    <3>1. jobs' = [jobs EXCEPT ![k].answers = A, ![k].ticking = t]
      BY <2>1 DEF ApplyStatus
    <3> HIDE DEF A, t
    <3> QED
      BY <3>1
  <2>2. CASE ApplyResults(k)
    <3>1. jobs' = [jobs EXCEPT ![k].answers = @ \ {"results"}]
      BY <2>2 DEF ApplyResults
    <3> QED
      BY <3>1
  <2>3. CASE ApplyLoss(k, a)
    <3>1. jobs' = [jobs EXCEPT ![k].answers = @ \ {a}, ![k].ticking = FALSE]
      BY <2>3 DEF ApplyLoss
    <3> QED
      BY <3>1
  <2> QED
    BY <1>5, <2>1, <2>2, <2>3 DEF Deliver
<1> QED
  BY <1>1, <1>2, <1>3, <1>4, <1>5

LEMMA DoneStep ==
    ASSUME ScanShape, DoneInv, [Next]_vars
    PROVE  DoneInv'
<1>0. JobsShape /\ job \in {0, 1, 2}
  BY DEF ScanShape
<1>1. \A k \in Scans : /\ Cleared(jobs)[k].done = jobs[k].done
                       /\ Cleared(jobs)[k].providers = jobs[k].providers
  BY <1>0 DEF Cleared, JobsShape, JobShape, JobFields
<1>2. \A k \in Scans : /\ Retired(jobs)[k].done = jobs[k].done
                       /\ Retired(jobs)[k].providers = jobs[k].providers
  <2>1. \A k \in Scans : Retired(jobs)[k] = [Cleared(jobs)[k] EXCEPT !.stale = TRUE]
    BY DEF Retired
  <2> QED
    BY <1>0, <1>1, <2>1, ClearedJobs DEF JobShape, JobFields
<1>3. CASE jobs' = jobs \/ jobs' = Cleared(jobs) \/ jobs' = Retired(jobs)
  BY <1>1, <1>2, <1>3 DEF DoneInv
<1>4. CASE Started
  <2>1. StartedJob(selected).done = {}
    BY DEF StartedJob
  <2>2. ASSUME NEW k \in Scans
        PROVE  jobs'[k].done \subseteq jobs'[k].providers
    <3>1. CASE k = job'
      BY <1>0, <1>4, <2>1, <3>1, StartedJobs
    <3>2. CASE k # job'
      BY <1>0, <1>2, <1>4, <3>2, StartedJobs DEF DoneInv
    <3> QED
      BY <3>1, <3>2
  <2> QED
    BY <2>2 DEF DoneInv
<1>5. ASSUME NEW k \in Scans, NEW p \in jobs[k].providers, DemoTick(k, p)
      PROVE  DoneInv'
  <2> DEFINE S == jobs[k].done \cup {p}
             t == S # jobs[k].providers
  <2>1. jobs' = [jobs EXCEPT ![k].done = S, ![k].ticking = t]
    BY <1>5 DEF DemoTick
  <2>2. S \subseteq jobs[k].providers
    BY DEF DoneInv
  <2> HIDE DEF S, t
  <2> QED
    BY <1>0, <2>1, <2>2 DEF DoneInv, JobsShape, JobShape, JobFields
<1>6. Aside \/ Turned \/ ToSizer \/ Back \/ Reset \/ (\E p \in Providers : ToggleProvider(p)) =>
        jobs' = jobs \/ jobs' = Cleared(jobs) \/ jobs' = Retired(jobs)
  BY DEF Aside, Turned, ToSizer, Back, Reset, ToggleProvider, scan
<1> QED
  BY <1>0, <1>3, <1>4, <1>5, <1>6, SameDone, StepCases
-----------------------------------------------------------------------------
(* The request                                                             *)

\* Only the start of a scan makes a request.
LEMMA RequestStep ==
    ASSUME [Next]_vars
    PROVE  request' = request \/ (Started /\ UNCHANGED <<form, vault, shifted>>)
<1>1. CASE GoNext \/ GoBack \/ Restart \/ HandleSizerImportConfirm \/ \E p \in Providers : ToggleProvider(p)
  BY <1>1 DEF GoNext, GoBack, GoTo, Restart, Restarted, HandleSizerImportConfirm, ToggleProvider, scan
<1>2. CASE GoScan \/ Retry
  BY <1>2 DEF GoScan, Retry, Started, forms
<1>3. CASE FormsOnly
  BY <1>3, FormsOnlyStep DEF scan
<1>4. CASE RunScan
  <2>1. request' = request \/ Ping
    BY <1>4 DEF RunScan, StartAnswered, StartFailed, ServerStep, Tick, Deliver, DemoTick, ScanStep
  <2> QED
    BY <1>3, <2>1 DEF FormsOnly
<1>5. CASE LoadFiles
  <2>1. ASSUME NEW names, AddFiles(names)
        PROVE  request' = request
    BY <2>1 DEF AddFiles, scan
  <2>2. ASSUME NEW b \in batches, ReadFile(b)
        PROVE  request' = request
    BY <2>2 DEF ReadFile, ApplySnapshot, Restarted, scan
  <2>3. ASSUME NEW i \in DOMAIN loaded, RemoveLoaded(i)
        PROVE  request' = request
    BY <2>3 DEF RemoveLoaded, ApplyList, ApplySnapshot, Restarted
  <2> QED
    BY <1>5, <2>1, <2>2, <2>3 DEF LoadFiles
<1>6. CASE UNCHANGED vars
  BY <1>6 DEF vars, scan
<1> QED
  BY <1>1, <1>2, <1>3, <1>4, <1>5, <1>6 DEF Next, Navigate, FormsOnly

\* What the sources page shows of a form is what is asked.
LEMMA ShownIsAsked ==
    ASSUME NEW p, NEW f, FormShape(p, f)
    PROVE  EffectiveSelected(f) = {s \in f.listed : (f.mode = "include") = (s \in f.checked)}
<1>1. f.checked \subseteq f.listed
  BY DEF FormShape
<1>2. CASE f.mode = "include"
  <2>1. EffectiveSelected(f) = f.checked
    BY <1>2 DEF EffectiveSelected
  <2>2. \A s : s \in f.checked <=> ((f.mode = "include") = (s \in f.checked))
    BY <1>2, Zenon
  <2> QED
    BY <1>1, <2>1, <2>2
<1>3. CASE f.mode # "include"
  <2>1. EffectiveSelected(f) = f.listed \ f.checked
    BY <1>3 DEF EffectiveSelected
  <2>2. \A s : s \notin f.checked <=> ((f.mode = "include") = (s \in f.checked))
    <3>1. (f.mode = "include") = FALSE
      BY <1>3
    <3>2. \A s : s \notin f.checked <=> (FALSE = (s \in f.checked))
      OBVIOUS
    <3> QED
      BY <3>1, <3>2
  <2> QED
    BY <2>1, <2>2
<1> QED
  BY <1>2, <1>3

AllInv == PagesInv /\ FormsInv /\ ForestsInv /\ VaultInv /\ DoneInv

LEMMA AllInvariant == Spec => []AllInv
<1>1. Init => AllInv
  BY PagesInvInit, FormsInit, ForestsInit, DoneInit DEF AllInv
<1>2. AllInv /\ [Next]_vars => AllInv'
  BY PagesInvStep, FormsStep, ForestsStep, VaultStep, DoneStep DEF AllInv, PagesInv
<1> QED
  BY <1>1, <1>2, PTL DEF Spec

(* The state of the wizard keeps its shape: a file is shown only where     *)
(* backups are read, ticked sources are listed, no forest is listed twice, *)
(* and only a scan that was started has answers under way (the restart(),  *)
(* the handlers and startScan in wizard.tsx).                              *)
THEOREM WizardTypes == Spec => []TypeOK
<1>1. AllInv => TypeOK
  <2> SUFFICES ASSUME AllInv
               PROVE  TypeOK
    OBVIOUS
  <2>0. ScanShape /\ JobInv /\ FormsShape /\ ForestsInv /\ DoneInv
    BY DEF AllInv, PagesInv, FormsInv
  <2>1. /\ step \in Range(Pages) /\ progress \in {0, 50, 100} /\ job \in 0..Len(ScanName)
        /\ error \in {"", "start", "connection"}
    <3>1. step \in Range(Pages)
      BY <2>0, PageFacts DEF ScanShape
    <3>2. job \in 0..Len(ScanName)
      <4>1. job \in {0, 1, 2}
        BY <2>0 DEF ScanShape
      <4>2. {0, 1, 2} \subseteq 0..2
        OBVIOUS
      <4> QED
        BY <4>1, <4>2, ScanNameFacts
    <3> QED
      BY <2>0, <3>1, <3>2 DEF ScanShape
  <2>2. ASSUME NEW p \in Providers
        PROVE  /\ form[p].status \in Statuses /\ form[p].method \in Methods(p)
               /\ form[p].checked \subseteq form[p].listed
               /\ form[p].file # None => form[p].how = "backup"
    BY <2>0 DEF FormsShape, FormShape
  <2>3. \A i, j \in DOMAIN forests : forests[i].id = forests[j].id => i = j
    BY <2>0 DEF ForestsInv
  <2>4. ASSUME NEW k \in Scans
        PROVE  /\ jobs[k].done \subseteq jobs[k].providers
               /\ k > job => jobs[k].answers = {} /\ server[k] = "none"
    BY <2>0 DEF JobInv, JobOk, DoneInv
  <2> QED
    BY <2>1, <2>2, <2>3, <2>4 DEF TypeOK
<1> QED
  BY <1>1, AllInvariant, PTL

(* The request of startScan asks of each provider what the sources page    *)
(* shows, and names each additional forest by the place under which the    *)
(* server keeps that forest's own credentials, unless a forest was removed *)
(* or the page was reset during a validation (startScan in wizard.tsx).    *)
THEOREM RequestsAreSelections == Spec => RequestIsSelection
<1> DEFINE Asked == request' # request => \A p \in DOMAIN request' :
       /\ request'[p].subscriptions =
            {s \in form[p].listed : (form[p].mode = "include") = (s \in form[p].checked)}
       /\ (p = "nios" /\ form[p].mode = "include") => request'[p].members = form[p].checked
       /\ shifted \/ \A x \in Range(request'[p].forests) :
            x.index \in DOMAIN vault /\ vault[x.index] = x.of
<1>1. AllInv /\ [Next]_vars => Asked
  <2> SUFFICES ASSUME AllInv, [Next]_vars, request' # request, NEW p \in DOMAIN request'
               PROVE  /\ request'[p].subscriptions =
                           {s \in form[p].listed : (form[p].mode = "include") = (s \in form[p].checked)}
                      /\ (p = "nios" /\ form[p].mode = "include") => request'[p].members = form[p].checked
                      /\ shifted \/ \A x \in Range(request'[p].forests) :
                           x.index \in DOMAIN vault /\ vault[x.index] = x.of
    OBVIOUS
  <2>1. Started
    BY RequestStep
  <2>2. online
    <3>1. ~online => request' = <<>>
      BY <2>1 DEF Started, StartScan
    <3>2. request' = <<>> => DOMAIN request' = {}
      OBVIOUS
    <3> QED
      BY <3>1, <3>2
  <2>3. request' = Request(selected, form, seen.forests, seen.qps)
    BY <2>1, <2>2 DEF Started, StartScan
  <2>4. p \in selected /\ request'[p] = RequestEntry(p, form[p], seen.forests, seen.qps)
    BY <2>3 DEF Request
  <2>5. FormShape(p, form[p])
    BY <2>4 DEF AllInv, FormsInv, FormsShape
  <2>6. request'[p].subscriptions = EffectiveSelected(form[p])
    BY <2>4 DEF RequestEntry
  <2>7. (p = "nios" /\ form[p].mode = "include") => request'[p].members = form[p].checked
    BY <2>4 DEF RequestEntry
  <2>8. ASSUME ~shifted, NEW x \in Range(request'[p].forests)
        PROVE  x.index \in DOMAIN vault /\ vault[x.index] = x.of
    <3>1. SeenPlaces /\ VaultPlaces /\ step \in {"sources", "scanning"}
      BY <2>1, <2>8 DEF AllInv, VaultInv, Started
    <3> DEFINE S == seen.forests
    <3>2. request'[p].forests = <<>> \/
          request'[p].forests = [i \in DOMAIN S |-> [index |-> ForestIndices(S)[i], of |-> S[i].id,
                                                     subscriptions |-> S[i].checked]]
      BY <2>4 DEF RequestEntry
    <3>3. PICK i \in DOMAIN request'[p].forests : x = request'[p].forests[i]
      BY <2>8 DEF Range
    <3>4. i \in DOMAIN S /\ x = [index |-> ForestIndices(S)[i], of |-> S[i].id, subscriptions |-> S[i].checked]
      BY <3>2, <3>3
    <3>5. x.index = i /\ x.of = S[i].id
      BY <3>4 DEF ForestIndices
    <3> QED
      BY <3>1, <3>4, <3>5 DEF SeenPlaces, VaultPlaces
  <2> QED
    BY <2>5, <2>6, <2>7, <2>8, ShownIsAsked
<1>2. AllInv /\ [Next]_vars => [Asked]_vars
  BY <1>1
<1> HIDE DEF Asked
<1> QED
  BY <1>2, AllInvariant, PTL DEF Spec, RequestIsSelection, Asked
=============================================================================
