# Verification of Universal Token Assessment

TLA+ models, TLC runs and TLAPS proofs about Universal Token Assessment, its Go server
and its browser application: a local web tool that scans cloud accounts, Active
Directory, NIOS, Bluecat and EfficientIP, and turns what it finds into a token
estimate. Source lines below are those of this repository (`src/` is its root; the
browser application is under `frontend/src/app/components`).

## 1. Inventory

| Part | State it keeps | Operations | Talks to |
|---|---|---|---|
| Session store and session (`internal/session`) | `sync.Map` of sessions; per session: State, credentials, ADForests, Broker, ProviderProgress, TokenResult, Errors, CompletedAt | New, Get, CloneSession, UpdateProviderProgress, result setters | every handler, the orchestrator |
| Validation (`server/validate.go`) | the `ddi_session` cookie | validate → establishSession → storeCredentials | session store, cloud SDKs |
| Device authorization (`server/device_auth.go`) | `deviceAuths` map, one background login each | start, poll | validation |
| Scan handlers (`server/scan.go`) | NIOS, QPS and EfficientIP token maps, temp files | start, status, events, results, upload, clone; sweeper goroutine | session store, orchestrator |
| Orchestrator (`internal/orchestrator`) | accumulators of one `Run` | Run, runProvider, publish callback | scanners, session, broker, calculator |
| Broker (`internal/broker`) | subscribers, closed flag | Subscribe, Unsubscribe, Publish, Close | orchestrator, SSE handler |
| Cloud scanners (`internal/scanner/{aws,azure,gcp}`) | per scan: findings, skip-set, semaphore, checkpoint | fan-out over accounts, subscriptions, projects | checkpoint, cloudutil |
| Checkpoint, semaphore, retry (`internal/checkpoint`, `internal/cloudutil`) | file and `.tmp`; slots; attempt counter | AddUnit, Load, Delete; Acquire, Release; CallWithBackoff | file system |
| NIOS, AD, Bluecat, EfficientIP scanners | result fields of a scanner object shared by all sessions | Scan, Get...JSON | temp files, remote servers |
| Calculator, exporter | none | Calculate, tier lookup, spreadsheet | |
| Self-update (`server/update.go`) | release cache, the binary on disk | check, update, restart | file system |
| Scan wizard (`wizard.tsx`) | step, tiles, one form per provider, additional forests, results, interval handles, memoised callbacks | navigate, validate, upload, pick sources, start, poll, retry, Start Over, demo | HTTP API, session files, Sizer |
| Session files (`session-io.ts`, `session-drop-zone.tsx`) | the list of loaded files, batches being read | validate, detect duplicates, merge, save, reopen | wizard, results page |
| Manual Sizer (`sizer/`) | the tree of regions to sites, appliances, settings, interface state; a copy in sessionStorage; debounce and derive timers | reducer actions, forms of four steps, import of a scan, report | wizard, sessionStorage |
| Results page (`wizard.tsx`, `results/`) | typed counts and loads, two migration maps, growth, allocation, variants, filters | edits, filters, exports | calculators, exporter |
| Frontend calculators (`nios-calc.ts`, `scenario-parity.ts`, `resource-savings.ts`, `estimator-calc.ts`, `shared/token-tiers.ts`) | none | ceilings, tiers, consolidation, scenarios, savings | results page, Sizer |

How they interact. The browser validates credentials, which opens a session
(cookie), uploads backups, which yields tokens, and posts a start. The start
handler tests and sets `sess.State`, exchanges tokens for paths and launches a
goroutine that calls `Run`. `Run` launches one goroutine per provider (and per
AD forest), waits for all of them, computes the tokens, publishes
`scan_complete`, closes the broker; the goroutine then stores the outcome in the
session, which the browser polls.

In the browser, one component (`wizard.tsx`) owns the five pages and the results;
calls and timers it starts outlive the page that started them and write into its
state when they end. A session file dropped on the first page replaces that state;
several are merged first. The results can be imported into the Sizer, which keeps
its own state in a provider around the application and in sessionStorage. The
results page prices what it shows in about ten places, each with code of its own,
over a handful of maps the user edits.

What is hard.

- *Concurrency*: handlers run concurrently and share sessions; `sess.State` and
  the outcome fields are read and written without a lock; provider goroutines
  share accumulators, one progress map and one broker; unit goroutines share a
  semaphore, a findings slice and a checkpoint file; the sweeper shares the
  token map and the files with starts and scans.
- *Failure*: any provider and any unit may fail; a file operation may fail; the
  process may die at any point of a long scan and is then started again.
- *Ordering*: events after `Close` are dropped; forests overwrite each other's
  progress; rows are appended before the unit is saved.
- *Time*: tokens expire, device logins time out, retries wait; in the browser a
  poll answers after the next one, a debounce or derive timer fires after the page
  or the site it belonged to is gone.
- *Stale state*: memoised callbacks read values of an earlier rendering; maps keyed
  by host name survive the scan that named the hosts; Start Over and reopening a
  session reset most of the state, not all of it.
- *Duplicated logic*: the same figure is computed in several places and must agree.

What makes the parts correct.

- Lifecycle: a run accounts for every goroutine exactly once (RES-01), and no start
  is accepted after the answer of another; of starts that do not overlap, the outcome
  served is that of the run and never changes; the event stream is whole; every
  accepted start ends. That overlapping starts scan a session once is what a comment
  says and the code does not do.
- Checkpoint: rows are counted once; the file can always be loaded and is
  truthful; an acknowledged save lasts; slots are accounted for; an attempt ends.
- Backup tokens: a scan in time has its file; one scan per backup; the file of a
  grid backup always has an owner that removes it, and does not stay on disk. The
  file of an EfficientIP backup loses its owner when its scan starts.
- Device authorization: a login establishes one session, of the right provider.
- Broker: every subscriber learns of the end; nobody blocks a publisher.
- Self-update: some binary is always at the path, and it is old or new.
- Shared scanner fields: a session is given its own scan's results.
- Calculator: the ceiling is that of the exact sum, for every row order.
- Scan wizard: rows and totals shown belong together; a user who waits waits for
  something; no poller runs on unseen; the request asks for what the pages show.
- Session files: a merged assessment takes each provider from one file; a saved
  session shows the same figures when it is opened again, if it holds nothing of a
  provider that is not in it.
- Sizer: what was typed stays and is stored; derived values are fresh; an import
  adds, exactly once, to the stored copy and the live state alike; the report's
  parts cover its total.
- Results page: all figures for one thing agree; Hybrid lies between today and Full.

`PROJECT.json` lists every part with its status, and under "hazards" each place
in the code where one of these could go wrong.

## 2. Modules

| Module | What it is |
|---|---|
| `ScanLifecycle` | sessions, start handler, orchestrator, broker, publication of the outcome |
| `ScanService` | what the API promises of a session, abstractly |
| `ScanRefinement` | the refinement mapping from the first to the second |
| `CheckpointedScan` | the unit fan-out of the cloud scanners with checkpoint file and crashes |
| `BackupTokens` | uploads, tokens, temp files, two-pass scans, sweeper |
| `SizerTypes`, `SizerCalc`, `SizerDerive`, `SizerImport`, `SizerReducer`, `SizerValidate`, `SizerForms` | the Sizer's data and pure functions: tree walks, formulas, derive engine, import and merge, one operator per reducer action, validation, what the forms compute |
| `SizerTree` | the Sizer as a state machine: hierarchy, appliance rows, banner, pages, import, sessionStorage |
| `SizerSites` | on top of it, the forms of steps 2 to 4, the derive timer, the editable cells of the report |
| `WizardForms`, `SessionMerge` | a provider's form and the list of forests; acceptance and merge of session files |
| `ScanWizard` | the wizard as a state machine: pages, calls under way, pollers, batches of files, demo |
| `Helpers` | what the Sizer and the calculators share: missing values, `map`, `filter`, `find`, `reduce`, rounding |
| `TokenTiers`, `ReportCalc`, `ServerCalc`, `EstimatorCalc`, `ResourceSavings`, `ReportFigures` | tiers; management and server tokens; the old questionnaire; appliance savings; every figure of the results page |
| `ScanReport` | the results page as a state machine: scans, edits, planners, saved sessions, exports |
| `MC*` | instances for TLC |
| `ScanLifecycleProofs`, `CheckpointProofs`, `BackupTokensProofs`, `ScanWizardProofs`, `SizerProofs`, `SizerFormsProofs`, `ScanReportProofs` | theorems |
| `Induction` | induction and recursion over the naturals as facts about sets, for the proofs |

### ScanLifecycle

Per session: `state`, `forests` (length of ADForests), `completedAt`, `result`,
`errors`, `progress`, `closed`, `events`. Per start: `pc`, `sess`, `request` and
the locals of its `Run`: `dispatched`, `task`, `reports`, `findings`, `errs`.

| Action | Code |
|---|---|
| Validate, CloneSession | `establishSession` with `storeCredentials`; `HandleCloneSession` |
| CheckState, Accept | `HandleStartScan` before and after the unlocked State test |
| Dispatch | the loop of `Run`, with `expandADForests` and the skip of unregistered providers |
| BeginProvider, ReportProgress, ProviderFails, ProviderSucceeds | `runProvider` and its publish callback, its deferred `provider_complete` included |
| Merge, Collect, CloseBroker | the goroutine's append, `wg.Wait` with `scan_complete`, `Broker.Close` |
| Land | one of the four stores of the scan goroutine reaching the other handlers |

Abstractions, and why they are safe for the properties:

- A finding row is the task that gave it: the properties ask whose rows are
  there, not what they count.
- The context of `Run` is `context.Background()`, so nothing cancels a scan.
- The four stores at `scan.go:142-145` have no lock: another goroutine may see
  them in any order. `Land` lets them appear in any order and at any time.
- `Dispatch` is one step: the goroutines it launches begin at any later time.
- `SerialStarts = TRUE` assumes that no two State tests of one session overlap: a
  start tests the State only when no other one of the session stands between its own
  test and its write. Nothing guarantees it. The server has no lock, and the browser
  does not wait: `startScan` is not awaited (`wizard.tsx:1116-1272`), so Back and Next
  post again while the first answer is on its way. What holds without the assumption,
  PartialFailure and LateStartsRefused, is checked (`overlap`) and proved without it;
  what fails without it is run `double_start`; the properties that speak of the one
  run of a session are checked and proved of starts that do not overlap.
- An event is what the broker fanned out; per-subscriber drops are not modelled. Of
  a scanner's own events only `resource_progress` is kept: the others pass through
  the same publish callback and change nothing in the session.

### CheckpointedScan

`scanOrg`, `scanAllSubscriptions` and `scanAllProjects` are the same program over
accounts, subscriptions and projects, and are modelled once. `unit[u]` is where
the goroutine of unit u stands; `slots`, `holder`, `mem` are the semaphore, the
checkpoint's mutex and its in-memory state; `tmp` and `file` are what is on disk.
`OpenTmp`, `WriteTmp`, `RenameTmp` are the three moments of `AddUnit` between
which the process may die; `SaveFails`, `CleanupFails`, `BeginAfterLoadError` are
the branches of a failing file operation. `Crash` leaves only the two files. In
GCP a unit's scan returns no error, so `ScanFails` never happens: its behaviours
are among those checked. `clean` and `saved` are ghosts that only properties read.

Two assumptions about the file system: a rename is atomic, and what was written before it
survives the death of the process (not of the machine: `WriteFile` does not sync).

### BackupTokens

`file`, `token`, `expired` per upload; `stage`, `got` per scan; `due`, `visiting`,
`removing` for the sweeper, which takes its `now`, visits each expired entry,
removes the file and then deletes the token, each in a step of its own. Time is
only whether an upload's two hours are over. `late` is a ghost: the token was
expired when the start consumed it. The start handler does not look at the expiry,
so a late start may lose its file to the sweeper; the property is about starts in
time, and the ghost is what tells them apart.

Only a NIOS scan opens the file and removes it, whether it succeeds or fails. A start
with an EfficientIP token consumes the token too (`scan.go:813-820`), but it sets no
mode, so the orchestrator selects the live scanner (`orchestrator.go:163`) and hands it
no path (`orchestrator.go:434`): the scan ends without touching the file.

### Sizer

`s` is the reducer's state (`core`, the tree and settings; `ui`, the slice beside it),
`stored` the blob in sessionStorage, `timer` the debounce timer, `derive` the derive
timer of the form of step 2, `page`, `region`, `tab` the view.

| Action | Code |
|---|---|
| EditSizer, EditForm | every dispatch a control of the four steps, the banner, the stepper or the report offers, as the set of its outcomes |
| Commit (in each of them) | the effects that follow a rendering: ended dismissals, automatic selection, tiers and security counts, both timers |
| Derive | `use-debounced-derive.ts`: the timer writes the fields that are not marked as typed |
| HandleSizerImportConfirm | `wizard.tsx:720-775`: merge into the stored copy, badge, merge into the live state; a refused write abandons the rest |
| PersistTimer, PageHide, Kill, Reopen | `sizer-state.ts:880-955`, a tab that is killed, and the next opening |
| TurnPage, OnReset, ShowBadge | the outer wizard's pages, Reset, the badge of an import |

Identifiers are numbers in the order of creation (`newId()` is a random UUID). A
text is a base name with its spelling (blanks around it, letter case), and the constant
`Folded` gives the lower case of a base name that has another, so that keys compare
what `niosKey` and its siblings compare; fractions are whole percents; the two
large factors of the reporting formula are constants so that TLC's integers hold
them. `typed` is a history variable: the last value the user typed into a field.

The effect that persists depends on the state object, and every dispatch that changes
anything makes a new one: the debounce timer starts again after each of them, also
when the new state equals the old one by value (`renewed` in `Commit`). A choice of
the view that dispatches nothing (`Look`) leaves the timer alone.

### ScanWizard

A form (`form[p]`) has a status, a method, a file, the token the server returned, the
sources listed and ticked and the selection mode; credential texts are left out, and
typing one only makes the memoised callbacks anew. `calls`, `asked`, `batches` and
`jobs` are what is under way. An answer's content is fixed when the call is made; it
arrives at any later time and in any order.

| Action | Code |
|---|---|
| GoNext, GoScan, GoBack, Retry, Restart, ToggleProvider | navigation and `restart()` |
| Validate, AnswerValidation, SwitchMethod, PickFile, RemoveFile, UploadQps, AddForest, RemoveForest, ValidateForest, AnswerForest, AnswerProbe, Add(All)Discovered | the credentials page with the effects that parse a backup at once |
| ToggleSubscription, ToggleAllFiltered, SwitchMode, ToggleForest | the sources page |
| StartScan, StartAnswered, StartFailed, Tick, Deliver, ServerStep | `startScan`: the call, the interval made when it returns, its answers, the failing call for the results included, what the server does meanwhile |
| DemoTick, Ping | the demo's intervals; the health check that switches the demo on and off |
| AddFiles, ReadFile, RemoveLoaded | `session-drop-zone.tsx`, with `applySnapshot` |

`seen` is what the memoised callbacks captured of the state they read without listing
it as a dependency; it is renewed by the actions that change a listed one. `server[k]`
is external: the scan's stages as the status handler reports them. History variables:
`vault` (where the server put the credentials of each forest), `shifted` (a forest
left the list while one was being validated), `stale` in a job, and `overtaken` (an
answer or a file came after the one of a later call, or after what it belonged to was
left). TotalsMatchRows, NeverStranded and PollersStop exempt what follows an overtaken
answer: the code has no guard against a late answer, its effect is what the last
writer says, and the properties claim nothing there (section 6 says what can happen).
What is left to them is what a single scan can do with overlapping answers that arrive
in order, failing calls, files and restarts; a mutant for each shows that this bites.
NeverStranded says that on the scanning page the error is set, or something is under
way that the user waits for, or Next leads to rows for every provider of the scan; the
call for the results is one of the things waited for, and one that can fail.
PollersStop also leaves out the one poller that is known to stay (`early`, section 6).

### ScanReport

`report` is what the last scan or session file said, `edits` what the user changed,
`view` the filters and orders, `saved` the saved session with the figures shown when
it was saved, `reopened` that it was opened and nothing changed since. A scan answers
in one step: the way to it is ScanWizard's subject. `Restart`, `UseAsSizerInput`,
`OpenSession`, `ShowImported` reset exactly what `restart()`, the Sizer import,
`applySnapshot` and the shortcut of Next reset. A file reaches `applySnapshot` only
through `mergeSnapshots`, also when it is the only one (`session-drop-zone.tsx:59`);
`MergedAlone` is that merge, which hands on the fields of NIOS and AD, and errors, only
if the file lists their provider or has rows of it. The edits are the handlers of
`results-surface.tsx`, the planners and the panels, with their guards. `Figures`
gathers every number the page, its panels, its exports and the posted workbook show.

A finding has a provider, source, region, item and category from small sets; names
that can be ordered are given their order by the constant `Collation`.

A growth buffer is a product of doubles, `Math.ceil(x * (1 + g))`, whose ceiling is
one too high when the product falls above a whole number: `Math.ceil(110 * 1.1)` is
122, although 40 and 70 give 44 and 77. `CeilGrown` in `Helpers` computes exactly
that, for percentages up to 100 (and for 150, as 2.5 is exact), from the distance of the double `1 + p/100` from its
decimal value; it is used wherever the page and the Sizer grow an amount. The
properties that compare a grown total with grown parts bound the difference
accordingly, in both directions, and the runs have such amounts (40 and 70, three
times 50, at 10 percent). Two formulas of the Sizer that no property reads, reporting
and threat defense, multiply twice in floating point and are rounded once here.

## 3. Runs

| Run | Shows | Bounds |
|---|---|---|
| `lifecycle` | TypeOK, ReportIsWhole, EventStreamWhole, NoProviderLeftRunning, SettledFrozen, ScanCompletes, of starts that do not overlap | 1 session, 2 starts, AWS, AD with one extra forest, one unregistered provider, 1 progress event per task; 28,571 states |
| `overlap` | PartialFailure, LateStartsRefused, starts overlapping in any way | as `lifecycle`, no progress events; 224,443 states |
| `refinement` | ScanLifecycle implements ScanService, liveness included, of starts that do not overlap | 2 sessions (the second perhaps a clone), 2 starts, AD with one extra forest, no progress events; 164,709 states |
| `double_start` | *violation* of OneScanPerSession by overlapping starts | as `lifecycle` |
| `checkpoint` | TypeOK, CountedOnce, CheckpointTrustworthy, AcknowledgedIsDurable, SlotsAccounted, AttemptEnds | 3 units, 2 workers, selections of 3, 2 and 1 units, 2 crashes, 1 failing file operation; 189,368 states |
| `resume` | *violation* of NoRescan | 3 units, 2 workers, 2 crashes |
| `backups` | TypeOK, InTimeFileKept, OneScanPerBackup, NoOrphanedFile, NiosFileReclaimed | 2 NIOS and 1 EfficientIP upload, 2 starts that may carry any token; 16,928 states |
| `backup_orphan` | *violation* of ScannedFileRemoved | as `backups` |
| `sizer` | TypeOK, SelectionResolves, SettledIsStored, TypedValuesStay, DerivedFresh, SourcesCoverTotal, MembersCoverSites, ReimportAddsNothing, ImportIsAdditive, ImportWritesWhatItShows, EditsAreStored | 9 openings, 2 dispatches beyond them, 1 refused write, 2 openings of the application, up to 2 clones, 3 scans, typed numbers 0 and 6, percents 10 and 50; 74,635 states |
| `wizard` | TypeOK, TotalsMatchRows, AssessmentIsMerge, NeverStranded, PollersStop, RequestIsSelection | 8 budgets of what the user does (below), 2 scans, 2 answers of a poller under way at once; 1,452,462 states |
| `wizard_qps` | *violation* of QueryRatesAreSent | as `wizard` |
| `results` | ReportAddsUp, HybridWithinFull, SavedSessionReopens | 11 budgets, 6 answers of a scan, one old session file, growth of 10 and 150 percent; 79,024 states |

Why the bounds are enough. In `lifecycle`, two starts on one session is the
smallest case of a second start; AWS and two forests give three goroutines of
which two share a progress entry; the unregistered provider exercises the silent
skip; one progress event per task suffices to overwrite a final entry, were that
possible. One session is enough for properties of a session, and `refinement` has
two, so that one scan running never disturbs another. In `checkpoint`, three units
on two workers is the smallest case in which one waits for a slot while two others
save; two crashes let an attempt resume what was itself resumed, and one failing
operation can hit any write, rename, load or delete; the single-unit selection is
the branch without a checkpoint. In `backups`, two uploads let the sweeper be
inside one while a start consumes the other, and two starts race for one token.

In the browser runs the state space is cut along what can interact: an initial state
chooses one budget, and every order of the steps it allows is explored. `sizer` starts
from a blob that some earlier run may have stored (nothing, junk, a tree, an imported
grid with a deleted and a retyped row, sites with members, appliances whose site is
gone, two sites whose tokens grow to less than their sum), imports a grid, a cloud
scan or an empty one, and allows two dispatches, enough for an edit while a timer
started by another runs, and for an import after an edit, or twice. `wizard` has a
budget each for two forests, NIOS backups with query rates, EfficientIP methods, two
scans with a lost connection, two providers at once, the Sizer beside a provider, two
overlapping batches of files, and a batch around a scan; two answers of a poller under
way is the smallest overlap. `results` has a budget each for the planners, growth
alone, counts with the allocation, loads, a second scan on what the first left, a
saved session reopened after another scan, typed values saved and reopened, old
sessions, filters with bulk edits, hosts, and the backend coming and going; its scans
differ in hardware, members, domain controllers and allocation, one has no member
metrics and one is the demo's.

The bounds named in the modules: `MaxForest`, `MaxEvents`, `MaxCrashes`,
`MaxFaults`, `MaxEdits`, `MaxFailures`, `MaxRuns`, `MaxInFlight`, and `Budgets`.
`MaxClones` is the code's own limit (50), 2 in the run.

Deadlock is checked in the checkpoint and backup runs. The lifecycle runs switch
it off: with every start used and every session scanned, the system really stops.
So do the browser runs: a user may stop at any point, and budgets end.

Fairness. Every goroutine that can continue is run by the Go scheduler: weak
fairness per provider task, per scan goroutine, per unit, per upload handler and
per scan. The fairness of a task includes that `Scan` returns: the SDK clients and
HTTP clients carry timeouts and `CallWithBackoff` a bounded number of attempts.
The sweeper is fair because its ticker fires forever, and time passes (`Expire`).
Nothing obliges a user: starts, validations, clones and uploads are never fair.
Weak fairness suffices at the semaphore and the mutex, because each unit passes
once and the number of units is finite. In the Sizer the debounce timer is fair,
because the browser fires the timers of an open page; a user is never obliged to do
anything, so ScanWizard and ScanReport state no fairness.

What the violations show:

1. `double_start`: two concurrent starts of one session are both accepted
   (`scan.go:124` tests, `scan.go:131` writes, no lock), against the comment that
   concurrent callers receive 409. Their runs share broker and session.
2. `resume`: the second resume scans again what the first attempt had saved. The
   resumed attempt's accumulator starts empty, so its first save replaces the file
   (`aws/scanner.go:160`, `checkpoint.go:53-65`), against the package comment.
3. `wizard_qps`: `startScan` does not depend on `qpsToken` (`wizard.tsx:1363`), so a
   scan started right after query rates were uploaded does not send them, although
   the page shows them (`wizard.tsx:2858`). The additional forests are missing from
   the same list; the server scans them from its session all the same
   (`orchestrator.go:131-155`).
4. `backup_orphan`: the scan of an uploaded EfficientIP backup consumes the token and
   runs the live scanner; nobody opens the file and nobody removes it, against
   `orchestrator.go:157` and `backup_scanner.go:22`.

Each property of a passing run has a mutant in `PROJECT.json`: a plausible bug in
a mapped definition (a dropped guard, a missing reset, a leaked slot) under which
TLC finds the property violated.

## 4. Proofs

All for arbitrary values of the constants.

- `ScanLifecycleProofs`. TypeOK; then `RunInv`: what each stage of a task means for
  the accumulators (merged = exactly one of findings and errs holds it), and that a
  run past `wg.Wait` has all tasks merged. PartialFailure follows without any
  assumption on starts: accumulators are per run, appended under `mu`. AcceptanceIsFinal
  (LateStartsRefused) needs none either: `AcceptedInv` says that an accepted start has
  left its session scanning or complete, which no store of another run undoes, and then
  no State test passes. So two runs of one session are two whose tests
  overlapped. For the rest, with `SerialStarts` as hypothesis, which rules these out:
  `ExclusiveInv` (a session whose state is created has no accepted start, and at most
  one start stands between test and write); then `StoreInv` (each of the four fields
  is landed and equal to the run's value, or still pending), which gives
  ReportIsWhole; and from both that no step changes what a settled session serves
  (SettledFrozen). None of these is inductive alone: without ExclusiveInv a second
  run could overwrite what the first stored.
  RefinesService: under `ScanRefinement`'s mapping every initial state of
  ScanLifecycle is one of ScanService, and every step is a step of the service or
  leaves it alone. The mapping reads the session's outcome out of the run that stored
  it, so each step is examined for its own session (mint, accept, plan, land, close)
  and for all others (UntouchedSession); StoreInv names the run. This is the safety
  part of ImplementsService.
- `CheckpointProofs`. `IInv` relates each unit's stage to its rows, to the skip-set,
  to the mutex and to the memory of the checkpoint: rows of a unit are 1 exactly
  when it was loaded or appended; a unit in the skip-set is never scanned;
  `mem` is what the attempt has saved or tried to; the holder is the only writer of
  `tmp`; the file is whole. It needs `Units` finite (for Cardinality) only.
- `BackupTokensProofs`. `FileInv` ties file, token and scan of an upload: stored
  means the file is there unless the sweeper is between its two steps; consumed
  means that one scan has it, and, of a NIOS backup, that the scan is still reading or
  the file is gone. `SweepInv`: what the sweeper holds was expired. Together they give
  InTimeFileKept, OneScanPerBackup and, for NIOS, NoOrphanedFile (NiosFileOwned). For
  EfficientIP the last one fails (`backup_orphan`).

- `ScanWizardProofs`. Four of the run's invariants, for any tiles, methods, sources,
  files and budgets, from invariants in layers (`PagesInv`). `ScanShape` is the shape
  of the jobs. `JobInv`: jobs are used in order, a job before the current one is
  stale, and one of whose page nothing is left ticks only if it was still starting
  when the page was left. `WaitInv`: the scanning page is of the current job, and with
  no error set and nothing late that job is starting or polled, its results are asked
  for, or its rows are there and the progress is 100 (a failing results call sets the
  error); NeverStranded is its consequence. `QuietInv`: outside the pages of a scan,
  and beside rows, nothing but such an early job ticks; this is PollersStop.
  `ListInv`: the file list is empty behind the first page and batches keep what was
  there when it was left. `KeptInv`: what a file brought is of providers the scan asks
  for, so nothing of it remains beside the scan's rows. With it `TotalsInv` is
  inductive and gives TotalsMatchRows; `AssessInv` (rows and errors are the merge of
  the list) gives AssessmentIsMerge, with the rows of `OwnersRows`: the last file that
  lists a provider owns its rows. On top of these, about the forms. `FormsInv`: every
  operation on a form keeps its shape (a file only where backups are read, ticks only
  among what is listed). `ForestsInv`: ids of forests fall and stay apart. `VaultInv`:
  as long as no forest left the list during a validation, what `startScan` captured,
  what calls ask about and where the server keeps credentials are the same places as
  on the page. `DoneInv`: only asked providers have answered. Together TypeOK and the
  action property RequestIsSelection.
- `SizerProofs`. `SettledInv`: the state is `Sound`, so is what is stored, and whenever
  no timer is pending the copy holds what the screen shows. Sound means: it has the
  shape of a state (`Shaped`), its regions are a tree (lists of nodes with an id and
  lists of children, `IsTree`), and what is selected is a node of that tree. For
  SelectionsResolve the last part alone is not inductive: that a selection survives an
  action needs to know what the action does to a tree of any depth and width. Each
  reducer action either only grows the tree (`TreeKept`: every node is still at its
  place under its parent; renaming, typing, adding, cloning, merging an import), or
  cuts it, and then the dialog that dispatches it drops the selection (`TreeCut`).
  Which nodes there are (`NodeIds`, by flattening) is related to places in the nested
  lists by `Nodes`; what a scan is turned into is a tree (`ImportedTree`), merging
  keeps one (`TreeMerged`, by induction over the incoming regions), and keys and mouse
  select only rows the flattened tree shows (`VisibleFound`).
  The shape is what makes the round trip through `Blob` and `Loaded` give back the
  state; every reducer action and every effect after a rendering keeps it (one lemma per
  group of actions). Each dispatch starts the timer, so that the last conjunct can only
  be made true by a write of the whole state. CopyFollowsScreen is SettledIsStored;
  ImportWritesBoth is the action property that an import puts the same into the copy
  and onto the screen, although it merges twice, once into each: with no timer pending
  and no refused write, what it reads back is the live state, so it is one merge; what
  the effects add after landing (a selection, tiers) is all that differs.
  ImportsAdd is ImportIsAdditive, for any scan. What is on the screen after an import is
  what one merge makes of the screen before (`ImportShows`), and of a merge three things
  are shown, along the folds it consists of. It changes nothing of a region but its
  sites, and loses none of these (`Adds`; `PutGains` for one site put below its city,
  `MergeAdds` for one incoming region, `TreeAdds` for all). No identifier comes twice in
  it (`OnceIn`) when none did before: incoming nodes are numbered from `nextId` on, each
  site of a scan is made for one region and one city (`ScanOnce`, `GridOnce`), and each
  is put into the region of its key. That is one region only if existing regions
  go by keys of their own (`DistinctKeys`), which the property therefore has as a
  condition: the code merges into every region of a key (section 6). And a member whose
  name is known up to letter case and blanks is not appended (`RowsMerged`), because the
  key made of a name does not tell these apart (`OneKey`).
- `SizerFormsProofs`. DerivedValuesFresh. `FreshForm` says of each opened form: its
  timer is pending, or every field of its site that the user has not typed is what
  `Derived` gives for the current inputs. It rests on four facts. Which site a form
  reads is the first one with its id, and the way there (`Way`, region by region,
  country by country) stays the same when fields change or sites are added behind it,
  so that `FindSite` finds the site as it was, changed by its own edit only
  (`FoundUpdated`, `FoundBeside`, `Untouched`). An edit of a derived field marks it
  first (`OnlyMarkedChange`), so an edit that restarts no timer touches no unmarked
  field. Whatever `Derived` reads is in the key that restarts the timer. And a form
  never outlives its site: whatever removes or replaces the tree closes it. The
  invariant needs `SettledInv` for the shape of the tree, and that marks are of derived
  fields only (`AreMarks`): a mark on another field would be passed over by
  `SITE_DERIVE` and not by the form.
  TypedValuesKept is TypedValuesStay, for as long as no two sites have one id
  (`[]UniqueSites(s)`). `TypedInv` adds to it that a derived field that was typed is
  marked, and that the id is one handed out before, of a site that is gone too, so that
  no site added later inherits what was typed for another. A step that types is
  accounted for field by field (`LeavesTyped`: the clone pop-over copies fields and
  marks, the report types over marked cells only); the timer passes over the marks; and
  a step that moves, adds or drops nodes, or merges a scan, leads to a tree that consists
  of sites there were and of sites with new ids (`Since`: the lemmas that keep a tree
  carry both, `IsSite`), so that an old id finds the old site. That last step is where
  unique ids are needed, and the code does not guarantee them: after an import into two
  regions of one name and type (section 6) an edit rewrites the first of the two copies,
  and deleting its region brings back the values of before. Within the bounds of the
  run `sizer` ids stay unique, so there TypedValuesStay holds without the hypothesis.
- `ScanReportProofs`. SavedSessionsReopen. A session file leaves out the server's
  totals, the server tokens of the questionnaire and, as far as it is derived, the log
  volume. `ReportInv` is why nothing is lost: the totals are what the rows come to,
  and the two derived values are those of the answers, although each is set at other
  places (restart, import, an effect). So what is shown of a file just written is what
  is shown now (ShownAgain), and the merge changes nothing of a file whose fields of
  NIOS and AD and whose errors are of providers it lists or has rows of (`AllOwned`,
  MergedShows); for other files the property claims nothing (section 6). `SavedInv`
  keeps this for the file, and `ReopenInv` says that a report nobody has touched since
  is the file's; all edits are one case, as they end the latter.

Assumptions on constants: `SerialStarts` (in the theorems named above), Units finite,
and those named `...Assumption` in the modules. `FormsAssumption` and
`FilesAssumption` say that a provider's first method is one of its methods, that
budgets are records of numbers, that files hold lists of rows, errors and known
providers, and that none bears the name of a scan; `OpeningsAssumption` that what a
run starts from is a state the provider can hold, with a tree of regions and a
selection in it, overrides of derived fields only (`sizer-state.ts:54`), and sites
whose ids the instance will not hand out again (`FirstIdAssumption`: new ids count
from `FirstId`; the code draws random ones), and members of the form the reducer
makes, as the provider writes only such states; `ClonesAssumption` that at least one
clone is allowed (`sizer-state.ts:507`); `ScansAssumption` of SizerTree that a scan is
a list of findings and a list of members; `ScansAssumption` of ScanReport that the
totals of a scan are those of its rows, as both are pooled per category and rounded up
once (`calculator.go:100-175`, `scenario-parity.ts`). TLC evaluates them in the runs.

Data. The provers cannot instantiate an induction principle whose parameter is a
predicate. `Induction` states it about a set of numbers (from well-foundedness, by a
least counterexample) and shows that a recursion over 0..N has a solution; the lemmas
about lists in the wizard's proofs (removing an entry, who owns a provider) and in the
Sizer's (elements at some places, flattening) use these. The models write their
recursions accordingly: `Picked`, `MergeInto` and `MergeNiosx` are recursive functions
over 0..N, and what a reducer action puts into a node is a patch, as in the code, not
an operator.

What the proofs changed in the models. SettledIsStored was not inductive as long as
the timer restarted only when the state's value changed: an import that follows one
whose write half failed can change the copy and leave the screen equal by value, and
then no timer would renew the copy. React compares objects, the code restarts the
timer, and so does the model now. ImportIsAdditive and ImportWritesWhatItShows were
too strong for an empty scan imported beside appliances without a site: landing on
step 3 recommends tiers for those, so both compare up to these tiers, and the run has
that opening. For the theorem about saved sessions `Shown` gathers everything the
figures read, so that what a figure may depend on is in one place.

Only model-checked:

- Liveness, which needs fairness: ScanCompletes, AttemptEnds, NiosFileReclaimed,
  EditsAreStored, and the fairness part of ImplementsService.
- Of the Sizer:
  TypeOK also says what characters and names the tree holds; names are built by
  concatenation (clones, `source - region`), and the provers know nothing of strings.
  ReimportAddsNothing does not hold for arbitrary scans: keys are concatenated names,
  so that source `a - b` with region `c` and source `a` with region `b - c` give two
  regions of one key, of which a second import knows the sites of the last one only
  (section 6). TypedValuesStay is proved where ids are unique (above) and is checked
  where the run goes.
  SourcesCoverTotal and MembersCoverSites compare sums over trees whose terms are
  percentages that only the instance bounds.
- Of the results page: ReportAddsUp and HybridWithinFull compare sums over rows, as
  several functions of the code fold them. The first part of HybridWithinFull may not
  even hold for every set of servers: XaaS servers are packed greedily, so leaving one
  out moves others between instances, whose tokens go by tier; what the run shows is
  its scans.
- The properties that the code refutes (the violation runs).

## 5. Plan

In order of importance; what is done is marked.

1. ScanLifecycle, ScanService, ScanRefinement *(done)*
2. CheckpointedScan *(done)*; an abstract atomic register that it implements
3. BackupTokens *(done)*
4. Sizer: reducer, import, timers, persistence, forms, report *(done)*
5. ScanWizard with the session files *(done)*
6. ScanReport with the calculators *(done)*
7. SharedScanner: result fields of the NIOS and AD scanner objects against the
   session they are attached to (stale and crossed results)
8. DeviceAuth composed with the session part: concurrent polls, timeout, the
   check-then-write of `establishSession`
9. EventBroker: subscribers, bounded channels, drops, unsubscribe against Close,
   unsynchronised progress counters
10. TokenMath: the server's pooled ceiling against a rational reference, tier lookup
11. SelfUpdate: renames with crash and failure between them, restart
12. If there is room: Backoff, the NIOS counting ledger

Theorems to come: the invariants of modules 7 to 11.

## 6. Not modelled

The remote calls of the scanners (SDK, LDAP, WinRM, REST), the parsing of backups,
the spreadsheet layouts, HTTP routing and headers, and the React views: I/O,
formatting, or sequential code without state of its own. Generated tables
(`vnios_specs.go`). Credential contents. Data races are modelled where they bear on
a property (the State test, the publication of the outcome); torn reads of single
words do not occur on the platforms Go supports, and multi-word values (the
TokenResult struct) are taken to appear whole, once landed.

In the browser, besides what the components' notes name:

- What no navigation reaches. Next goes straight to the results when the page holds
  imported rows, so a live scan is not merged with imported ones from there; the
  estimator on the credentials page goes to the results, so `startScan`'s branch for
  it (`wizard.tsx:1138-1165`) is not entered, and `estimatorServerTokens` is 0 unless
  a session file sets it.
- What is never displayed or exported: estimator warnings, the reporting breakdown,
  the estimator's server details and log volume.
- The tier distribution roll-up, the planner's sort key, locale ordering beyond
  `Collation`, collapsed panels, the bill of materials on the clipboard, the
  results surface fed with a Sizer state (its figures are in SizerDerive).
- Mock figures of the demo, beyond that they are rows of an origin of their own.

Seen while modelling, and modelled as the code has it:

- A checkpoint is deleted after `wg.Wait` also when units failed, against "clean up on
  full success" (`aws/scanner.go:278-281`, `azure/scanner.go:193`): these units cannot
  be retried alone.
- In the exclude mode the request still names the checked NIOS members
  (`wizard.tsx:1260`), and the server emits rows for the members named: the members
  ticked to be skipped are the ones counted, against `wizard.tsx:481` and the text of
  the page (`wizard.tsx:3854`). RequestIsSelection speaks of members in the include
  mode only.
- Back while the start call is under way leaves a poller behind: its interval is made
  when the call returns (`wizard.tsx:1358`), after the page cleared its intervals
  (`wizard.tsx:722`). It ticks until the next scan, Start Over, or the end of its scan.
- The answer of an earlier tick that arrives after the last one sets the progress back
  (`wizard.tsx:1278`) with nothing left to poll: Next stays disabled (`wizard.tsx:688`)
  although the rows are there. Answers of a scan that was left write into the next.
- When the call for the results fails (`wizard.tsx:1288`), the progress is 100 already:
  the error is set, but it is shown with Retry below 100 percent only
  (`wizard.tsx:4118`), and the page says "Scan Complete" (`wizard.tsx:4139-4144`).
  NeverStranded asks that the error is set, not where the page shows it.
- The merge of a single file does not hand on what the session kept of the grid or of
  AD without listing the provider or having rows of it (`session-io.ts:412-428`),
  against "Merging a single file returns that file unchanged"
  (`session-io.ts:279-280`). `restart()` keeps such values of an earlier scan, so a
  session saved afterwards can hold them.
- `findingKey` is called a unique key (`wizard.tsx:1366`), but two regions of one
  account have the same key for one item: a count typed for one row shows in both.
- `variantOverrides` "Resets on new scan" (`wizard.tsx:555`); `restart()` clears it,
  a new scan does not.
- Regions of the Sizer that share type and name share a key: an import adds the new
  sites of the key to each of them (`sizer-import.ts:457`), the same objects with the
  same ids, and takes only the last one's sites for known (`sizer-import.ts:427`).
- The NIOS grid's features and licenses are neither saved, restored nor cleared by
  `restart()`, so the panel that lists them (`results-migration-planner.tsx:1490-1534`)
  shows those of an earlier grid; no figure depends on them, and they are not modelled.
- `restart()` keeps Microsoft servers and flags of the grid, AD metrics and the AD
  migration map, scan errors and the allocation; a scan without member metrics keeps
  those of the scan before (`wizard.tsx:1309`).
- Validating a second NIOS backup while the first one shows as valid never uploads
  it: the effect that parses it waits for a status that is not valid.
- CSV and workbook leave out grid masters that run DNS or DHCP when no member is
  selected, and members without a finding (`wizard.tsx:1803-1809`).
- Hybrid keeps the whole Microsoft delta until the last source migrates; the AD panel
  counts hosts of earlier scans that are still in its map, and its Full card prices
  every host as NIOS-X.
- `results-surface.tsx:1595` and `:1627` filter for a provider `ad`, which the
  browser calls `microsoft`: these two figures are always 0.
- Events of the ecosystem destination in a session file are overwritten by the effect
  at `wizard.tsx:1422-1433` as soon as the file is opened.
