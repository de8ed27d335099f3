----------------------------- MODULE ScanReport -----------------------------
(***************************************************************************)
(* The results page: what the answer of a scan or a session file puts      *)
(* there, everything the user can change in it, and saving, reopening and  *)
(* exporting it (wizard.tsx, results-surface.tsx, the migration planners). *)
(* The way to a scan is the subject of ScanWizard; here a scan answers in  *)
(* one step, with any of Scans.                                            *)
(***************************************************************************)
EXTENDS ReportFigures

Merge == INSTANCE SessionMerge

CONSTANTS Scans,        \* what a scan can answer
          Files,        \* session files besides the saved one
          Counts,       \* numbers the user types for a finding
          Loads,        \* and for a server
          Percents,     \* and for the growth
          Searches,     \* what a search text can match: sets of names
          Budgets       \* how often, and what, the user does

(* The server prices the rows of a scan as the page would (calculator.go   *)
(* and calcPooledTokensByCurrentRates).                                    *)
PricedAsRows(totals, rows) ==
  /\ rows \in Seq(ToSet(rows))
  /\ RawTotalTokens(totals, rows) = RawTotalTokens(NoAggregates, rows)
  /\ RawCategoryTotals(totals, rows) = RawCategoryTotals(NoAggregates, rows)

ASSUME ScansAssumption ==
  \A s \in Scans : s.aggregates # NoAggregates => PricedAsRows(s.aggregates, s.rows)

VARIABLES page,         \* "results", or "setup" for all the steps before it
          report,       \* what the last scan or session file said
          edits,        \* what the user changed in it
          view,         \* filters, searches and the order of the table
          demo,         \* backend.isDemo
          exportError,  \* the last workbook could not be rendered
          saved,        \* the saved session and what was shown then
          reopened,     \* it was opened and nothing changed since
          budget

vars == <<page, report, edits, view, demo, exportError, saved, reopened, budget>>

-----------------------------------------------------------------------------
(* The page and what resets it. *)

NoEvents == [d \in Destinations |-> 0]
AllOn == [d \in Destinations |-> TRUE]

BlankReport ==
  [providers |-> {}, imported |-> {}, rows |-> <<>>, aggregates |-> NoAggregates, members |-> <<>>,
   dcs |-> <<>>, allocation |-> NoAllocation, grid |-> "none", errors |-> {},
   answers |-> EstimatorDefaults, estimator |-> 0, dests |-> [enabled |-> AllOn, events |-> NoEvents]]

BlankEdits ==
  [counts |-> <<>>, servers |-> <<>>, migrate |-> NoMap, adMigrate |-> NoMap, variants |-> <<>>,
   growth |-> 20, serverGrowth |-> 20, scenario |-> "none"]

NoSearch == [typed |-> FALSE, hits |-> {}]

BlankView == [byProvider |-> {}, byCategory |-> {}, sort |-> NoSort, search |-> NoSearch,
              bucket |-> "all", tier |-> "all", adSearch |-> NoSearch]

(* What the page shows. *)
Shows == Shown(report, edits, demo)

NotSaved == <<>>

Init ==
  /\ page = "setup" /\ report = BlankReport /\ edits = BlankEdits /\ view = BlankView
  /\ demo \in BOOLEAN /\ exportError = FALSE /\ saved = NotSaved /\ reopened = FALSE
  /\ budget \in Budgets

(* An effect keeps the events of the ecosystem in step with the answers.   *)
FollowLogs(dests, answers) == [dests EXCEPT !.events["ecosystem"] = EcosystemEvents(answers)]

(* restart() keeps what a scan said of the AD servers, of Microsoft        *)
(* servers and flags of the grid, its errors and the allocation.           *)
RestartedReport ==
  [BlankReport EXCEPT !.dcs = report.dcs, !.allocation = report.allocation, !.grid = report.grid,
                      !.errors = report.errors,
                      !.dests = FollowLogs(report.dests, EstimatorDefaults)]

RestartedEdits == [BlankEdits EXCEPT !.adMigrate = edits.adMigrate, !.scenario = edits.scenario]

(* The planner and its filters exist only while it is on the page.         *)
RestartedView == [BlankView EXCEPT !.adSearch = view.adSearch]

(* Counts typed for imported rows survive a scan that does not redo them.  *)
KeptCounts(providers) ==
  LET keeps == {k \in DOMAIN edits.counts : k[1] \in report.imported \ providers}
  IN [k \in keeps |-> edits.counts[k]]

-----------------------------------------------------------------------------
Spend(kind) == /\ budget[kind] > 0
               /\ budget' = [budget EXCEPT ![kind] = @ - 1]

(* A scan in the demo has rows and nothing else.  Metrics of an earlier    *)
(* scan stay when this one has none.                                       *)
Scan(s) ==
  /\ page = "setup" /\ s.live = ~demo /\ Spend("scans")
  /\ report.imported = {}
  /\ page' = "results"
  /\ report' = [report EXCEPT
       !.providers = s.providers, !.rows = s.rows, !.aggregates = s.aggregates,
       !.members = IF s.members # <<>> THEN s.members ELSE @,
       !.dcs = IF s.dcs # <<>> THEN s.dcs ELSE @,
       !.allocation = s.allocation,
       !.grid = IF s.grid # "none" THEN s.grid ELSE @,
       !.errors = IF s.live THEN s.errors ELSE @]
  /\ edits' = [edits EXCEPT !.counts = KeptCounts(s.providers), !.scenario = "none"]
  /\ reopened' = FALSE
  /\ UNCHANGED <<view, demo, exportError, saved>>

(* Start Over. *)
Restart ==
  /\ page = "results" /\ Spend("leaves")
  /\ page' = "setup" /\ report' = RestartedReport /\ edits' = RestartedEdits /\ view' = RestartedView
  /\ reopened' = FALSE
  /\ UNCHANGED <<demo, exportError, saved>>

(* Use as Sizer Input: the Sizer opens, and from there one can go back to  *)
(* the providers without a restart().                                      *)
UseAsSizerInput ==
  /\ page = "results" /\ report.rows # <<>> /\ Spend("leaves")
  /\ page' = "setup"
  /\ report' = [report EXCEPT !.providers = {"estimator"}]
  /\ view' = [view EXCEPT !.bucket = "all", !.tier = "all"]
  /\ reopened' = FALSE
  /\ UNCHANGED <<edits, demo, exportError, saved>>

(* saveSession: the totals of the server are not part of it.               *)
Snapshot ==
  [providers |-> report.providers, rows |-> report.rows, members |-> report.members, dcs |-> report.dcs,
   allocation |-> report.allocation, grid |-> report.grid, errors |-> report.errors,
   answers |-> report.answers, dests |-> report.dests, edits |-> edits]

SaveSession ==
  /\ page = "results" /\ saved = NotSaved /\ Spend("saves")
  /\ saved' = <<[file |-> Snapshot, demo |-> demo, figures |-> Figures(Shows, demo)]>>
  /\ UNCHANGED <<page, report, edits, view, demo, exportError, reopened>>

(* The drop zone folds even a single file with mergeSnapshots, which hands *)
(* on what belongs to a provider only if the file lists that provider or   *)
(* has rows of it.                                                         *)
Owned(file, p) == p \in file.providers \/ p \in ProvidersOf(file.rows)

OwnedErrors(file) == {e \in file.errors : Owned(file, Merge!ToFrontendProvider(e.provider))}

MergedEdits(file) ==
  LET e == file.edits
  IN [counts |-> e.counts, servers |-> e.servers, variants |-> e.variants, growth |-> e.growth,
      serverGrowth |-> e.serverGrowth,
      migrate |-> IF Owned(file, "nios") THEN e.migrate ELSE NoMap,
      scenario |-> IF Owned(file, "nios") THEN e.scenario ELSE "none",
      adMigrate |-> IF Owned(file, "microsoft") THEN e.adMigrate ELSE NoMap]

MergedAlone(file) ==
  [providers |-> file.providers, rows |-> file.rows,
   members |-> IF Owned(file, "nios") THEN file.members ELSE <<>>,
   dcs |-> IF Owned(file, "microsoft") THEN file.dcs ELSE <<>>,
   allocation |-> IF Owned(file, "nios") THEN file.allocation ELSE NoAllocation,
   grid |-> IF Owned(file, "nios") THEN file.grid ELSE "none",
   errors |-> OwnedErrors(file), answers |-> file.answers, dests |-> file.dests,
   edits |-> MergedEdits(file)]

(* A bug: the growth of the server tokens is not read back. *)
ForgetfulEdits(file) == [file.edits EXCEPT !.serverGrowth = 20]

SnapshotEdits(file) == file.edits

(* applySnapshot: restart(), then what the file says, field by field.      *)
SnapshotReport(file) ==
  [providers |-> file.providers, imported |-> file.providers, rows |-> file.rows,
   aggregates |-> NoAggregates, members |-> file.members, dcs |-> file.dcs,
   allocation |-> file.allocation, grid |-> file.grid, errors |-> file.errors,
   answers |-> file.answers, estimator |-> EstimatorServerTokens(file.answers),
   dests |-> FollowLogs(file.dests, file.answers)]

OpenSession(file) ==
  /\ page = "setup" /\ Spend("opens")
  /\ page' = "results"
  /\ report' = SnapshotReport(MergedAlone(file)) /\ edits' = SnapshotEdits(MergedAlone(file))
  /\ view' = RestartedView
  /\ reopened' = (saved # NotSaved /\ file = Head(saved).file)
  /\ UNCHANGED <<demo, exportError, saved>>

(* Next on the providers page goes straight to the report while it still   *)
(* holds rows of a session file, whatever is selected by then.             *)
ShowImported(providers) ==
  /\ page = "setup" /\ report.imported # {} /\ report.rows # <<>> /\ Spend("opens")
  /\ page' = "results" /\ report' = [report EXCEPT !.providers = providers]
  /\ reopened' = FALSE
  /\ UNCHANGED <<edits, view, demo, exportError, saved>>

-----------------------------------------------------------------------------
(* Edits.  An edit of kind k is possible as often as the budget says.      *)
Edit(kind) == page = "results" /\ Spend(kind)

EditsOnly == UNCHANGED <<page, report, view, demo, exportError, saved>> /\ reopened' = FALSE

Without(f, key) == [k \in DOMAIN f \ {key} |-> f[k]]

(* The original of a key is the first row that has it. *)
OriginalCount(key) == FirstWhere(report.rows, LAMBDA f : FindingKey(f) = key).count

(* Typing the original count resets it. *)
EditCount(f, n) ==
  LET key == FindingKey(f)
  IN /\ Edit("count")
     /\ edits' = [edits EXCEPT !.counts = IF n = OriginalCount(key) THEN Without(@, key)
                                          ELSE (key :> n) @@ @]
     /\ EditsOnly

ResetCount(key) ==
  /\ Edit("count")
  /\ edits' = [edits EXCEPT !.counts = Without(@, key)]
  /\ EditsOnly

ResetAllCounts ==
  /\ Edit("count") /\ edits.counts # <<>>
  /\ edits' = [edits EXCEPT !.counts = <<>>]
  /\ EditsOnly

(* A server without typed fields has no entry. *)
WithoutField(servers, id, field) ==
  LET rest == Without(Typed(servers, id), field)
  IN IF id \notin DOMAIN servers THEN servers
     ELSE IF DOMAIN rest = {} THEN Without(servers, id)
     ELSE (id :> rest) @@ servers

(* The servers whose cells can be edited, with what was measured: the      *)
(* lines of the two calculators.                                           *)
NiosCells ==
  IF ~Has(Shows, "nios") THEN {}
  ELSE {<<m.memberId, OwnLoad(m)>> : m \in ToSet(DisplayMembers(Shows.members, edits.migrate))}

DisplayDcs(r) == IF DOMAIN r.adMigrate # {} THEN MigratingDcs(r.dcs, r.adMigrate) ELSE r.dcs

(* The domain controllers of an XaaS instance are only listed.             *)
ADCells ==
  LET listed == {m \in ToSet(DisplayDcs(Shows)) : Target(edits.adMigrate, m.hostname) # "nios-xaas"}
  IN IF Has(Shows, "microsoft") THEN {<<m.hostname, OwnADLoad(m)>> : m \in listed} ELSE {}

EditServerMetric(cell, field, n) ==
  LET id == cell[1]
  IN /\ Edit("server")
     /\ edits' = [edits EXCEPT !.servers =
          IF n = cell[2][field] THEN WithoutField(@, id, field)
          ELSE (id :> ((field :> n) @@ Typed(@, id))) @@ @]
     /\ EditsOnly

ResetServerMetric(cell, field) ==
  /\ Edit("server") /\ field \in DOMAIN Typed(edits.servers, cell[1])
  /\ edits' = [edits EXCEPT !.servers = WithoutField(@, cell[1], field)]
  /\ EditsOnly

ResetAllServerMetrics ==
  /\ Edit("server") /\ edits.servers # <<>> /\ Has(Shows, "nios")
  /\ edits' = [edits EXCEPT !.servers = <<>>]
  /\ EditsOnly

-----------------------------------------------------------------------------
(* The migration planners. *)

Flipped(map, name) == IF name \in DOMAIN map THEN Without(map, name) ELSE (name :> "nios-x") @@ map

(* All of the targets, unless all migrate already: then none of them.      *)
FlippedAll(map, targets) ==
  IF targets \subseteq DOMAIN map THEN [s \in DOMAIN map \ targets |-> map[s]]
  ELSE map @@ [s \in targets |-> "nios-x"]

PlannerSources == IF Has(Shows, "nios") THEN NiosSources(Shows) ELSE {}

(* The tier of a source by what was measured, not by what was typed.       *)
TierBySource(s) ==
  LET named == {m \in ToSet(Shows.members) : m.memberName = s}
      load == IF named = {} THEN [qps |-> 0, lps |-> 0, objects |-> 0]
              ELSE OwnLoad(CHOOSE m \in named : TRUE)
  IN PickServerTier(load.qps, load.lps, load.objects).name

FilteredSources ==
  {s \in PlannerSources :
     /\ view.search.typed => s \in view.search.hits
     /\ view.bucket # "all" => (view.bucket = "migrating") = (s \in DOMAIN edits.migrate)
     /\ view.tier # "all" => TierBySource(s) = view.tier}

ToggleMigration(s) ==
  /\ Edit("nios")
  /\ edits' = [edits EXCEPT !.migrate = Flipped(@, s)]
  /\ EditsOnly

SetMemberFormFactor(s, ff) ==
  /\ Edit("nios") /\ s \in DOMAIN edits.migrate
  /\ edits' = [edits EXCEPT !.migrate[s] = ff]
  /\ EditsOnly

ToggleAllMigration ==
  /\ Edit("nios") /\ Has(Shows, "nios")
  /\ edits' = [edits EXCEPT !.migrate = FlippedAll(@, FilteredSources)]
  /\ EditsOnly

ADHosts == IF Has(Shows, "microsoft") THEN {m.hostname : m \in ToSet(Shows.dcs)} ELSE {}

FilteredADHosts == {h \in ADHosts : view.adSearch.typed => h \in view.adSearch.hits}

ToggleADMigration(h) ==
  /\ Edit("ad")
  /\ edits' = [edits EXCEPT !.adMigrate = Flipped(@, h)]
  /\ EditsOnly

SetADFormFactor(h, ff) ==
  /\ Edit("ad") /\ h \in DOMAIN edits.adMigrate
  /\ edits' = [edits EXCEPT !.adMigrate[h] = ff]
  /\ EditsOnly

ToggleAllADMigration ==
  /\ Edit("ad") /\ ADHosts # {}
  /\ edits' = [edits EXCEPT !.adMigrate = FlippedAll(@, FilteredADHosts)]
  /\ EditsOnly

-----------------------------------------------------------------------------
(* Growth, the Microsoft allocation, and the variants of an appliance.     *)

Clamp(n) == IF n < 0 THEN 0 ELSE IF n > 100 THEN 100 ELSE n

SetGrowth(n) ==
  /\ Edit("growth")
  /\ edits' = [edits EXCEPT !.growth = Clamp(n)]
  /\ EditsOnly

SetServerGrowth(n) ==
  /\ Edit("growth") /\ HasServerMetrics(Shows)
  /\ edits' = [edits EXCEPT !.serverGrowth = Clamp(n)]
  /\ EditsOnly

(* Two switches; both are off while a NIOS count is typed.                 *)
SwitchMicrosoft(service) ==
  LET dns == edits.scenario \in {"dns-only", "both"}
      dhcp == edits.scenario \in {"dhcp-only", "both"}
  IN /\ Edit("microsoft")
     /\ report.allocation.available /\ ~HasNiosCountOverrides(edits.counts)
     /\ edits' = [edits EXCEPT !.scenario = IF service = "dns" THEN SelectMSScenario(~dns, dhcp)
                                            ELSE SelectMSScenario(dns, ~dhcp)]
     /\ EditsOnly

(* A card offers the variants of its model; the default one is no entry.   *)
PickVariant(m, index) ==
  LET saving == MemberSavings(Shows)
      spec == SpecOf(m.model, m.platform)
  IN /\ Edit("variant") /\ Has(Shows, "nios")
     /\ \E i \in DOMAIN saving : /\ DisplayMembers(Shows.members, edits.migrate)[i] = m
                                 /\ saving[i].kind \in {"virtual", "managed"}
     /\ Len(spec) > 1 /\ index \in DOMAIN spec
     /\ edits' = [edits EXCEPT !.variants = IF index = 1 THEN Without(@, m.memberId)
                                            ELSE (m.memberId :> index) @@ @]
     /\ EditsOnly

-----------------------------------------------------------------------------
(* Looking at the page changes no figure. *)
Look(new) ==
  /\ page = "results" /\ Spend("view") /\ view' = new
  /\ UNCHANGED <<page, report, edits, demo, exportError, saved, reopened>>

ToggledIn(S, x) == IF x \in S THEN S \ {x} ELSE S \union {x}

(* Ascending, descending, not at all. *)
ToggledSort(col) ==
  IF view.sort = NoSort \/ view.sort.col # col THEN [col |-> col, dir |-> "asc"]
  ELSE IF view.sort.dir = "asc" THEN [col |-> col, dir |-> "desc"] ELSE NoSort

Columns == {"provider", "source", "category", "item", "count", "tokens"}
           \union (IF Has(Shows, "nios") THEN {"uddiTokens"} ELSE {})

Filter ==
  \/ \E p \in report.providers : Look([view EXCEPT !.byProvider = ToggledIn(@, p)])
  \/ \E c \in Categories : Look([view EXCEPT !.byCategory = ToggledIn(@, c)])
  \/ HasFindingsFilter(view) /\ Look([view EXCEPT !.byProvider = {}, !.byCategory = {}])

SortBy(col) == Look([view EXCEPT !.sort = ToggledSort(col)])

FilterPlanner ==
  \/ \E hits \in Searches : Look([view EXCEPT !.search = [typed |-> TRUE, hits |-> hits]])
  \/ Look([view EXCEPT !.search = NoSearch])
  \/ \E b \in {"all", "staying", "migrating"} : Look([view EXCEPT !.bucket = b])
  \/ \E t \in TierNames \union {"all"} : Look([view EXCEPT !.tier = t])

FilterHosts ==
  \/ \E hits \in Searches : Look([view EXCEPT !.adSearch = [typed |-> TRUE, hits |-> hits]])
  \/ Look([view EXCEPT !.adSearch = NoSearch])

(* Download XLSX: the backend renders what is posted, or fails; without a  *)
(* backend the page writes the table itself.                               *)
Download(fails) ==
  /\ page = "results" /\ Spend("view") /\ ~(demo /\ fails)
  /\ exportError' = IF demo THEN exportError ELSE fails
  /\ UNCHANGED <<page, report, edits, view, demo, saved, reopened>>

(* The next health check finds the backend gone, or back. *)
Ping ==
  /\ Spend("pings")
  /\ demo' = ~demo
  /\ UNCHANGED <<page, report, edits, view, exportError, saved, reopened>>

Next ==
  \/ \E s \in Scans : Scan(s)
  \/ Restart \/ UseAsSizerInput \/ SaveSession
  \/ \E file \in Files : OpenSession(file)
  \/ saved # NotSaved /\ OpenSession(Head(saved).file)
  \/ \E providers \in (SUBSET report.imported) \ {{}, {"estimator"}} : ShowImported(providers)
  \/ \E f \in ToSet(FilteredSortedFindings(Shows.rows, view)), n \in Counts : EditCount(f, n)
  \/ \E key \in DOMAIN edits.counts : ResetCount(key)
  \/ ResetAllCounts \/ ResetAllServerMetrics
  \/ \E cell \in NiosCells \union ADCells, field \in {"qps", "lps", "objects"} :
       \/ \E n \in Loads \union {cell[2][field]} : EditServerMetric(cell, field, n)
       \/ ResetServerMetric(cell, field)
  \/ \E s \in FilteredSources : \/ ToggleMigration(s)
                                \/ \E ff \in {"nios-x", "nios-xaas"} : SetMemberFormFactor(s, ff)
  \/ \E h \in FilteredADHosts : \/ ToggleADMigration(h)
                                \/ \E ff \in {"nios-x", "nios-xaas"} : SetADFormFactor(h, ff)
  \/ ToggleAllMigration \/ ToggleAllADMigration
  \/ \E n \in Percents : SetGrowth(n) \/ SetServerGrowth(n)
  \/ \E service \in {"dns", "dhcp"} : SwitchMicrosoft(service)
  \/ \E m \in ToSet(Shows.members), index \in 1..3 : PickVariant(m, index)
  \/ Filter \/ FilterPlanner \/ FilterHosts
  \/ \E col \in Columns : SortBy(col)
  \/ \E fails \in BOOLEAN : Download(fails)
  \/ Ping

Spec == Init /\ [][Next]_vars

-----------------------------------------------------------------------------
(* Properties. *)

SumOver(f) == MapThenSumSet(LAMBDA x : f[x], DOMAIN f)

(* Buffered one by one, the categories exceed the total by a ceiling each, *)
(* or fall short of it by one when only the double of the total is too     *)
(* large: 44 + 77 = 121 tokens beside ceil(110 * 1.1) = 122.               *)
CategoriesAddUp(r) ==
  SumOver(TokenAggregates(r)) \in (TotalTokens(r) - 1)..(TotalTokens(r) + 3)

(* The bars of the hero card, with the lines that reconcile them.          *)
SourcesAddUp(r) ==
  LET breakdown == BuildReconciledSourceBreakdown(r.rows, r.raw, r.delta, TotalTokens(r))
  IN SumOver(breakdown.sources) + SumOver(breakdown.adjustments) = TotalTokens(r)

(* The server's totals are those of the rows, so a filter that hides       *)
(* nothing shows the same totals.                                          *)
FilterAddsNothing(r) ==
  Len(FilteredSortedFindings(r.rows, view)) = Len(r.rows)
    => FooterTotals(r, view) = FooterTotals(r, BlankView)

(* The bars of the servers, and the panels of the two planners.            *)
ServersAddUp(r) ==
  /\ Grow(Sum(LAMBDA x : x, BuildHeroServerBreakdown(r)) + r.estimator, r.serverGrowth)
       = TotalServerTokens(r)
  /\ HasNiosSelections(r) /\ PlannerServerScenarios(r).hybrid > 0
       => /\ CalculatorTotal(r) = PlannerServerScenarios(r).hybrid
          /\ ExportedNiosTokens(r) = PlannerServerScenarios(r).hybrid
  /\ HasAdSelections(r) => ExportedADTokens(r) = ADServerScenarios(r).hybrid

(* The numbers the page, its panels and its exports show for one thing     *)
(* agree, after any edits: each is computed by code of its own             *)
(* (wizard.tsx:1385-1604, results-surface.tsx:142, scenario-parity.ts).    *)
ReportAddsUp ==
  page = "results" =>
    LET r == Shows
    IN CategoriesAddUp(r) /\ SourcesAddUp(r) /\ FilterAddsNothing(r) /\ ServersAddUp(r)

(* Migrating some servers never costs more than migrating all, also with   *)
(* maps that name servers of an earlier scan; without a Microsoft          *)
(* allocation the management tokens of the scenarios are in order; and a   *)
(* Hybrid of everything is Full (wizard.tsx:1531-1688).                    *)
HybridWithinFull ==
  page = "results" =>
    LET r == Shows
        scenarios == ManagementScenarios(r)
        all == /\ Has(r, "nios") => AllNiosMigrated(r)
               /\ Has(r, "microsoft") => {m.hostname : m \in ToSet(r.dcs)} \subseteq DOMAIN r.adMigrate
    IN /\ HybridServerTokens(r) <= TotalServerTokens(r)
       /\ r.delta.total = 0 => /\ scenarios.current <= scenarios.hybrid
                               /\ scenarios.hybrid <= scenarios.full
       /\ all /\ HybridScenario(r) # <<>> /\ r.estimator = 0
            => HybridServerTokens(r) = TotalServerTokens(r)
       /\ AllNiosMigrated(r) => scenarios.hybrid = scenarios.full

(* What the file keeps for NIOS and for AD, and every error, is of a       *)
(* provider that it lists or has rows of.                                  *)
AllOwned(file) ==
  /\ ~Owned(file, "nios") =>
       /\ file.members = <<>> /\ file.allocation = NoAllocation /\ file.grid = "none"
       /\ file.edits.migrate = NoMap /\ file.edits.scenario = "none"
  /\ ~Owned(file, "microsoft") => file.dcs = <<>> /\ file.edits.adMigrate = NoMap
  /\ \A e \in file.errors : Owned(file, Merge!ToFrontendProvider(e.provider))

(* A saved session that is opened again shows every figure it showed when  *)
(* it was saved, whatever happened in between, unless it had something of  *)
(* a provider that is not in it: nothing else that a figure is made of is  *)
(* lost on the way into the file and through the merge, and nothing of the *)
(* session before it is left (wizard.tsx:2191-2257, session-io.ts:282).    *)
SavedSessionReopens ==
  reopened /\ demo = Head(saved).demo /\ AllOwned(Head(saved).file)
    => Figures(Shows, demo) = Head(saved).figures
=============================================================================
