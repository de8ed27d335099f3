---------------------------- MODULE ReportFigures ----------------------------
(***************************************************************************)
(* The figures of the results page (the memos of wizard.tsx and the footer *)
(* of results-surface.tsx), its exports, and what it posts for the         *)
(* workbook.  All of them are functions of                                 *)
(*   report  what the last scan or session file said,                      *)
(*   edits   what the user changed in it,                                  *)
(*   demo    whether the backend is away.                                  *)
(* Shown gathers what they read; r below is always a Shown, and Figures    *)
(* all of them.                                                            *)
(***************************************************************************)
EXTENDS EstimatorCalc, ResourceSavings

CONSTANTS MockMembers,     \* MOCK_NIOS_SERVER_METRICS
          MockDcs          \* MOCK_AD_SERVER_METRICS

(* No totals of the server: of a demo scan or a session file.              *)
NoAggregates == <<>>

(* No Microsoft allocation. *)
NoAllocation == [available |-> FALSE, scenarios |-> <<>>]

(* Mock members stand in whenever the scan had none, in the demo or not.   *)
EffectiveNiosMetrics(report) == IF report.members # <<>> THEN report.members ELSE MockMembers

EffectiveADMetrics(report, demo) ==
  IF report.dcs # <<>> THEN report.dcs
  ELSE IF demo /\ "microsoft" \in report.providers THEN MockDcs ELSE <<>>

(* A typed count makes the server's totals void, and one of NIOS the       *)
(* allocation, which was computed from the backup.                         *)
AllocationDelta(report, edits) ==
  IF HasNiosCountOverrides(edits.counts) THEN ZeroDelta
  ELSE MsAllocationDelta(report.allocation, edits.scenario)

(* Raw totals come from the server while it has any for the rows, and from *)
(* the rows otherwise.                                                     *)
RawTotalTokens(totals, rows) ==
  IF totals # NoAggregates THEN MapThenSumSet(LAMBDA c : totals[c], Categories)
  ELSE CalcPooledTokensByCurrentRates(rows)

InCategory(rows, c) == Keep(rows, LAMBDA f : f.category = c)

RawCategoryTotals(totals, rows) ==
  IF totals # NoAggregates THEN totals
  ELSE [c \in Categories |-> CalcPooledTokensByCurrentRates(InCategory(rows, c))]

Shown(report, edits, demo) ==
  LET rows == EffectiveFindings(report.rows, edits.counts)
      totals == IF edits.counts = <<>> THEN report.aggregates ELSE NoAggregates
      void == HasNiosCountOverrides(edits.counts)
  IN [providers |-> report.providers, rows |-> rows,
      members |-> EffectiveNiosMetrics(report), dcs |-> EffectiveADMetrics(report, demo),
      scanned |-> [nios |-> report.members # <<>>, ad |-> report.dcs # <<>>],
      raw |-> RawTotalTokens(totals, rows), rawCategories |-> RawCategoryTotals(totals, rows),
      delta |-> AllocationDelta(report, edits), estimator |-> report.estimator,
      migrate |-> edits.migrate, adMigrate |-> edits.adMigrate, servers |-> edits.servers,
      variants |-> edits.variants, growth |-> edits.growth, serverGrowth |-> edits.serverGrowth,
      answers |-> report.answers, dests |-> report.dests, errors |-> report.errors,
      grid |-> report.grid, allocation |-> IF void THEN NoAllocation ELSE report.allocation,
      scenario |-> IF void THEN "none" ELSE edits.scenario]

-----------------------------------------------------------------------------
(* Management tokens. *)

TotalTokens(r) == Grow(r.raw + r.delta.total, r.growth)

CategoryTotals(r) == [c \in Categories |-> r.delta[c] + r.rawCategories[c]]

(* A bug: the categories of the workbook without the buffer. *)
UnbufferedAggregates(r) == CategoryTotals(r)

TokenAggregates(r) == [c \in Categories |-> Grow(CategoryTotals(r)[c], r.growth)]

NiosSources(r) == SelectableNiosScenarioSources(r.rows, r.members)

ScenarioNiosMigrationMap(r) == FilterNiosMigrationMap(NiosSources(r), r.migrate)

AllNiosMigrated(r) == AreAllSelectableNiosSourcesMigrated(NiosSources(r), r.migrate)

ManagementScenarios(r) ==
  CalculateManagementScenarioTotals(r.rows, DOMAIN ScenarioNiosMigrationMap(r), r.delta, r.growth,
                                    AllNiosMigrated(r))

(* Shown next to the totals once a member or a domain controller migrates. *)
HybridScenario(r) ==
  IF HasNiosSelections(r) \/ HasAdSelections(r)
  THEN <<[mgmt |-> ManagementScenarios(r).hybrid, srv |-> HybridServerTokens(r)]>>
  ELSE <<>>

MemberSavings(r) ==
  LET Size(m) == LET load == ApplyServerOverrides(m, r.servers)
                 IN PickServerTier(load.qps, load.lps, load.objects).name
      Saved(m) == CalcMemberSavings(m.model, m.platform, Size(m), Target(r.migrate, m.memberName),
                                    IF m.memberId \in DOMAIN r.variants THEN r.variants[m.memberId]
                                    ELSE Undef)
  IN Map(Saved, DisplayMembers(r.members, r.migrate))

-----------------------------------------------------------------------------
(* The table of findings.  The text columns are ordered by Collation.      *)
CONSTANT Collation

NoSort == <<>>

SortKey(f, col) ==
  CASE col \in {"count", "tokens"} -> f[col]
    [] col = "uddiTokens" -> CalcTokens(f.category, f.count)
    [] OTHER -> Collation[f[col]]

(* A stable sort, in either direction. *)
Sorted(rows, sort) ==
  LET key(i) == SortKey(rows[i], sort.col)
      Before(i, j) == \/ IF sort.dir = "asc" THEN key(i) < key(j) ELSE key(i) > key(j)
                      \/ key(i) = key(j) /\ i < j
  IN IF sort = NoSort THEN rows
     ELSE LET order == SetToSortSeq(DOMAIN rows, Before) IN [k \in DOMAIN rows |-> rows[order[k]]]

(* A filter without a choice lets everything through. *)
FilteredSortedFindings(rows, view) ==
  LET Passes(f) == /\ view.byProvider = {} \/ f.provider \in view.byProvider
                   /\ view.byCategory = {} \/ f.category \in view.byCategory
  IN Sorted(Keep(rows, Passes), view.sort)

HasFindingsFilter(view) == view.byProvider # {} \/ view.byCategory # {}

(* The two authoritative totals below the table.                           *)
FooterTotals(r, view) ==
  LET displayed == FilteredSortedFindings(r.rows, view)
  IN IF HasFindingsFilter(view)
     THEN [current |-> CalcPooledTokensByCurrentRates(displayed), uddi |-> CalcUddiTokensAggregated(displayed)]
     ELSE [current |-> r.raw, uddi |-> CalcPooledTokensAtNativeRates(r.rows)]

-----------------------------------------------------------------------------
(* Exports. *)

(* Packs of 1000 management, 500 server and 40 reporting tokens.           *)
Packs(r, reporting) ==
  [mgmt |-> CeilDiv(TotalTokens(r), 1000),
   server |-> IF HasServerMetrics(r) THEN CeilDiv(TotalServerTokens(r), 500) ELSE 0,
   reporting |-> CeilDiv(reporting, 40)]

(* The planner's section: the scenarios, what stays under NIOS licences,   *)
(* and the members that migrate.                                           *)
PlannerSection(r) ==
  LET nios == Of(r.rows, "nios")
      staying == Keep(nios, LAMBDA f : f.source \notin DOMAIN ScenarioNiosMigrationMap(r))
  IN IF ~HasNiosSelections(r) THEN <<>>
     ELSE <<[scenarios |-> ManagementScenarios(r),
             licensed |-> CalcPooledTokensByCurrentRates(nios),
             staying |-> IF AllNiosMigrated(r) THEN 0 ELSE CalcPooledTokensByCurrentRates(staying),
             migrated |-> ScenarioNiosMigrationMap(r)]>>

ExportCSV(r, reporting) ==
  [rows |-> r.rows, total |-> TotalTokens(r), planner |-> PlannerSection(r),
   niosServers |-> ExportedNiosTokens(r), adServers |-> ExportedADTokens(r),
   growth |-> r.growth, serverGrowth |-> IF HasServerMetrics(r) THEN r.serverGrowth ELSE Undef,
   packs |-> Packs(r, reporting)]

(* The table of the demo repeats the sections of the CSV file. *)
ExportExcel(r, reporting) == ExportCSV(r, reporting)

(* What was typed for a member goes out in place of what was measured, but *)
(* the objects only as the number that sizes it.                           *)
WithNiosOverrides(m, overrides) ==
  LET typed == Typed(overrides, m.memberId)
  IN [m EXCEPT !.qps = ApplyServerOverrides(m, overrides).qps,
               !.lps = ApplyServerOverrides(m, overrides).lps,
               !.serverObjectCount = IF "objects" \in DOMAIN typed THEN typed.objects ELSE @]

WithADOverrides(m, overrides) ==
  LET load == ApplyADServerOverrides(m, overrides)
  IN [m EXCEPT !.qps = load.qps, !.lps = load.lps, !.serverTokens =
        IF m.hostname \in DOMAIN overrides THEN NiosXTokens(load) ELSE @]

(* The sheets of members and domain controllers are only of scanned ones.  *)
BuildReportPayload(r, reporting) ==
  LET typed == {m \in ToSet(r.members) : "objects" \in DOMAIN Typed(r.servers, m.memberId)}
  IN [findings |-> r.rows, totals |-> TokenAggregates(r), grandTotal |-> TotalTokens(r),
      providerTotals |-> BuildSelectedProviderTotals(r.rows, r.delta, r.growth),
      totalServerTokens |-> TotalServerTokens(r), reportingTokens |-> reporting,
      niosServerMetrics |-> IF Has(r, "nios") /\ r.scanned.nios
                            THEN Map(LAMBDA m : WithNiosOverrides(m, r.servers), r.members) ELSE <<>>,
      niosServerObjectOverrides |->
        [id \in {m.memberId : m \in typed} |-> r.servers[id].objects],
      adServerMetrics |-> IF Has(r, "microsoft") /\ r.scanned.ad
                          THEN Map(LAMBDA m : WithADOverrides(m, r.servers), r.dcs) ELSE <<>>,
      niosMigrationMap |-> ScenarioNiosMigrationMap(r), adMigrationMap |-> r.adMigrate,
      growth |-> r.growth, serverGrowth |-> r.serverGrowth, variants |-> r.variants,
      errors |-> r.errors, grid |-> r.grid, allocation |-> r.allocation, scenario |-> r.scenario]

(* Everything on the page, in the exports and in the workbook, which the   *)
(* page writes itself while the backend is away.                           *)
Figures(r, demo) ==
  LET reporting == ReportingTokens(r.answers, r.dests.events, r.dests.enabled, r.growth)
  IN [total |-> TotalTokens(r), categories |-> CategoryTotals(r), server |-> TotalServerTokens(r),
      reporting |-> reporting, hybrid |-> HybridScenario(r), nios |-> PlannerServerScenarios(r),
      ad |-> ADServerScenarios(r), calculators |-> <<CalculatorTotal(r), ADCalculatorTotal(r)>>,
      savings |-> CalcFleetSavings(MemberSavings(r)), csv |-> ExportCSV(r, reporting),
      payload |-> IF demo THEN ExportExcel(r, reporting) ELSE BuildReportPayload(r, reporting)]
=============================================================================
