--------------------------- MODULE ScanReportProofs ---------------------------
(***************************************************************************)
(* A session that was saved shows the same figures when it is opened       *)
(* again, for any scans, session files and edits.                          *)
(***************************************************************************)
EXTENDS ScanReport, TLAPS

-----------------------------------------------------------------------------
(* The untouched questionnaire, and the events of the ecosystem.           *)

LEMMA NothingAnswered ==
  EstimatorServerTokens(EstimatorDefaults) = 0 /\ EcosystemEvents(EstimatorDefaults) = 0
<1>1. MonthlyLogVolume(EstimatorDefaults) = 0
  BY DEF MonthlyLogVolume, EstimatorDefaults, StaticClients, DynamicClients, QueriesPerDay, Undef
<1>2. EcosystemEvents(EstimatorDefaults) = 0
  BY <1>1 DEF EcosystemEvents, RoundDiv
<1> QED
  BY <1>2 DEF EstimatorServerTokens, EstimatorDefaults

(* Following the same answers twice is following them once.                *)
LEMMA FollowedOnce ==
  ASSUME NEW dests, NEW answers
  PROVE  FollowLogs(FollowLogs(dests, answers), answers) = FollowLogs(dests, answers)
BY DEF FollowLogs

LEMMA BlankFollows == FollowLogs(BlankReport.dests, EstimatorDefaults) = BlankReport.dests
<1>1. "ecosystem" \in Destinations
  BY DEF Destinations, ReportingRates
<1>2. [NoEvents EXCEPT !["ecosystem"] = 0] = NoEvents
  BY <1>1 DEF NoEvents
<1> DEFINE d == [enabled |-> AllOn, events |-> NoEvents]
<1>3. BlankReport.dests = d
  BY DEF BlankReport
<1>4. [d EXCEPT !.events["ecosystem"] = 0] = d
  BY <1>2
<1> QED
  BY <1>3, <1>4, NothingAnswered DEF FollowLogs

-----------------------------------------------------------------------------
(* What is shown does not depend on anything a session file leaves out.    *)

(* A report that agrees with itself: the totals of the server are those of *)
(* its rows, and what is derived from the questionnaire belongs to the     *)
(* answers it has.                                                         *)
ReportInv ==
  /\ report.aggregates # NoAggregates => PricedAsRows(report.aggregates, report.rows)
  /\ report.estimator = EstimatorServerTokens(report.answers)
  /\ FollowLogs(report.dests, report.answers) = report.dests

(* Without typed counts the rows are those of the scan.                    *)
LEMMA UneditedRows ==
  ASSUME NEW rows, rows \in Seq(ToSet(rows))
  PROVE  EffectiveFindings(rows, <<>>) = rows
BY DEF EffectiveFindings, Map

LEMMA ShownAgain ==
  ASSUME ReportInv
  PROVE  Shown(SnapshotReport(Snapshot), SnapshotEdits(Snapshot), demo) = Shows
<1> DEFINE again == SnapshotReport(Snapshot)
           rows == EffectiveFindings(report.rows, edits.counts)
           totals == IF edits.counts = <<>> THEN report.aggregates ELSE NoAggregates
<1>1. /\ again.providers = report.providers /\ again.rows = report.rows
      /\ again.aggregates = NoAggregates /\ again.members = report.members
      /\ again.dcs = report.dcs /\ again.allocation = report.allocation
      /\ again.grid = report.grid /\ again.errors = report.errors
      /\ again.answers = report.answers
      /\ again.estimator = EstimatorServerTokens(report.answers)
      /\ again.dests = FollowLogs(report.dests, report.answers)
  BY DEF SnapshotReport, Snapshot
<1>2. again.estimator = report.estimator /\ again.dests = report.dests
  BY <1>1 DEF ReportInv
<1>3. SnapshotEdits(Snapshot) = edits
  BY DEF SnapshotEdits, Snapshot
<1> HIDE DEF again
<1>4. /\ RawTotalTokens(totals, rows) = RawTotalTokens(NoAggregates, rows)
      /\ RawCategoryTotals(totals, rows) = RawCategoryTotals(NoAggregates, rows)
  <2>1. CASE edits.counts = <<>> /\ report.aggregates # NoAggregates
    <3>1. PricedAsRows(report.aggregates, report.rows)
      BY <2>1 DEF ReportInv
    <3>2. rows = report.rows
      BY <2>1, <3>1, UneditedRows DEF PricedAsRows
    <3> QED
      BY <2>1, <3>1, <3>2 DEF PricedAsRows
  <2>2. CASE totals = NoAggregates
    BY <2>2
  <2> QED
    BY <2>1, <2>2
<1>5. /\ EffectiveNiosMetrics(again) = EffectiveNiosMetrics(report)
      /\ EffectiveADMetrics(again, demo) = EffectiveADMetrics(report, demo)
      /\ AllocationDelta(again, edits) = AllocationDelta(report, edits)
  BY <1>1 DEF EffectiveNiosMetrics, EffectiveADMetrics, AllocationDelta
<1>6. (IF edits.counts = <<>> THEN again.aggregates ELSE NoAggregates) = NoAggregates
  BY <1>1
<1>7. Shown(again, edits, demo) = Shown(report, edits, demo)
  BY <1>1, <1>2, <1>4, <1>5, <1>6 DEF Shown
<1> QED
  BY <1>3, <1>7 DEF Shows, again

(* The merge of a file that owns all it keeps reads back as the file.      *)
LEMMA MergedShows ==
  ASSUME NEW file, NEW d, AllOwned(file)
  PROVE  Shown(SnapshotReport(MergedAlone(file)), SnapshotEdits(MergedAlone(file)), d)
           = Shown(SnapshotReport(file), SnapshotEdits(file), d)
<1> DEFINE merged == MergedAlone(file)
           kept == SnapshotEdits(merged)
           own == SnapshotEdits(file)
<1>1. /\ merged.providers = file.providers /\ merged.rows = file.rows
      /\ merged.members = file.members /\ merged.dcs = file.dcs
      /\ merged.allocation = file.allocation /\ merged.grid = file.grid
      /\ merged.errors = file.errors /\ merged.answers = file.answers /\ merged.dests = file.dests
  BY DEF MergedAlone, AllOwned, OwnedErrors
<1>2. /\ kept.counts = own.counts /\ kept.servers = own.servers /\ kept.variants = own.variants
      /\ kept.growth = own.growth /\ kept.serverGrowth = own.serverGrowth
      /\ kept.migrate = own.migrate /\ kept.scenario = own.scenario
      /\ kept.adMigrate = own.adMigrate
  BY DEF SnapshotEdits, MergedAlone, MergedEdits, AllOwned
<1> HIDE DEF merged, kept, own
<1>3. SnapshotReport(merged) = SnapshotReport(file)
  BY <1>1 DEF SnapshotReport
<1>4. ASSUME NEW r
      PROVE  Shown(r, kept, d) = Shown(r, own, d)
  BY <1>2 DEF Shown, AllocationDelta
<1> QED
  BY <1>3, <1>4 DEF merged, kept, own

-----------------------------------------------------------------------------
(* The report agrees with itself in every state.                           *)

LEMMA InitReport ==
  ASSUME Init
  PROVE  ReportInv
<1>1. report = BlankReport /\ report.answers = EstimatorDefaults /\ report.estimator = 0
      /\ report.aggregates = NoAggregates
  BY DEF Init, BlankReport
<1> QED
  BY <1>1, NothingAnswered, BlankFollows DEF ReportInv

LEMMA ScanReports ==
  ASSUME NEW s \in Scans, Scan(s), ReportInv
  PROVE  ReportInv'
<1>1. /\ report'.aggregates = s.aggregates /\ report'.rows = s.rows
      /\ report'.estimator = report.estimator /\ report'.answers = report.answers
      /\ report'.dests = report.dests
  BY DEF Scan
<1> QED
  BY <1>1, ScansAssumption DEF ReportInv

LEMMA RestartReports ==
  ASSUME Restart
  PROVE  ReportInv'
<1> DEFINE blank == BlankReport
<1>1. blank.aggregates = NoAggregates /\ blank.estimator = 0 /\ blank.answers = EstimatorDefaults
  BY DEF BlankReport
<1>2. /\ report'.aggregates = NoAggregates /\ report'.estimator = 0
      /\ report'.answers = EstimatorDefaults
      /\ report'.dests = FollowLogs(report.dests, EstimatorDefaults)
  BY <1>1 DEF Restart, RestartedReport, BlankReport
<1> QED
  BY <1>2, NothingAnswered, FollowedOnce DEF ReportInv

LEMMA OpenReports ==
  ASSUME NEW file, OpenSession(file)
  PROVE  ReportInv'
<1>1. /\ report'.aggregates = NoAggregates
      /\ report'.answers = file.answers
      /\ report'.estimator = EstimatorServerTokens(file.answers)
      /\ report'.dests = FollowLogs(file.dests, file.answers)
  BY DEF OpenSession, SnapshotReport, MergedAlone
<1> QED
  BY <1>1, FollowedOnce DEF ReportInv

(* Only the providers of the report can change without a scan or a file.   *)
LEMMA ShowReports ==
  ASSUME NEW providers, report' = [report EXCEPT !.providers = providers], ReportInv
  PROVE  ReportInv'
<1>1. /\ report'.aggregates = report.aggregates /\ report'.rows = report.rows
      /\ report'.estimator = report.estimator /\ report'.answers = report.answers
      /\ report'.dests = report.dests
  OBVIOUS
<1> QED
  BY <1>1 DEF ReportInv

-----------------------------------------------------------------------------
(* The saved session and what is open.                                     *)

(* The saved figures are the ones its file shows.                          *)
SavedInv ==
  saved # NotSaved =>
    LET s == Head(saved)
    IN s.figures = Figures(Shown(SnapshotReport(s.file), SnapshotEdits(s.file), s.demo), s.demo)

(* While nothing changed, the page holds what the merge made of the file.  *)
ReopenInv ==
  reopened =>
    /\ saved # NotSaved
    /\ report = SnapshotReport(MergedAlone(Head(saved).file))
    /\ edits = SnapshotEdits(MergedAlone(Head(saved).file))

IInv == ReportInv /\ SavedInv /\ ReopenInv

LEMMA Reopens ==
  ASSUME SavedInv, ReopenInv
  PROVE  SavedSessionReopens
<1> SUFFICES ASSUME reopened, demo = Head(saved).demo, AllOwned(Head(saved).file)
             PROVE  Figures(Shows, demo) = Head(saved).figures
  BY DEF SavedSessionReopens
<1> DEFINE file == Head(saved).file
<1>1. Shows = Shown(SnapshotReport(MergedAlone(file)), SnapshotEdits(MergedAlone(file)), demo)
  BY DEF ReopenInv, Shows
<1>2. Head(saved).figures = Figures(Shown(SnapshotReport(file), SnapshotEdits(file), demo), demo)
  BY DEF SavedInv, ReopenInv
<1> HIDE DEF file
<1>3. AllOwned(file)
  BY DEF file
<1> QED
  BY <1>1, <1>2, <1>3, MergedShows

(* A step that keeps the report and what is saved, and either the edits or *)
(* nothing of what was opened.                                             *)
LEMMA ReportStays ==
  ASSUME IInv, report' = report, saved' = saved,
           reopened' = FALSE \/ (edits' = edits /\ reopened' = reopened)
  PROVE  IInv'
BY DEF IInv, ReportInv, SavedInv, ReopenInv

LEMMA ReportChanges ==
  ASSUME IInv, ReportInv', saved' = saved, reopened' = FALSE
  PROVE  IInv'
BY DEF IInv, SavedInv, ReopenInv

LEMMA SavedOpens ==
  ASSUME IInv, NEW file, OpenSession(file)
  PROVE  IInv'
<1>1. ReportInv'
  BY OpenReports
<1>2. SavedInv'
  BY DEF IInv, SavedInv, OpenSession
<1>3. ReopenInv'
  BY DEF ReopenInv, OpenSession
<1> QED
  BY <1>1, <1>2, <1>3 DEF IInv

LEMMA SessionSaves ==
  ASSUME IInv, SaveSession
  PROVE  IInv'
<1>1. saved = NotSaved /\ report' = report /\ edits' = edits /\ reopened' = reopened /\ demo' = demo
  BY DEF SaveSession
<1>2. ReportInv'
  BY <1>1 DEF IInv, ReportInv
<1>3. SavedInv'
  <2> DEFINE s == [file |-> Snapshot, demo |-> demo, figures |-> Figures(Shows, demo)]
  <2>1. saved' = <<s>> /\ Head(saved') = s
    BY DEF SaveSession
  <2>2. Shown(SnapshotReport(Snapshot), SnapshotEdits(Snapshot), demo) = Shows
    BY ShownAgain DEF IInv
  <2>3. s.file = Snapshot /\ s.demo = demo /\ s.figures = Figures(Shows, demo)
    OBVIOUS
  <2> HIDE DEF s
  <2> QED
    BY <2>1, <2>2, <2>3 DEF SavedInv
<1>4. ReopenInv'
  BY <1>1 DEF IInv, ReopenInv
<1> QED
  BY <1>2, <1>3, <1>4 DEF IInv

LEMMA IInvInit ==
  ASSUME Init
  PROVE  IInv
<1>1. saved = NotSaved /\ reopened = FALSE
  BY DEF Init
<1> QED
  BY <1>1, InitReport DEF IInv, SavedInv, ReopenInv

LEMMA IInvStep ==
  ASSUME IInv, [Next]_vars
  PROVE  IInv'
<1>1. CASE \E s \in Scans : Scan(s)
  BY <1>1, ScanReports, ReportChanges DEF Scan, IInv
<1>2. CASE Restart
  BY <1>2, RestartReports, ReportChanges DEF Restart
<1>3. CASE UseAsSizerInput
  BY <1>3, ShowReports, ReportChanges DEF UseAsSizerInput, IInv
<1>4. CASE SaveSession
  BY <1>4, SessionSaves
<1>5. CASE \E file : OpenSession(file)
  BY <1>5, SavedOpens
<1>6. CASE \E providers : ShowImported(providers)
  BY <1>6, ShowReports, ReportChanges DEF ShowImported, IInv
<1>7. CASE EditsOnly
  <2>1. report' = report /\ saved' = saved /\ reopened' = FALSE
    BY <1>7 DEF EditsOnly
  <2> QED
    BY <2>1, ReportStays
<1>8. CASE \E new : Look(new)
  BY <1>8, ReportStays DEF Look
<1>9. CASE (\E fails : Download(fails)) \/ Ping
  BY <1>9, ReportStays DEF Download, Ping
<1>10. CASE UNCHANGED vars
  BY <1>10, ReportStays DEF vars
<1>11. ASSUME Next
       PROVE  \/ \E s \in Scans : Scan(s)
              \/ Restart \/ UseAsSizerInput \/ SaveSession \/ EditsOnly
              \/ \E file : OpenSession(file)
              \/ \E providers : ShowImported(providers)
              \/ \E new : Look(new)
              \/ (\E fails : Download(fails)) \/ Ping
  <2>1. ASSUME NEW f, NEW n, EditCount(f, n)
        PROVE  EditsOnly
    BY <2>1 DEF EditCount
  <2>2. ASSUME NEW key, ResetCount(key)
        PROVE  EditsOnly
    BY <2>2 DEF ResetCount
  <2>3. ASSUME ResetAllCounts \/ ResetAllServerMetrics \/ ToggleAllMigration \/ ToggleAllADMigration
        PROVE  EditsOnly
    BY <2>3 DEF ResetAllCounts, ResetAllServerMetrics, ToggleAllMigration, ToggleAllADMigration
  <2>4. ASSUME NEW cell, NEW field, NEW n, EditServerMetric(cell, field, n) \/ ResetServerMetric(cell, field)
        PROVE  EditsOnly
    BY <2>4 DEF EditServerMetric, ResetServerMetric
  <2>5. ASSUME NEW s, NEW ff, \/ ToggleMigration(s) \/ SetMemberFormFactor(s, ff)
                              \/ ToggleADMigration(s) \/ SetADFormFactor(s, ff)
        PROVE  EditsOnly
    BY <2>5 DEF ToggleMigration, SetMemberFormFactor, ToggleADMigration, SetADFormFactor
  <2>6. ASSUME NEW n, SetGrowth(n) \/ SetServerGrowth(n) \/ SwitchMicrosoft(n)
        PROVE  EditsOnly
    BY <2>6 DEF SetGrowth, SetServerGrowth, SwitchMicrosoft
  <2>7. ASSUME NEW m, NEW index, PickVariant(m, index)
        PROVE  EditsOnly
    BY <2>7 DEF PickVariant
  <2>8. ASSUME Filter \/ FilterPlanner \/ FilterHosts \/ \E col : SortBy(col)
        PROVE  \E new : Look(new)
    BY <2>8 DEF Filter, FilterPlanner, FilterHosts, SortBy
  <2> QED
    BY <1>11, <2>1, <2>2, <2>3, <2>4, <2>5, <2>6, <2>7, <2>8 DEF Next
<1> QED
  BY <1>1, <1>2, <1>3, <1>4, <1>5, <1>6, <1>7, <1>8, <1>9, <1>10, <1>11

(* Opening a saved session, through the merge of the drop zone, shows      *)
(* every figure it showed when it was saved, whatever was scanned, opened  *)
(* and edited in between, if what it keeps for NIOS and AD and its errors  *)
(* are of providers in the session (wizard.tsx:2191-2257,                  *)
(* session-io.ts:282-431).                                                 *)
THEOREM SavedSessionsReopen == Spec => []SavedSessionReopens
<1>1. Init => IInv
  BY IInvInit
<1>2. IInv /\ [Next]_vars => IInv'
  BY IInvStep
<1>3. IInv => SavedSessionReopens
  BY Reopens DEF IInv
<1> QED
  BY <1>1, <1>2, <1>3, PTL DEF Spec
=============================================================================
