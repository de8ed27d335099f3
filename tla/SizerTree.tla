----------------------------- MODULE SizerTree -----------------------------
(***************************************************************************)
(* The Sizer as the user drives it: the hierarchy of step 1, the rows of   *)
(* step 3, the validation banner, moving between steps and pages, the      *)
(* import of a scan, and the copy kept in sessionStorage.                  *)
(*                                                                         *)
(* s is the state of the live provider, which is mounted as long as the    *)
(* application is open.  stored is the blob in sessionStorage: it is       *)
(* written by a 300 ms debounce timer, on pagehide and by the import, and  *)
(* read when the application starts and, again, by the import.  A write    *)
(* may fail (quota).  page is what the outer wizard shows: a page of the   *)
(* scan flow, the Sizer wizard, or the Sizer report.  region is the active *)
(* region of step 2 and tab the one of step 3, both local to their view;   *)
(* derive says that the derive timer of the form of step 2 is running.     *)
(***************************************************************************)
EXTENDS SizerForms

CONSTANTS Openings,       \* what sessionStorage may hold at the start, and how
                          \* much of each bound is spent by then
          Scans,          \* the scan results an import may find
          NewNames,       \* the texts a user may type as a name
          FirstId,        \* identifiers below it occur in Openings
          MaxEdits,       \* bound: dispatches by the user
          MaxFailures,    \* bound: failed writes
          MaxRuns         \* bound: times the application is opened

(* What is stored in the schema of this version was written by the program,*)
(* which once had a fifth step, with the identifiers of then.              *)
ASSUME OpeningsAssumption ==
  \A o \in Openings :
    o.blob.kind = "state" => /\ IsStateAt(o.blob.state, {1, 2, 3, 4, 5})
                             /\ o.blob.state.core.regions \in Seq(Region)
                             /\ o.blob.state.core.niosx \in Seq(NiosXSystem)
                             /\ Resolves(o.blob.state)
                             /\ AreMarks(o.blob.state.ui.siteOverrides)
                             /\ SiteIds(o.blob.state.core) \subseteq 0..(FirstId - 1)

ASSUME FirstIdAssumption == FirstId \in Nat

ASSUME ScansAssumption ==
  \A scan \in Scans : scan.findings \in Seq(FindingRow) /\ scan.members \in Seq(Member)

VARIABLES s, page, region, tab, derive, open, timer, stored, badge, failed,
          nextId, edits, failures, runs

live == <<s, page, region, tab, derive>>

vars == <<live, open, timer, stored, badge, failed, nextId, edits, failures, runs>>

(* Step n of the Sizer wizard is on screen. *)
Shows(n, t, pg) == pg = "sizer" /\ t.ui.activeStep = n

StepShown(n) == open /\ Shows(n, s, page)

ShowsSecurity(t, pg) == Shows(4, t, pg) /\ t.ui.sectionsOpen["security"]

Absent == [kind |-> "absent"]

Blob(t) == [kind |-> "state", state |-> t]

NoBadge == [regions |-> 0, sites |-> 0, niosx |-> 0]

(* A blob of another schema version or of another shape is thrown away;    *)
(* the retired fifth step is read as the fourth.                           *)
LoadPersisted(blob) ==
  IF blob.kind # "state" THEN Absent
  ELSE Blob([blob.state EXCEPT !.ui.activeStep = IF @ = 5 THEN 4 ELSE @])

Kept(blob) == IF LoadPersisted(blob) = Absent THEN Absent ELSE blob

Loaded(blob) == IF LoadPersisted(blob) = Absent THEN InitialSizerState
                ELSE LoadPersisted(blob).state

(* The application is opened on the first page of the scan flow. *)
Init ==
  /\ \E o \in Openings :
       /\ stored = Kept(o.blob)
       /\ edits = o.edits /\ failures = o.failures /\ runs = o.runs
  /\ s = Loaded(stored)
  /\ page = "scan" /\ region = 0 /\ tab = "niosx" /\ derive = FALSE
  /\ open = TRUE /\ timer = TRUE /\ failed = FALSE /\ badge = NoBadge
  /\ nextId = FirstId

-----------------------------------------------------------------------------
(* One commit of the live state, with the effects that follow it.  The     *)
(* banner ends dismissals while the Sizer wizard stays on screen; step 2   *)
(* selects a site when it appears, changes region, or gains or loses a     *)
(* site, and restarts the derive timer when its form changes; step 3 sets  *)
(* tiers while its first tab is shown; the security section fills itself   *)
(* in when it appears.  The provider restarts the debounce timer whenever  *)
(* the reducer returned another object (renewed), of equal content or not. *)
Heard(t, pg) ==
  IF page = "sizer" /\ pg = "sizer" THEN EndDismissals(t, LastMessages(s.core)) ELSE t

ActiveIn(t, pg, chosen) == IF Shows(2, t, pg) THEN ActiveRegion(t, chosen) ELSE 0

TabIn(t, pg, tb) == IF Shows(3, t, pg) /\ Shows(3, s, page) THEN tb ELSE "niosx"

(* Step 2 was on screen before, with this region and as many sites.        *)
SameList(t, active) ==
  /\ Shows(2, s, page) /\ active = region
  /\ Len(SitesInRegion(t, active)) = Len(SitesInRegion(s, active))

Effects(t, pg, active, tb) ==
  IF Shows(2, t, pg) /\ ~SameList(t, active) THEN AutoSelect(t, active)
  ELSE IF Shows(3, t, pg) /\ tb = "niosx" THEN AutoTier(t)
  ELSE IF ShowsSecurity(t, pg) /\ ~ShowsSecurity(s, page) THEN AutoFillSecurity(t)
  ELSE t

FormIn(t, pg, active) == IF Shows(2, t, pg) THEN FormSiteId(t, active) ELSE 0

DeriveTimer(t, form) ==
  IF DeriveKey(t, form) = DeriveKey(s, FormIn(s, page, region)) THEN derive
  ELSE form # 0 /\ FormDerives(t, FindSite(t.core, form))

(* Mutant: the debounce timer depends on the core only. *)
SettleOnCore(t, pg, active, tb, renewed) ==
  /\ s' = t /\ page' = pg /\ region' = active /\ tab' = tb
  /\ derive' = DeriveTimer(t, FormIn(t, pg, active))
  /\ timer' = (timer \/ t.core # s.core)

(* Mutant: a change cancels the pending timer and starts none. *)
SettleCancels(t, pg, active, tb, renewed) ==
  /\ s' = t /\ page' = pg /\ region' = active /\ tab' = tb
  /\ derive' = DeriveTimer(t, FormIn(t, pg, active))
  /\ timer' = (timer /\ t = s /\ ~renewed)

Settle(t, pg, active, tb, renewed) ==
  /\ s' = t /\ page' = pg /\ region' = active /\ tab' = tb
  /\ derive' = DeriveTimer(t, FormIn(t, pg, active))
  /\ timer' = (timer \/ renewed \/ t # s)

Commit(t, pg, chosen, tb, renewed) ==
  LET Finish(active, shown) ==
        Settle(Effects(Heard(t, pg), pg, active, shown), pg, active, shown, renewed)
  IN Finish(ActiveIn(t, pg, chosen), TabIn(t, pg, tb))

(* What the user can do is given as the set of outcomes each part of the   *)
(* interface offers: whether an action is dispatched, the state that leads *)
(* to, how many identifiers it uses, and the region and the tab then       *)
(* chosen.  No control dispatches an action that the reducer ignores.      *)
Outcome(t, used) ==
  [acts |-> TRUE, to |-> t, used |-> used, region |-> region, tab |-> tab]

(* Choosing what a step shows dispatches nothing. *)
Look(atRegion, atTab) ==
  [acts |-> FALSE, to |-> s, used |-> 0, region |-> atRegion, tab |-> atTab]

Edit(t, used) == {Outcome(t, used)}

When(shown, outcomes) == IF shown THEN outcomes ELSE {}

Do(e) ==
  /\ edits < MaxEdits /\ edits' = edits + 1
  /\ nextId' = nextId + e.used
  /\ Commit(e.to, page, e.region, e.tab, e.acts)
  /\ UNCHANGED <<open, stored, badge, failed, failures, runs>>

(* The view moves to another page of the outer wizard. *)
Turn(pg) ==
  /\ Commit(s, pg, region, tab, FALSE)
  /\ UNCHANGED <<open, stored, badge, failed, nextId, edits, failures, runs>>

(* The derive timer of the form fires, and dispatches whatever it finds. *)
Derive ==
  /\ open /\ derive
  /\ \E t \in {FindSite(s.core, FormSiteId(s, region))} :
       s' = EndDismissals(SiteDerive(s, t.id, Derived(s, t)), LastMessages(s.core))
  /\ derive' = FALSE /\ timer' = TRUE
  /\ UNCHANGED <<page, region, tab, open, stored, badge, failed, nextId, edits, failures, runs>>

IsOpen(id) == ~(id \in DOMAIN s.ui.expandedNodes /\ ~s.ui.expandedNodes[id])

(* The rows of the tree that are on screen, in order. *)
FlattenVisible ==
  LET Row(kind, n, parent, kids) ==
        [kind |-> kind, id |-> n.id, parent |-> parent, hasChildren |-> kids # <<>>,
         expanded |-> kind # "site" /\ IsOpen(n.id)]
      Under(row, rows) == <<row>> \o (IF row.expanded THEN rows ELSE <<>>)
      CityRows(c, ct) == Under(Row("city", ct, c.id, ct.sites),
                               Map(LAMBDA t : Row("site", t, ct.id, <<>>), ct.sites))
      CountryRows(r, c) == Under(Row("country", c, r.id, c.cities),
                                 FlattenSeq(Map(LAMBDA ct : CityRows(c, ct), c.cities)))
      RegionRows(r) == Under(Row("region", r, 0, r.countries),
                             FlattenSeq(Map(LAMBDA c : CountryRows(r, c), r.countries)))
  IN FlattenSeq(Map(RegionRows, s.core.regions))

(* Every node is open until an entry says otherwise, and the reducer reads *)
(* a missing entry as closed: closing a node for the first time takes two  *)
(* dispatches.                                                             *)
ToggleExpanded(id) ==
  IF id \in DOMAIN s.ui.expandedNodes THEN ToggleNodeExpanded(s, id)
  ELSE ToggleNodeExpanded(ToggleNodeExpanded(s, id), id)

-----------------------------------------------------------------------------
(* Step 1. *)

HandleAddRegion == Edit(AddRegion(s, nextId), 1)

RegionForm(id) ==
  {Outcome(UpdateRegion(s, id, [name |-> name]), 0) : name \in NewNames}
  \union {Outcome(UpdateRegion(s, id, [cloudNativeDns |-> ~r.cloudNativeDns]), 0) :
           r \in {x \in Range(s.core.regions) : x.id = id /\ x.type # "on-premises"}}

RegionTypePill ==
  {Outcome(UpdateRegion(s, r.id, [type |-> type]), 0) :
     r \in Range(s.core.regions), type \in RegionTypes}

(* Any row can be selected, and any but a site opened or closed; children  *)
(* are added under a row that is open.                                     *)
SelectRow(row) == Edit(SetSelectedPath(s, Selected(row.kind, row.id)), 0)

ToggleRow(row) == When(row.kind # "site", Edit(ToggleExpanded(row.id), 0))

RegionRow(row) ==
  When(row.kind = "region" /\ row.expanded,
       Edit(AddCountry(s, row.id, nextId), 1) \union Edit(AddSiteToRegion(s, row.id, nextId), 3))

CountryRow(row) ==
  When(row.kind = "country" /\ row.expanded, Edit(AddCity(s, row.id, nextId), 1))

CityRow(row) ==
  When(row.kind = "city" /\ row.expanded, Edit(AddSiteToCity(s, row.id, nextId), 1))

(* The name of a country or a city, typed in its form or in its row; a     *)
(* blank text is not committed by the row.                                 *)
UnassignedLabel(row, name) ==
  When(row.kind = "country", Edit(UpdateCountry(s, row.id, [name |-> name]), 0))
  \union When(row.kind = "city", Edit(UpdateCity(s, row.id, [name |-> name]), 0))

(* Mutant: the selection stays on the deleted node. *)
DeleteNodeKeepsSelection(kind, id) ==
  CASE kind = "region" -> DeleteRegion(s, id) [] kind = "country" -> DeleteCountry(s, id)
    [] kind = "city" -> DeleteCity(s, id) [] OTHER -> DeleteSite(s, id)

(* The confirmed deletion of a node of any kind also clears the selection. *)
DeleteNode(kind, id) ==
  SetSelectedPath(CASE kind = "region" -> DeleteRegion(s, id)
                    [] kind = "country" -> DeleteCountry(s, id)
                    [] kind = "city" -> DeleteCity(s, id)
                    [] OTHER -> DeleteSite(s, id), NoSelection)

DeleteDialog(row) == Edit(DeleteNode(row.kind, row.id), 0)

RowOf(rows, id) == SelectInSeq(rows, LAMBDA r : r.id = id)

(* The arrow keys, Home and End; `here' is the row selected, or 0.         *)
Keys(rows, here) ==
  LET Opens == here > 0 /\ rows[here].hasChildren /\ ~rows[here].expanded
      Closes == here > 0 /\ rows[here].expanded
      Climbs == here > 0 /\ ~rows[here].expanded /\ rows[here].parent # 0
      Targets == {IF here = Len(rows) THEN here ELSE here + 1, IF here <= 1 THEN 1 ELSE here - 1,
                  1, Len(rows)}
                 \union (IF Closes THEN {here + 1} ELSE {})
                 \union (IF Climbs THEN {RowOf(rows, rows[here].parent)} ELSE {})
  IN (UNION {SelectRow(rows[i]) : i \in Targets \intersect DOMAIN rows})
     \union When(Opens \/ Closes, Edit(ToggleExpanded(rows[here].id), 0))

OnTreeKeyDown(rows) ==
  Keys(rows, SelectInSeq(rows, LAMBDA r : r.id = s.ui.selectedPath.id
                                          /\ s.ui.selectedPath.kind = r.kind))

RowEdits(row) ==
  SelectRow(row) \union ToggleRow(row) \union RegionRow(row) \union CountryRow(row)
  \union CityRow(row) \union (UNION {UnassignedLabel(row, name) : name \in NewNames})
  \union DeleteDialog(row)

TreeEdits(rows) == OnTreeKeyDown(rows) \union UNION {RowEdits(row) : row \in Range(rows)}

SizerStepRegions ==
  HandleAddRegion \union RegionTypePill \union TreeEdits(FlattenVisible)
  \union When(s.ui.selectedPath.kind = "region", RegionForm(s.ui.selectedPath.id))

-----------------------------------------------------------------------------
(* Step 3: the rows themselves.  Their other fields are in SizerSites.     *)

NiosXPanel ==
  Edit(AddNiosx(s, nextId), 1)
  \union {Outcome(DeleteNiosx(s, id), 0) : id \in IdsOf(s.core.niosx)}
  \union {Outcome(UpdateNiosx(s, id, [name |-> name]), 0) :
           id \in IdsOf(s.core.niosx), name \in NewNames}
  \union {Outcome(UpdateNiosx(s, id, [siteId |-> site]), 0) :
           id \in IdsOf(s.core.niosx), site \in SiteIds(s.core)}

(* The service points are listed under their regions: one whose region was *)
(* deleted cannot be reached any more.                                     *)
ShownXaas == {x \in Range(s.core.xaas) : x.regionId \in IdsOf(s.core.regions)}

XaasPanel ==
  {Outcome(AddXaas(s, id, nextId), 1) : id \in IdsOf(s.core.regions)}
  \union {Outcome(DeleteXaas(s, x.id), 0) : x \in ShownXaas}

InfraTabs == {Look(region, tb) : tb \in {"niosx", "xaas"} \ {tab}}

SizerStepInfra ==
  InfraTabs \union When(tab = "niosx", NiosXPanel) \union When(tab = "xaas", XaasPanel)

-----------------------------------------------------------------------------
(* The banner, the stepper and the footer. *)

GoTo(issue) ==
  Edit(SetSelectedPath(SetActiveStep(s, StepForIssue(issue)), Selected("issue", issue.index)), 0)

Dismiss(issue) == Edit(DismissIssue(s, issue.code), 0)

Banner == UNION {GoTo(x) \union Dismiss(x) : x \in Range(BannerIssues(s))}

JumpTo == {Outcome(SetActiveStep(s, n), 0) : n \in 1..4 \ {s.ui.activeStep}}

EditSizer ==
  /\ open /\ page = "sizer"
  /\ \E e \in When(s.ui.activeStep = 1, SizerStepRegions)
             \union When(s.ui.activeStep = 3, SizerStepInfra) \union Banner \union JumpTo : Do(e)

(* The badge of an import is read, and removed, when step 1 appears. *)
ShowBadge == StepShown(1) /\ badge # NoBadge /\ badge' = NoBadge
             /\ UNCHANGED <<live, open, timer, stored, failed, nextId, edits, failures, runs>>

(* Past either end of the steps the footer leaves the Sizer wizard; the     *)
(* other pages have a way into it.                                          *)
PagesFrom ==
  CASE page = "sizer" /\ s.ui.activeStep = 4 -> {"report"}
    [] page = "sizer" /\ s.ui.activeStep = 1 -> {"scan"}
    [] page \in {"scan", "report"} -> {"sizer"}
    [] OTHER -> {}

TurnPage == open /\ \E pg \in PagesFrom : Turn(pg)

(* Reset on the report drops the stored copy and starts over. *)
OnReset ==
  /\ open /\ page = "report" /\ s.core.regions # <<>>
  /\ edits < MaxEdits /\ edits' = edits + 1
  /\ Commit(SetActiveStep(InitialSizerState, 1), "scan", region, tab, TRUE)
  /\ stored' = Absent
  /\ UNCHANGED <<open, badge, failed, nextId, failures, runs>>

-----------------------------------------------------------------------------
(* Import: the scan is merged into what is stored, for the stored copy and *)
(* the badge, and into the live state.  A failed write, of the copy or of  *)
(* the badge after it, abandons the rest.                                  *)

Incoming(scan) == ImportFromScan(scan, nextId)

MergeId(scan) == nextId + ImportSpan(scan)

LandingStep(t) == IF t.core.regions # <<>> THEN 2 ELSE IF t.core.niosx # <<>> THEN 3 ELSE 1

(* Mutant: the copy is written without the landing step. *)
ImportBlobAsMerged(merged) == Blob(merged)

(* What the import writes: the merged copy, with its landing step. *)
ImportBlob(merged) == Blob(SetActiveStep(merged, LandingStep(merged)))

(* Mutant: the difference the other way round. *)
GainedBackwards(before, after) == [k \in DOMAIN after |-> before[k] - after[k]]

Gained(before, after) == [k \in DOMAIN after |-> after[k] - before[k]]

ImportDone(existing, merged, inApp) ==
  /\ stored' = ImportBlob(merged)
  /\ badge' = Gained(CountTreeEntities(existing), CountTreeEntities(merged))
  /\ failed' = FALSE /\ UNCHANGED failures
  /\ Commit(SetActiveStep(inApp, LandingStep(merged)), "sizer", region, tab, TRUE)

ImportFailed(merged) ==
  /\ failures < MaxFailures /\ failures' = failures + 1
  /\ stored' \in {Kept(stored), ImportBlob(merged)}
  /\ failed' = TRUE
  /\ UNCHANGED <<live, timer, badge>>

HandleSizerImportConfirm ==
  /\ open /\ page = "scan" /\ edits < MaxEdits
  /\ \E scan \in Scans :
       /\ \E merged \in {ImportScan(Loaded(stored), Incoming(scan), MergeId(scan))} :
            \/ ImportDone(Loaded(stored), merged, ImportScan(s, Incoming(scan), MergeId(scan)))
            \/ ImportFailed(merged)
       /\ nextId' = MergeId(scan) + 2 * (Len(s.core.regions) + Len(scan.findings) + 1)
  /\ edits' = edits + 1
  /\ UNCHANGED <<open, runs>>

-----------------------------------------------------------------------------
(* Persistence. *)

Write ==
  \/ stored' = Blob(s) /\ failed' = FALSE /\ UNCHANGED failures
  \/ /\ failures < MaxFailures /\ failures' = failures + 1
     /\ failed' = TRUE /\ UNCHANGED stored

PersistTimer ==
  /\ open /\ timer
  /\ timer' = FALSE
  /\ Write
  /\ UNCHANGED <<live, open, badge, nextId, edits, runs>>

(* Closing or reloading the page runs the pagehide flush. *)
PageHide ==
  /\ open
  /\ open' = FALSE /\ timer' = FALSE
  /\ Write
  /\ UNCHANGED <<live, badge, nextId, edits, runs>>

(* The tab is killed: no flush. *)
Kill ==
  /\ open
  /\ open' = FALSE /\ timer' = FALSE
  /\ UNCHANGED <<live, stored, badge, failed, nextId, edits, failures, runs>>

Reopen ==
  /\ ~open /\ runs < MaxRuns
  /\ runs' = runs + 1
  /\ stored' = Kept(stored)
  /\ s' = Loaded(stored)
  /\ open' = TRUE /\ timer' = TRUE /\ failed' = FALSE
  /\ page' = "scan" /\ region' = 0 /\ tab' = "niosx" /\ derive' = FALSE
  /\ UNCHANGED <<badge, nextId, edits, failures>>

Next == \/ EditSizer \/ Derive \/ ShowBadge \/ TurnPage \/ OnReset \/ HandleSizerImportConfirm
        \/ PersistTimer \/ PageHide \/ Kill \/ Reopen

(* The browser fires the timer of an open page. *)
Spec == Init /\ [][Next]_vars /\ WF_vars(PersistTimer)

-----------------------------------------------------------------------------
(* Properties. *)

TypeOK ==
  /\ IsFullState(s)
  /\ page \in {"scan", "sizer", "report"}
  /\ region \in Nat /\ tab \in {"niosx", "xaas"}
  /\ derive \in BOOLEAN /\ open \in BOOLEAN /\ timer \in BOOLEAN /\ failed \in BOOLEAN
  /\ stored.kind \in {"absent", "state"}
  /\ stored.kind = "state" => stored.state.core \in SizerCore
  /\ badge \in [{"regions", "sites", "niosx"} -> Nat]
  /\ edits \in 0..MaxEdits /\ failures \in 0..MaxFailures /\ runs \in 1..MaxRuns

(* What is selected exists: no deletion, of the node itself or of one      *)
(* above it, by row, dialog or key, leaves the detail pane, the keyboard   *)
(* and the breadcrumbs with a node that is gone.                           *)
SelectionResolves == Resolves(s)

(* Once the debounce timer has run, and unless a write was refused, what   *)
(* a reload or a killed tab would bring back is what is on screen.         *)
SettledIsStored == open /\ ~timer /\ ~failed => Loaded(stored) = s

(* A scan that has been imported, and is imported once more, adds nothing: *)
(* every region, site and member it brings is recognised.                  *)
ReimportAddsNothing ==
  open /\ page = "scan" =>
    \A scan \in Scans :
      LET Again(once) == CountTreeEntities(ImportScan(once, ImportFromScan(scan, 2 * MergeId(scan)),
                                                     4 * MergeId(scan)))
                         = CountTreeEntities(once)
      IN Again(ImportScan(s, Incoming(scan), MergeId(scan)))

(* An import went through: it is what leads from the scan to the Sizer     *)
(* with an edit.                                                           *)
Imported == page = "scan" /\ page' = "sizer" /\ edits' # edits

DistinctKeys(t) == \A i, j \in DOMAIN t.core.regions :
                      RegionKey(t.core.regions[i]) = RegionKey(t.core.regions[j]) => i = j

UniqueSites(t) == Cardinality(SiteIds(t.core)) = Len(AllSites(t.core))

(* One name up to letter case and blanks. *)
SameMember(n, m) ==
  /\ FoldedText(n.name.base) = FoldedText(m.name.base)
  /\ [n.name EXCEPT !.base = m.name.base, !.sp = m.name.sp] = m.name

(* Rows without their tiers, which the third step sets when it appears.    *)
Untiered(niosx) == Map(LAMBDA n : [n EXCEPT !.tierName = ""], niosx)

(* An import only adds.  Every region, site and NIOS-X system of the live  *)
(* state stays as it was, but for a tier the landing step recommends, no   *)
(* member gets a second row under another spelling of its name, and, when  *)
(* no two regions go by the same name and type, no site comes in twice.    *)
ImportIsAdditive ==
  [][Imported =>
       /\ \A i \in DOMAIN s.core.regions :
            [s'.core.regions[i] EXCEPT !.countries = <<>>]
              = [s.core.regions[i] EXCEPT !.countries = <<>>]
       /\ Range(AllSites(s.core)) \subseteq Range(AllSites(s'.core))
       /\ IsPrefix(Untiered(s.core.niosx), Untiered(s'.core.niosx))
       /\ \A i, j \in DOMAIN s'.core.niosx :
            /\ j > Len(s.core.niosx) /\ i < j
            => ~SameMember(s'.core.niosx[i], s'.core.niosx[j])
       /\ DistinctKeys(s) /\ UniqueSites(s) => UniqueSites(s')]_vars

(* handleSizerImportConfirm merges twice, into what it reads back from     *)
(* sessionStorage and into the live state: when the two were in step       *)
(* before, they are in step after, up to what the landing step selects and *)
(* the tiers it recommends.                                                *)
BeforeLanding(t) ==
  [t EXCEPT !.ui.selectedPath = NoSelection, !.core.niosx = Untiered(t.core.niosx)]

ImportWritesWhatItShows ==
  [][Imported /\ ~timer /\ ~failed => BeforeLanding(stored'.state) = BeforeLanding(s')]_vars

(* An edit reaches sessionStorage unless a write is refused or the page    *)
(* goes away first.                                                        *)
EditsAreStored ==
  (open /\ Loaded(stored) # s) ~> (Loaded(stored) = s \/ failed \/ ~open)
=============================================================================
