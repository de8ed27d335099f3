--------------------------- MODULE SizerValidate ---------------------------
(***************************************************************************)
(* The validation of a Sizer state (sizer-validate.ts) and the part of the *)
(* banner that decides which issues are shown (sizer-validation-banner).   *)
(* An issue is its code, its severity, where it points, and its message;   *)
(* a message only differs from another of the same code by the node and    *)
(* the value it quotes.                                                    *)
(***************************************************************************)
EXTENDS SizerTypes, TokenTiers

MinLps == 1

MaxLps == 10000

Issue(code, severity, place, index, message) ==
  [code |-> code, severity |-> severity, place |-> place, index |-> index,
   message |-> message]

(* Indices into a sequence, in order, where Test holds. *)
Where(seq, Test(_)) == Picked([i \in DOMAIN seq |-> i], {i \in DOMAIN seq : Test(seq[i])})

AnySite(core) == \E i \in DOMAIN core.regions : RegionHasAnySite(core.regions[i])

NoInfra(core) == core.niosx = <<>> /\ core.xaas = <<>>

RegionIssues(core) ==
  Map(LAMBDA i : IF AnySite(core)
                 THEN Issue("region/empty-when-others-populated", "error", "region", i,
                            core.regions[i].name)
                 ELSE Issue("region/empty", "warning", "region", i, core.regions[i].name),
      Where(core.regions, LAMBDA r : ~RegionHasAnySite(r)))

SiteUnassigned(core, t) ==
  /\ ~NoInfra(core)
  /\ \A i \in DOMAIN core.niosx : core.niosx[i].siteId # t.id
  /\ \A i \in DOMAIN core.xaas : ~Contains(core.xaas[i].connectedSiteIds, t.id)

(* The issues of t, the i-th site of the tree, in the order of the checks. *)
SiteIssues(core, t, i) ==
  LET At(code, severity, message) == Issue(code, severity, "site", i, message)
  IN (IF t.f.users = Undef /\ t.f.activeIPs = Undef
      THEN <<At("site/missing-users-and-ips", "error", t.name)>> ELSE <<>>)
     \o (IF t.f.lps # Undef /\ t.f.lps \notin MinLps..MaxLps
         THEN <<At("site/lps-out-of-range", "warning", <<t.name, t.f.lps>>)>> ELSE <<>>)
     \o (IF SiteUnassigned(core, t)
         THEN <<At("site/unassigned-to-xaas-and-niosx", "warning", t.name)>> ELSE <<>>)

XaasIssues(core) ==
  Map(LAMBDA i : Issue("xaas/over-connections", "warning", "infrastructure", i,
                       <<core.xaas[i].name, core.xaas[i].tierName, core.xaas[i].connections>>),
      Where(core.xaas, LAMBDA x : /\ x.tierName \in DOMAIN XaasMaxConnections
                                  /\ x.connections > XaasMaxConnections[x.tierName]))

SecurityIssues(core) ==
  IF core.security.securityEnabled
     /\ core.security.tdVerifiedAssets + core.security.tdUnverifiedAssets = 0
  THEN <<Issue("security/enabled-zero-assets", "error", "security", 0, "zero")>> ELSE <<>>

IssuesOf(core, sites) ==
  (IF core.regions = <<>> THEN <<Issue("state/empty", "error", "", 0, "empty")>>
   ELSE RegionIssues(core) \o FlattenSeq([i \in DOMAIN sites |-> SiteIssues(core, sites[i], i)])
        \o XaasIssues(core)
        \o (IF AnySite(core) /\ NoInfra(core)
            THEN <<Issue("server/object-count-mismatch", "warning", "infrastructure", 0,
                         "no capacity")>> ELSE <<>>))
  \o SecurityIssues(core)

(* Errors first, then warnings, each in the order they are found. *)
ErrorsFirst(found) ==
  LET Of(severity) == Keep(found, LAMBDA x : x.severity = severity)
  IN Of("error") \o Of("warning")

Validate(core) == ErrorsFirst(IssuesOf(core, AllSites(core)))

-----------------------------------------------------------------------------
(* The banner. *)

InfraDeferred == {"site/unassigned-to-xaas-and-niosx", "server/object-count-mismatch"}

VisibleIssues(s) ==
  Keep(Validate(s.core), LAMBDA x : /\ ~Contains(s.ui.dismissedCodes, x.code)
                                    /\ ~(s.ui.activeStep < 3 /\ x.code \in InfraDeferred))

(* What the banner lists: nothing when all there is to say is "empty". *)
BannerIssues(s) ==
  LET Listed(visible) ==
        IF Len(visible) = 1 /\ visible[1].code = "state/empty" THEN <<>> ELSE visible
  IN Listed(VisibleIssues(s))

(* The step a "Go to" link leads to. *)
StepForIssue(x) == CASE x.place = "site" -> 2
                     [] x.place = "infrastructure" -> 3
                     [] x.place = "security" -> 4
                     [] OTHER -> 1

(* The message of the last issue of each code. *)
LastMessages(core) ==
  LET Messages(all) == [c \in {all[i].code : i \in DOMAIN all} |->
                          LastWhere(all, LAMBDA x : x.code = c).message]
  IN Messages(Validate(core))

(* A dismissal ends when its code is reported before and after the change  *)
(* with different messages.                                                *)
ChangedCodes(now, before) ==
  {c \in DOMAIN now \cap DOMAIN before : now[c] # before[c]}

EndDismissals(s, before) ==
  LET Without(codes) == [s EXCEPT !.ui.dismissedCodes = Keep(@, LAMBDA c : c \notin codes)]
  IN Without(ChangedCodes(LastMessages(s.core), before))
=============================================================================
