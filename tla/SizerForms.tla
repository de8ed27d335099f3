----------------------------- MODULE SizerForms -----------------------------
(***************************************************************************)
(* What the forms of steps 2 to 4 compute from a Sizer state: which site   *)
(* the form of step 2 shows, in which mode, what the derive engine is      *)
(* given, the live preview, the load and the recommended tier of step 3,   *)
(* and the changes the forms make by themselves when they appear.          *)
(***************************************************************************)
EXTENDS SizerReducer, SizerValidate, SizerDerive

(* The active region of step 2: the chosen one while it exists, else the   *)
(* first; 0 when there is none.                                            *)
ActiveRegion(s, chosen) ==
  IF s.core.regions = <<>> THEN 0
  ELSE IF chosen \in IdsOf(s.core.regions) THEN chosen ELSE s.core.regions[1].id

SitesInRegion(s, regionId) ==
  IF regionId \notin IdsOf(s.core.regions) THEN <<>>
  ELSE RegionSites(FirstWhere(s.core.regions, LAMBDA r : r.id = regionId))

(* The site whose form is shown, 0 when the selection is not a site of the *)
(* active region.                                                          *)
FormSiteId(s, regionId) ==
  IF s.ui.selectedPath.kind = "site"
     /\ s.ui.selectedPath.id \in IdsOf(SitesInRegion(s, regionId))
  THEN s.ui.selectedPath.id ELSE 0

AutoSelect(s, regionId) ==
  LET Pick(sites) == IF sites = <<>> THEN s
                     ELSE SetSelectedPath(s, Selected("site", sites[1].id))
  IN IF FormSiteId(s, regionId) # 0 THEN s ELSE Pick(SitesInRegion(s, regionId))

(* The mode the user chose, else users when there are any. *)
SiteModeOf(s, t) ==
  IF t.id \in DOMAIN s.ui.siteMode THEN s.ui.siteMode[t.id]
  ELSE IF t.f.users # Undef THEN "users" ELSE "manual"

(* The marked fields that hold a value, with their values. *)
OverridesForDerive(s, t) ==
  [x \in {y \in OverridesOf(s, t.id) : t.f[y] # Undef} |-> t.f[x]]

FormDerives(s, t) == SiteModeOf(s, t) = "users" /\ t.f.users > 0

(* Mutant: the timer does not depend on the overrides. *)
DeriveKeyUsersOnly(s, siteId) ==
  LET Of(t) == <<siteId, IF SiteModeOf(s, t) = "users" THEN t.f.users ELSE Undef>>
  IN IF siteId = 0 THEN <<>> ELSE Of(FindSite(s.core, siteId))

(* What the derive timer depends on: it is restarted whenever this changes.*)
DeriveKey(s, siteId) ==
  LET Of(t) == <<siteId, IF SiteModeOf(s, t) = "users" THEN t.f.users ELSE Undef,
                 OverridesForDerive(s, t)>>
  IN IF siteId = 0 THEN <<>> ELSE Of(FindSite(s.core, siteId))

Derived(s, t) == DeriveFromUsers(t.f.users, OverridesForDerive(s, t))

(* A field that is not set is read from a fresh derivation, when the site  *)
(* has users, or as zero.                                                  *)
Completed(t, given) ==
  LET Fill(d) == [x \in NumberFields |->
                    IF t.f[x] # Undef THEN t.f[x] ELSE IF x \in DOMAIN d THEN d[x] ELSE 0]
  IN Fill(IF t.f.users > 0 THEN DeriveFromUsers(t.f.users, given) ELSE <<>>)

LivePreview(s, t) ==
  LET Of(f) == [qps |-> f.qps, lps |-> f.lps, objects |-> f.dnsRecords + 2 * f.dhcpScopes]
  IN Of(Completed(t, OverridesForDerive(s, t)))

SiteLoad(t) ==
  LET Of(f) == [qps |-> f.qps, lps |-> f.lps,
                objects |-> f.networksPerSite + f.dnsZones + f.dhcpScopes]
  IN Of(Completed(t, <<>>))

TierOf(load) == PickServerTier(load.qps, load.lps, load.objects).name

(* The tier for the site of a row; a site that is gone has no load.        *)
Recommended(s, siteId) ==
  TierOf(IF siteId \in SiteIds(s.core) THEN SiteLoad(FindSite(s.core, siteId))
         ELSE [qps |-> 0, lps |-> 0, objects |-> 0])

(* Rows whose tier was not picked by hand follow the recommendation.       *)
AutoTier(s) ==
  LET Follow(n) == IF n.tierManual \/ n.siteId = 0 THEN n
                   ELSE [n EXCEPT !.tierName = Recommended(s, n.siteId)]
  IN [s EXCEPT !.core.niosx = Map(Follow, @)]

(* The security section fills the asset counts in when it appears enabled, *)
(* never filled before, and empty.                                         *)
AutoFillSecurity(s) ==
  LET sec == s.core.security
      filled == s.ui.securityAutoFilled
  IN IF /\ sec.securityEnabled
        /\ ~filled.tdVerifiedAssets /\ ~filled.tdUnverifiedAssets
        /\ sec.tdVerifiedAssets = 0 /\ sec.tdUnverifiedAssets = 0
     THEN SecurityRecalcFromSites(s) ELSE s
=============================================================================
