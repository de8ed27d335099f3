---------------------------- MODULE SizerReducer ----------------------------
(***************************************************************************)
(* The reducer of the Sizer (sizer-state.ts): one operator per action      *)
(* type, from the state s = [core, ui] to the next one.  Actions that      *)
(* create nodes take `id', the first unused identifier.                    *)
(***************************************************************************)
EXTENDS SizerImport

CONSTANT MaxClones    \* the limit of CLONE_SITE and of its pop-over (50)

ASSUME ClonesAssumption == MaxClones \in Nat \ {0}

DefaultUsers == 500

InitialSizerState ==
  [core |-> [regions |-> <<>>,
             globalSettings |-> [growthBuffer |-> 20, growthBufferAdvanced |-> FALSE,
                                 overhead |-> [k \in OverheadKinds |-> Undef],
                                 toggle |-> [k \in ToggleKeys |-> "unset"]],
             security |-> [securityEnabled |-> FALSE, socInsightsEnabled |-> FALSE,
                           tdVerifiedAssets |-> 0, tdUnverifiedAssets |-> 0,
                           dossierQueriesPerDay |-> 0, lookalikeDomainsMentioned |-> 0],
             niosx |-> <<>>, xaas |-> <<>>],
   ui |-> [activeStep |-> 1, selectedPath |-> NoSelection,
           siteMode |-> <<>>, siteOverrides |-> <<>>, expandedNodes |-> <<>>,
           dismissedCodes |-> <<>>, sectionsOpen |-> [x \in Sections |-> TRUE],
           growthBufferAdvanced |-> FALSE,
           securityAutoFilled |-> [tdVerifiedAssets |-> FALSE, tdUnverifiedAssets |-> FALSE]]]

-----------------------------------------------------------------------------
(* Immutable tree helpers. *)

EditCountries(s, F(_)) == MapRegions(s, LAMBDA r : MapCountries(r, F))

EditCities(s, F(_)) ==
  EditCountries(s, LAMBDA c : [c EXCEPT !.cities = Map(F, c.cities)])

(* The city the first occurrence of the site is in. *)
SiteCity(s, siteId) == FirstWhere(AllCities(s.core), LAMBDA ct : siteId \in IdsOf(ct.sites)).id

(* The node of that id is replaced. *)
InRegion(s, regionId, F(_)) == MapRegions(s, LAMBDA r : IF r.id = regionId THEN F(r) ELSE r)

InCountry(s, countryId, F(_)) ==
  EditCountries(s, LAMBDA c : IF c.id = countryId THEN F(c) ELSE c)

InCity(s, cityId, F(_)) == EditCities(s, LAMBDA ct : IF ct.id = cityId THEN F(ct) ELSE ct)

(* A patch holds new values of fields, here of a site and of its numbers.  *)
PatchSite(t, patch) == [Patched(t, patch) EXCEPT !.f = Patched(t.f, patch)]

NextSiteName(s) == Named("Site", Len(AllSites(s.core)) + 1)

NextRegionName(s) == Named("Region", Len(s.core.regions) + 1)

NextCountryName(s) == Named("Country", Len(AllCountries(s.core)) + 1)

NextCityName(s) == Named("City", Len(AllCities(s.core)) + 1)

DefaultSite(s, id) == NewSite(id, NextSiteName(s), [NoNumbers EXCEPT !.users = DefaultUsers])

-----------------------------------------------------------------------------
(* Hierarchy. *)

AddRegion(s, id) ==
  [s EXCEPT !.core.regions =
              Append(@, [id |-> id, name |-> NextRegionName(s), type |-> "on-premises",
                         cloudNativeDns |-> FALSE, countries |-> <<>>]),
            !.ui.selectedPath = Selected("region", id)]

UpdateRegion(s, regionId, patch) == InRegion(s, regionId, LAMBDA r : Patched(r, patch))

DeleteRegion(s, regionId) == WithRegions(s, Keep(s.core.regions, LAMBDA r : r.id # regionId))

AddCountry(s, regionId, id) ==
  InRegion(s, regionId, LAMBDA r :
    [r EXCEPT !.countries = Append(@, [id |-> id, name |-> NextCountryName(s), cities |-> <<>>])])

UpdateCountry(s, countryId, patch) == InCountry(s, countryId, LAMBDA c : Patched(c, patch))

DeleteCountry(s, countryId) ==
  MapRegions(s, LAMBDA r : [r EXCEPT !.countries = Keep(r.countries, LAMBDA c : c.id # countryId)])

AddCity(s, countryId, id) ==
  InCountry(s, countryId, LAMBDA c :
    [c EXCEPT !.cities = Append(@, [id |-> id, name |-> NextCityName(s), sites |-> <<>>])])

UpdateCity(s, cityId, patch) == InCity(s, cityId, LAMBDA ct : Patched(ct, patch))

DeleteCity(s, cityId) ==
  EditCountries(s, LAMBDA c : [c EXCEPT !.cities = Keep(c.cities, LAMBDA ct : ct.id # cityId)])

AddSites(s, cityId, sites) == InCity(s, cityId, LAMBDA ct : PutInCity(ct, sites))

(* Under a city, or under a region, whose missing levels are made up.      *)
AddSiteToCity(s, cityId, id) == AddSites(s, cityId, <<DefaultSite(s, id)>>)

AddSiteToRegion(s, regionId, id) ==
  InRegion(s, regionId, LAMBDA r : PutSites(r, <<DefaultSite(s, id)>>, id + 1))

(* Only the city of the first occurrence is rewritten. *)
UpdateSite(s, siteId, patch) ==
  LET One(t) == IF t.id = siteId THEN PatchSite(t, patch) ELSE t
      In(home) == InCity(s, home, LAMBDA ct : [ct EXCEPT !.sites = Map(One, ct.sites)])
  IN IF siteId \in SiteIds(s.core) THEN In(SiteCity(s, siteId)) ELSE s

DeleteSite(s, siteId) ==
  EditCities(s, LAMBDA ct : [ct EXCEPT !.sites = Keep(ct.sites, LAMBDA t : t.id # siteId)])

CloneCount(n) == IF n < 1 THEN 1 ELSE IF n > MaxClones THEN MaxClones ELSE n

(* The clones keep every field and the override marks of the original.     *)
Clones(orig, count, id) ==
  [i \in 1..count |-> [orig EXCEPT !.id = id + i - 1, !.name.copies = Append(@, i + 1)]]

CloneSite(s, siteId, n, id) ==
  IF siteId \notin SiteIds(s.core) THEN s
  ELSE LET marks == IF siteId \in DOMAIN s.ui.siteOverrides
                    THEN [c \in id..(id + CloneCount(n) - 1) |-> s.ui.siteOverrides[siteId]]
                    ELSE <<>>
       IN [AddSites(s, SiteCity(s, siteId), Clones(FindSite(s.core, siteId), CloneCount(n), id))
             EXCEPT !.ui.siteOverrides = Overlaid(@, marks)]

-----------------------------------------------------------------------------
(* Derived fields, modes and override marks. *)

OverridesOf(s, siteId) ==
  IF siteId \in DOMAIN s.ui.siteOverrides THEN s.ui.siteOverrides[siteId] ELSE {}

(* Mutant: the override marks are not looked at. *)
SiteDeriveAll(s, siteId, derived) == UpdateSite(s, siteId, derived)

(* A derived value goes into every field that carries no override mark.    *)
SiteDerive(s, siteId, derived) ==
  UpdateSite(s, siteId, [x \in DOMAIN derived \ OverridesOf(s, siteId) |-> derived[x]])

SiteSetMode(s, siteId, mode) ==
  [s EXCEPT !.ui.siteMode = Overlaid(@, [x \in {siteId} |-> mode])]

SiteMarkOverride(s, siteId, field) ==
  LET marks == OverridesOf(s, siteId) \union {field}
  IN [s EXCEPT !.ui.siteOverrides = Overlaid(@, [x \in {siteId} |-> marks])]

-----------------------------------------------------------------------------
(* Infrastructure. *)

(* "New NIOS-X n" with the first unused n beyond the number of systems.    *)
NextNiosxName(s) ==
  LET used == {n.name : n \in Range(s.core.niosx)}
      from == Len(s.core.niosx) + 1
      free == {n \in from..(from + Len(s.core.niosx)) : Named("New NIOS-X", n) \notin used}
  IN Named("New NIOS-X", CHOOSE n \in free : \A m \in free : n <= m)

AddNiosx(s, id) ==
  [s EXCEPT !.core.niosx =
     Append(@, [id |-> id, name |-> NextNiosxName(s), siteId |-> 0, formFactor |-> "nios-x",
                tierName |-> "M", tierManual |-> FALSE, imported |-> FALSE])]

UpdateNiosx(s, id, patch) ==
  [s EXCEPT !.core.niosx = Map(LAMBDA n : IF n.id = id THEN Patched(n, patch) ELSE n, @)]

DeleteNiosx(s, id) == [s EXCEPT !.core.niosx = Keep(@, LAMBDA n : n.id # id)]

AddXaas(s, regionId, id) ==
  [s EXCEPT !.core.xaas =
     Append(@, [id |-> id, name |-> Named("New Service Point", 0), regionId |-> regionId,
                tierName |-> "M", connections |-> 0, connectedSiteIds |-> <<>>,
                connectivity |-> "vpn"])]

UpdateXaas(s, id, patch) ==
  [s EXCEPT !.core.xaas = Map(LAMBDA x : IF x.id = id THEN Patched(x, patch) ELSE x, @)]

DeleteXaas(s, id) == [s EXCEPT !.core.xaas = Keep(@, LAMBDA x : x.id # id)]

-----------------------------------------------------------------------------
(* Settings and security. *)

SetGrowthBuffer(s, value) == [s EXCEPT !.core.globalSettings.growthBuffer = value]

SetOverhead(s, kind, value) == [s EXCEPT !.core.globalSettings.overhead[kind] = value]

ToggleGrowthAdvanced(s) ==
  [s EXCEPT !.core.globalSettings.growthBufferAdvanced = ~s.ui.growthBufferAdvanced,
            !.ui.growthBufferAdvanced = ~@]

SetModuleToggle(s, key, on) ==
  [s EXCEPT !.core.globalSettings.toggle[key] = IF on THEN "on" ELSE "off"]

(* Writing an asset count by hand takes its "filled in for you" mark away. *)
SetSecurity(s, patch) ==
  LET marked == s.ui.securityAutoFilled
  IN [s EXCEPT !.core.security = Patched(s.core.security, patch),
               !.ui.securityAutoFilled =
                   [k \in DOMAIN marked |-> marked[k] /\ k \notin DOMAIN patch]]

SecurityRecalcFromSites(s) ==
  LET Total(x) == Sum(LAMBDA t : (Or(t.f[x], 0)) * t.multiplier, AllSites(s.core))
      old == s.core.security
  IN [s EXCEPT !.core.security = [old EXCEPT !.tdVerifiedAssets = Total("verifiedAssets"),
                                             !.tdUnverifiedAssets = Total("unverifiedAssets")],
               !.ui.securityAutoFilled = [k \in DOMAIN @ |-> TRUE]]

-----------------------------------------------------------------------------
(* Interface state. *)

SetActiveStep(s, step) == [s EXCEPT !.ui.activeStep = step]

SetSelectedPath(s, path) == [s EXCEPT !.ui.selectedPath = path]

(* The entry is negated; a missing one counts as false. *)
ToggleNodeExpanded(s, id) ==
  LET opened == s.ui.expandedNodes
  IN [s EXCEPT !.ui.expandedNodes =
                 Overlaid(opened, [x \in {id} |-> ~(id \in DOMAIN opened /\ opened[id])])]

ToggleSection(s, section) == [s EXCEPT !.ui.sectionsOpen[section] = ~@]

DismissIssue(s, code) ==
  [s EXCEPT !.ui.dismissedCodes = IF Contains(@, code) THEN @ ELSE Append(@, code)]

UndismissIssue(s, code) ==
  [s EXCEPT !.ui.dismissedCodes = Keep(@, LAMBDA c : c # code)]

ImportScan(s, incoming, next) == MergeFullState(s, incoming, next)
=============================================================================
