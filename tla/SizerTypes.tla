----------------------------- MODULE SizerTypes -----------------------------
(***************************************************************************)
(* The data of the manual Sizer of the browser application: the tree       *)
(* Region > Country > City > Site, the appliances placed on it, and the    *)
(* slice of interface state kept beside it (sizer-types.ts,                *)
(* sizer-state.ts).  The walks over the tree that every other Sizer file   *)
(* repeats are defined here once.                                          *)
(*                                                                         *)
(* Identifiers are natural numbers handed out in order: newId() is a       *)
(* random UUID, of which the program only uses that it is new.  A number   *)
(* field that is not set is Undef.  Fractions (growth buffer, overheads,   *)
(* DHCP share) are whole percents.                                         *)
(***************************************************************************)
EXTENDS Helpers

(* A name is a base text, the number appended by the automatic numbering,  *)
(* the suffixes after it (n for a clone, -n for a row of the report), and  *)
(* how it is spelled relative to the imported text: identical, in another  *)
(* letter case, or with surrounding blanks.                                *)
Name == [base : STRING, n : Nat, copies : Seq(Int), sp : {"exact", "case", "blank"}]

Named(base, n) == [base |-> base, n |-> n, copies |-> <<>>, sp |-> "exact"]

UNASSIGNED == Named("(Unassigned)", 0)

RegionTypes == {"on-premises", "aws", "azure", "gcp"}

(* The fields of a Site that the derive engine can fill in. *)
DeriveFields == {"activeIPs", "qps", "assets", "networksPerSite", "dnsZones",
                 "dhcpScopes", "dhcpPct", "avgLeaseDuration", "lps"}

(* A user may override every derived field; the split of the assets is     *)
(* derived too but cannot be overridden.                                   *)
SplitFields == {"verifiedAssets", "unverifiedAssets"}

(* Fields of a Site that hold a number, set or not. *)
NumberFields == DeriveFields \union SplitFields \union {"users", "dnsRecords", "qpsPerIP"}

Site == [f : [NumberFields -> OptNat], id : Nat, name : Name, multiplier : Nat]

City == [id : Nat, name : Name, sites : Seq(Site)]

Country == [id : Nat, name : Name, cities : Seq(City)]

Region == [id : Nat, name : Name, type : RegionTypes,
           cloudNativeDns : BOOLEAN, countries : Seq(Country)]

FormFactors == {"nios-x", "nios-xaas"}

(* siteId 0 is the empty string: not assigned.  imported holds the load    *)
(* metrics tunnelled from a scan, reduced to whether there are any.        *)
NiosXSystem == [id : Nat, name : Name, siteId : Nat, formFactor : FormFactors,
                tierName : STRING, tierManual : BOOLEAN, imported : BOOLEAN]

XaasServicePoint == [id : Nat, name : Name, regionId : Nat, tierName : STRING,
                     connections : Nat, connectedSiteIds : Seq(Nat),
                     connectivity : {"vpn", "tgw"}]

SecurityInputs == [securityEnabled : BOOLEAN, socInsightsEnabled : BOOLEAN,
                   tdVerifiedAssets : Nat, tdUnverifiedAssets : Nat,
                   dossierQueriesPerDay : Nat, lookalikeDomainsMentioned : Nat]

OverheadKinds == {"mgmt", "server", "reporting", "security"}

(* The optional switches of the settings step.  unset is undefined.        *)
ToggleKeys == {"ipamEnabled", "dnsEnabled", "dhcpEnabled", "dnsLoggingEnabled",
               "dhcpLoggingEnabled", "reportingCsp", "reportingS3", "reportingCdc",
               "reportingLocalSyslog"}

GlobalSettings == [growthBuffer : Nat, growthBufferAdvanced : BOOLEAN,
                   overhead : [OverheadKinds -> OptNat],
                   toggle : [ToggleKeys -> {"unset", "on", "off"}]]

SizerCore == [regions : Seq(Region), globalSettings : GlobalSettings,
              security : SecurityInputs, niosx : Seq(NiosXSystem),
              xaas : Seq(XaasServicePoint)]

(* What is selected: a node of the tree, nothing, or the dot-path of an    *)
(* issue (kind "issue"), which the two step views do not parse.            *)
Selections == [kind : {"none", "region", "country", "city", "site", "issue"}, id : Nat]

NoSelection == [kind |-> "none", id |-> 0]

Selected(kind, id) == [kind |-> kind, id |-> id]

Sections == {"modules", "growth", "security"}

(* Only derived fields are marked as overridden. *)
AreMarks(marks) == \A id \in DOMAIN marks : marks[id] \subseteq DeriveFields

(* Maps keyed by node id are functions: a key that is absent from the      *)
(* JavaScript object is outside the DOMAIN.                                *)
IsUI(ui) ==
  /\ ui.activeStep \in 1..4
  /\ ui.selectedPath \in Selections
  /\ \A id \in DOMAIN ui.siteMode : id \in Nat /\ ui.siteMode[id] \in {"users", "manual"}
  /\ DOMAIN ui.siteOverrides \subseteq Nat /\ AreMarks(ui.siteOverrides)
  /\ \A id \in DOMAIN ui.expandedNodes : id \in Nat /\ ui.expandedNodes[id] \in BOOLEAN
  /\ ui.dismissedCodes \in Seq(STRING)
  /\ ui.sectionsOpen \in [Sections -> BOOLEAN]
  /\ ui.growthBufferAdvanced \in BOOLEAN
  /\ ui.securityAutoFilled \in [{"tdVerifiedAssets", "tdUnverifiedAssets"} -> BOOLEAN]

IsFullState(s) == s.core \in SizerCore /\ IsUI(s.ui)

UIFields == {"activeStep", "selectedPath", "siteMode", "siteOverrides", "expandedNodes",
             "dismissedCodes", "sectionsOpen", "growthBufferAdvanced", "securityAutoFilled"}

CoreFields == {"regions", "globalSettings", "security", "niosx", "xaas"}

(* A record of a core and an interface state that shows one of the steps.  *)
IsStateAt(s, steps) ==
  /\ s = [x \in {"core", "ui"} |-> s[x]]
  /\ s.core = [x \in CoreFields |-> s.core[x]]
  /\ s.ui = [x \in UIFields |-> s.ui[x]]
  /\ s.ui.activeStep \in steps

-----------------------------------------------------------------------------
(* Walks over the tree. *)

CitiesOf(country) == country.cities

CitySites(country) == FlattenSeq(Map(LAMBDA ct : ct.sites, country.cities))

RegionSites(r) == FlattenSeq(Map(CitySites, r.countries))

(* allSites, flattenSites, flattenRegionSites, walkSites: every Site in    *)
(* the order of the tree.                                                  *)
AllSites(core) == FlattenSeq(Map(RegionSites, core.regions))

AllCountries(core) == FlattenSeq(Map(LAMBDA r : r.countries, core.regions))

AllCities(core) == FlattenSeq(Map(CitiesOf, AllCountries(core)))

IdsOf(seq) == {seq[i].id : i \in DOMAIN seq}

SiteIds(core) == IdsOf(AllSites(core))

NodeIds(core) == [region |-> IdsOf(core.regions), country |-> IdsOf(AllCountries(core)),
                  city |-> IdsOf(AllCities(core)), site |-> SiteIds(core)]

(* What is selected, if it is a node, is one of the tree. *)
Resolves(s) ==
  LET In(sel, ids) == sel.kind \in DOMAIN ids => sel.id \in ids[sel.kind]
  IN In(s.ui.selectedPath, NodeIds(s.core))

RegionHasAnySite(r) == \E i \in DOMAIN r.countries : CitySites(r.countries[i]) # <<>>

(* The site a lookup by id returns: the first in tree order. *)
FindSite(core, id) == FirstWhere(AllSites(core), LAMBDA t : t.id = id)

MapCountries(r, F(_)) == [r EXCEPT !.countries = Map(F, r.countries)]

WithRegions(s, regions) == [s EXCEPT !.core.regions = regions]

MapRegions(s, F(_)) == WithRegions(s, Map(F, s.core.regions))
=============================================================================
