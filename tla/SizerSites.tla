----------------------------- MODULE SizerSites -----------------------------
(***************************************************************************)
(* The forms of the Sizer: the site form of step 2 with its derive timer,  *)
(* the tiers of step 3, the settings of step 4, and the cells of the       *)
(* report that can be edited.  The state and the rules of a commit are     *)
(* those of SizerTree.                                                     *)
(*                                                                         *)
(* typed is a history variable: the last value the user typed into a field *)
(* of a site.                                                              *)
(***************************************************************************)
EXTENDS SizerTree

CONSTANTS Values,          \* the numbers a user may type
          Percents         \* the positions of a slider

VARIABLE typed

formVars == <<vars, typed>>

FormInit == Init /\ typed = <<>>

FormSite == FindSite(s.core, FormSiteId(s, region))

FormShown == StepShown(2) /\ FormSiteId(s, region) # 0

(* An outcome that also says what was typed: field x of site id, value v.  *)
Type(id, x, v, t) == {[edit |-> Outcome(t, 0), typed |-> [k \in {<<id, x>>} |-> v]]}

SetField(t, id, x, v) == UpdateSite(t, id, [y \in {x} |-> v])

-----------------------------------------------------------------------------
(* Step 2. *)

PickSite ==
  {Outcome(SetSelectedPath(s, Selected("site", id)), 0) : id \in IdsOf(SitesInRegion(s, region))}

RegionPill ==
  {Look(id, tab) : id \in IdsOf(s.core.regions) \ {region}}

(* Name, multiplier, mode and users.  Users are blank, or not negative.    *)
SiteForm(id) ==
  {Outcome(UpdateSite(s, id, [name |-> name]), 0) : name \in NewNames}
  \union {Outcome(UpdateSite(s, id, [multiplier |-> Larger(1, n)]), 0) : n \in Values}
  \union {Outcome(SiteSetMode(s, id, mode), 0) : mode \in {"users", "manual"}}

UsersField(id) == UNION {Type(id, "users", v, SetField(s, id, "users", v)) :
                         v \in Values \union {Undef}}

(* The fields of the two grids.  One that can be overridden is marked      *)
(* before it is written; clearing it leaves the mark.  A lease of zero,    *)
(* which makes the derived LPS infinite, is left out.                      *)
GridFields == (DeriveFields \ {"lps", "dhcpPct"}) \union SplitFields \union {"dnsRecords", "qpsPerIP"}

Marked(id, x) == IF x \in DeriveFields THEN SiteMarkOverride(s, id, x) ELSE s

Typeable == {p \in GridFields \X (Values \union {Undef}) : p # <<"avgLeaseDuration", 0>>}
            \union {"dhcpPct"} \X Percents

OnFieldEdit(id) ==
  UNION {Type(id, p[1], p[2], SetField(Marked(id, p[1]), id, p[1], p[2])) : p \in Typeable}

(* What was typed for the original was typed for its clones.               *)
TypedForClones(id, clones) ==
  LET fields == {k[2] : k \in {k \in DOMAIN typed : k[1] = id}}
  IN [k \in clones \X fields |-> typed[<<id, k[2]>>]]

ClonePopover(id) ==
  {[edit |-> Outcome(CloneSite(s, id, n, nextId), CloneCount(n)),
    typed |-> TypedForClones(id, nextId..(nextId + CloneCount(n) - 1))] : n \in 0..(MaxClones + 1)}

-----------------------------------------------------------------------------
(* Step 3: a tier picked by hand stays until its recommendation is taken.  *)

NiosXRow(n) ==
  {Outcome(UpdateNiosx(s, n.id, [tierName |-> tier, tierManual |-> TRUE]), 0) :
     tier \in TierNames}
  \union UNION {When(n.tierManual /\ n.siteId # 0 /\ n.tierName # tier,
                    Edit(UpdateNiosx(s, n.id, [tierName |-> tier, tierManual |-> FALSE]), 0)) :
               tier \in {Recommended(s, n.siteId)}}

(* The chosen site joins the sites served, or leaves them. *)
HandleSelect(served, id) ==
  IF Contains(served, id) THEN Keep(served, LAMBDA i : i # id) ELSE Append(served, id)

XaasCards(x) ==
  {[name |-> name] : name \in NewNames}
  \union {[tierName |-> tier] : tier \in DOMAIN XaasMaxConnections}
  \union {[connections |-> n] : n \in Values}
  \union {[connectivity |-> c] : c \in {"vpn", "tgw"}}
  \union {[connectedSiteIds |-> HandleSelect(x.connectedSiteIds, id)] : id \in SiteIds(s.core)}

XaasCard ==
  UNION {{Outcome(UpdateXaas(s, x.id, patch), 0) : patch \in XaasCards(x)} : x \in ShownXaas}

-----------------------------------------------------------------------------
(* Step 4. *)

SectionShell == {Outcome(ToggleSection(s, x), 0) : x \in Sections}

SectionGrowth ==
  {Outcome(SetGrowthBuffer(s, p), 0) : p \in Percents} \union Edit(ToggleGrowthAdvanced(s), 0)
  \union When(s.ui.growthBufferAdvanced,
             {Outcome(SetOverhead(s, k, p), 0) : k \in OverheadKinds, p \in Percents \union {Undef}})

(* A switch that was never touched shows a default of its own, and logging *)
(* can be switched only with its module on.                                *)
OnByDefault == {"ipamEnabled", "dnsEnabled", "dhcpEnabled", "reportingCsp"}

SwitchOn(k) == \/ s.core.globalSettings.toggle[k] = "on"
               \/ s.core.globalSettings.toggle[k] = "unset" /\ k \in OnByDefault

SectionModules ==
  {Outcome(SetModuleToggle(s, k, ~SwitchOn(k)), 0) :
     k \in {k \in ToggleKeys : /\ k = "dnsLoggingEnabled" => SwitchOn("dnsEnabled")
                              /\ k = "dhcpLoggingEnabled" => SwitchOn("dhcpEnabled")}}

SecurityNumbers == {"tdVerifiedAssets", "tdUnverifiedAssets", "dossierQueriesPerDay",
                    "lookalikeDomainsMentioned"}

SectionSecurity(sec) ==
  Edit(SetSecurity(s, [securityEnabled |-> ~sec.securityEnabled]), 0)
  \union When(sec.securityEnabled,
       Edit(SecurityRecalcFromSites(s), 0)
       \union {Outcome(SetSecurity(s, p), 0) :
                p \in {[socInsightsEnabled |-> ~sec.socInsightsEnabled]}
                     \union {k :> n : k \in SecurityNumbers, n \in Values}})

SizerStepSettings ==
  LET Open(x, outcomes) == When(s.ui.sectionsOpen[x], outcomes)
  IN SectionShell \union Open("growth", SectionGrowth) \union Open("modules", SectionModules)
     \union Open("security", SectionSecurity(s.core.security))

-----------------------------------------------------------------------------
(* The report: four numbers of a site can be edited in place, and no mark  *)
(* is set, so the value counts as typed only where one was set before.     *)
OnSiteEdit ==
  {[edit |-> Outcome(SetField(s, id, x, v), 0),
    typed |-> [k \in {<<id, x>>} \intersect DOMAIN typed |-> v]] :
     id \in SiteIds(s.core), x \in {"activeIPs", "users", "qps", "lps"}, v \in Values}

Untyped(outcomes) == {[edit |-> e, typed |-> <<>>] : e \in outcomes}

(* The form of one site. *)
FormEdits(t) ==
  Untyped(SiteForm(t.id))
  \union When(SiteModeOf(s, t) = "users", UsersField(t.id)) \union OnFieldEdit(t.id)
  \union ClonePopover(t.id)

Offered ==
  CASE page = "report" -> OnSiteEdit
    [] StepShown(2) -> Untyped(PickSite \union RegionPill)
                       \union UNION {FormEdits(t) : t \in When(FormShown, {FormSite})}
    [] StepShown(3) -> Untyped(When(tab = "niosx", UNION {NiosXRow(n) : n \in Range(s.core.niosx)})
                               \union When(tab = "xaas", XaasCard))
    [] StepShown(4) -> Untyped(SizerStepSettings)
    [] OTHER -> {}

EditForm ==
  /\ open /\ page # "scan"
  /\ \E e \in Offered : Do(e.edit) /\ typed' = Overlaid(typed, e.typed)

(* What was typed before the page was loaded again is not held against it. *)
Elsewhere == Next /\ typed' = IF open THEN typed ELSE <<>>

FormNext == EditForm \/ Elsewhere

FormSpec == FormInit /\ [][FormNext]_formVars /\ WF_vars(PersistTimer)

-----------------------------------------------------------------------------
(* Properties. *)

(* What the user typed into a site stays: the derive timer, the clones,    *)
(* the change of mode, and the moves between sites and steps while the     *)
(* timer runs never replace it.                                            *)
Overridable == DeriveFields \union {"users", "dnsRecords", "qpsPerIP"}

TypedValuesStay ==
  \A k \in DOMAIN typed :
    k[2] \in Overridable /\ k[1] \in SiteIds(s.core) => FindSite(s.core, k[1]).f[k[2]] = typed[k]

(* A form whose timer is not running shows derived values that are up to   *)
(* date with the users and the overrides, whatever led to it.              *)
DerivedFresh ==
  LET Fresh(t, d, marks) == \A x \in DeriveFields \ marks : t.f[x] = d[x]
      FreshSite(t) == FormDerives(s, t) => Fresh(t, Derived(s, t), OverridesOf(s, t.id))
  IN FormShown /\ ~derive => FreshSite(FormSite)

(* The list by source accounts for the total: no site that needs a token   *)
(* is left out, so the rows fall short of the management tokens of the     *)
(* report by at most the one token a double may add to their ceiling, and  *)
(* exceed them by the ceilings of each row at most.                        *)
SourcesCoverTotal ==
  LET Cover(rows, total, shown) == total <= shown + 1 /\ shown <= total + 6 * Len(rows)
      Covered(rows) == Cover(rows, DeriveSizerResults(s.core).management,
                             Sum(LAMBDA r : r.tokens, rows))
  IN page = "report" => Covered(BuildSizerSiteFindings(s.core))

(* Sharing the tokens of a site out over the members placed on it loses    *)
(* none, and migrating some members never costs more than migrating all.   *)
MembersCoverSites ==
  LET Placed(id) == {n.id : n \in {n \in Range(s.core.niosx) : n.siteId = id}}
      Mgmt(t) == CalculateManagementTokens(<<t>>, ResolveOverhead(s.core, "mgmt"))
      Shared(members, t) == Sum(LAMBDA m : m.managementTokens,
                                Keep(members, LAMBDA m : m.id \in Placed(t.id)))
      Shares(members) == \A t \in Range(AllSites(s.core)) :
                           Placed(t.id) # {} => Shared(members, t) >= Mgmt(t)
      Ordered(cost) == cost.hybrid <= cost.full
  IN page = "report" =>
       /\ Shares(DeriveMembersFromNiosx(s.core))
       /\ \A some \in SUBSET {n.name : n \in Range(s.core.niosx)} :
            Ordered(ComputeSizerMgmtScenarios(s.core, some))
=============================================================================
