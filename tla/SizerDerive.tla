---------------------------- MODULE SizerDerive ----------------------------
(***************************************************************************)
(* The derive engine of the Sizer and its projections (sizer-derive.ts):   *)
(* the fields of a site that follow from its users, and the shapes the     *)
(* shared report takes from a Sizer state.                                 *)
(***************************************************************************)
EXTENDS SizerCalc

(* assetsPerUser in halves, verified in percent. *)
UserTiers == <<[maxUsers |-> 1249, assetsPerUser |-> 4, verified |-> 22],
               [maxUsers |-> 2499, assetsPerUser |-> 4, verified |-> 11],
               [maxUsers |-> 4999, assetsPerUser |-> 4, verified |-> 38],
               [maxUsers |-> 9999, assetsPerUser |-> 3, verified |-> 19]>>

TopTier == [assetsPerUser |-> 2, verified |-> 18]

TierFor(users) ==
  IF users > UserTiers[Len(UserTiers)].maxUsers THEN TopTier
  ELSE FirstWhere(UserTiers, LAMBDA t : users <= t.maxUsers)

(* given: the overridden fields with their values.  An override also feeds *)
(* the fields computed after it.                                           *)
FromUsers(users, tier) ==
  [activeIPs |-> CeilDiv(3 * users, 2), qps |-> CeilDiv(16 * users, 5),
   assets |-> RoundDiv(users * tier.assetsPerUser, 2),
   networksPerSite |-> Larger(1, CeilDiv(users, 250)),
   dnsZones |-> Larger(1, CeilDiv(users, 500)),
   dhcpPct |-> DefaultDhcpPct, avgLeaseDuration |-> 1]

(* b: the fields computed so far, which the others follow from *)
Complete(b, verified, given) ==
  LET rest == Patched([verifiedAssets |-> verified, unverifiedAssets |-> b.assets - verified,
                       dhcpScopes |-> b.networksPerSite,
                       lps |-> Larger(1, CeilDiv(b.activeIPs * b.dhcpPct,
                                                 100 * b.avgLeaseDuration * 3600))], given)
  IN [x \in DeriveFields \union SplitFields |-> IF x \in DOMAIN b THEN b[x] ELSE rest[x]]

DeriveFromUsers(users, given) ==
  LET Split(b, tier) == Complete(b, RoundDiv(b.assets * tier.verified, 100), given)
      With(tier) == Split(Patched(FromUsers(users, tier), given), tier)
  IN With(TierFor(users))

ReportingToggles(core) ==
  LET On(k) == core.globalSettings.toggle[k] = "on"
  IN [csp |-> On("reportingCsp"), s3 |-> On("reportingS3"), cdc |-> On("reportingCdc"),
      dns |-> On("dnsLoggingEnabled"), dhcp |-> On("dhcpLoggingEnabled")]

(* The totals the report shows. *)
DeriveSizerResults(core) ==
  LET Overhead(k) == ResolveOverhead(core, k)
  IN [management |-> CalculateManagementTokens(AllSites(core), Overhead("mgmt")),
      server |-> CalculateServerTokens(core.niosx, core.xaas, Overhead("server")),
      reporting |-> CalculateReportingTokens(AllSites(core), Overhead("reporting"),
                                             ReportingToggles(core)),
      security |-> CalculateSecurityTokens(core.security, Overhead("security"))]

(* Mutant: the rows leave the overhead out. *)
SiteFindingsBare(core) ==
  Map(LAMBDA t : [source |-> t.name, tokens |-> CalculateManagementTokens(<<t>>, 0)],
      Keep(AllSites(core), LAMBDA t : CalculateManagementTokens(<<t>>, 0) > 0))

(* One row per site that needs tokens, for the list by source. *)
BuildSizerSiteFindings(core) ==
  LET Mgmt(t) == CalculateManagementTokens(<<t>>, ResolveOverhead(core, "mgmt"))
  IN Map(LAMBDA t : [source |-> t.name, tokens |-> Mgmt(t)],
         Keep(AllSites(core), LAMBDA t : Mgmt(t) > 0))

(* The last site of that id, as a map filled in tree order has it. *)
SiteOfId(core, id) ==
  LastWhere(AllSites(core), LAMBDA t : t.id = id)

(* Management tokens if the named systems, or all of them, are migrated.   *)
ComputeSizerMgmtScenarios(core, migrating) ==
  LET ids == {n.siteId : n \in {m \in Range(core.niosx) : m.name \in migrating}}
      Cost(sites) == CalculateManagementTokens(sites, ResolveOverhead(core, "mgmt"))
  IN [current |-> 0, hybrid |-> Cost(Keep(AllSites(core), LAMBDA t : t.id \in ids)),
      full |-> Cost(AllSites(core))]

(* Rows that share a name get " #1", " #2", ... in their order. *)
UniqueNames(niosx) ==
  LET Same(i) == {j \in DOMAIN niosx : niosx[j].name = niosx[i].name}
      Numbered(name, k) == [name EXCEPT !.copies = Append(@, -k)]
  IN [i \in DOMAIN niosx |->
        IF Same(i) = {i} THEN niosx[i].name
        ELSE Numbered(niosx[i].name, Cardinality({j \in Same(i) : j <= i}))]

(* Mutant: the share of a member is rounded down. *)
MemberLoadFloor(t, mgmt, peers) ==
  [qps |-> Or(t.f.qps, 0), lps |-> Or(t.f.lps, 0), objectCount |-> DdiObjects(t),
   activeIPCount |-> Or(t.f.activeIPs, 0), managementTokens |-> mgmt \div peers]

(* The rows of step 3 in the shape of scanned members; the management      *)
(* tokens of a site are shared out over its members, rounded up.           *)
MemberLoad(t, mgmt, peers) ==
  [qps |-> Or(t.f.qps, 0), lps |-> Or(t.f.lps, 0), objectCount |-> DdiObjects(t),
   activeIPCount |-> Or(t.f.activeIPs, 0), managementTokens |-> CeilDiv(mgmt, peers)]

NoLoad == [qps |-> 0, lps |-> 0, objectCount |-> 0, activeIPCount |-> 0,
           managementTokens |-> Undef]

DeriveMembersFromNiosx(core) ==
  LET Peers(n) == Len(Keep(core.niosx, LAMBDA m : m.siteId = n.siteId))
      At(t, n) == MemberLoad(t, CalculateManagementTokens(<<t>>, ResolveOverhead(core, "mgmt")),
                             Peers(n))
      Load(n) == IF n.siteId \in SiteIds(core) THEN At(SiteOfId(core, n.siteId), n) ELSE NoLoad
      Members(names) == [i \in DOMAIN core.niosx |->
                           [id |-> core.niosx[i].id, name |-> names[i]] @@ Load(core.niosx[i])]
  IN Members(UniqueNames(core.niosx))
=============================================================================
