---------------------------- MODULE MCScanReport ----------------------------
(* Instances of the results page for TLC. *)
EXTENDS ScanReport

Row(p, src, reg, it, cat, n, per) ==
  [provider |-> p, source |-> src, region |-> reg, item |-> it, category |-> cat, count |-> n,
   per |-> per, tokens |-> CeilDiv(n, per)]
NiosRow(src, cat, n) == Row("nios", src, "", cat, cat, n, NIOS_TOKEN_RATES[cat])
CloudRow(p, src, reg, cat, n) == Row(p, src, reg, cat, cat, n, TOKEN_RATES[cat])

Member(id, name, role, qps, lps, objects, runs, model, platform) ==
  [memberId |-> id, memberName |-> name, role |-> role, qps |-> qps, lps |-> lps, objectCount |-> objects,
   serverObjectCount |-> 0, runsDnsDhcp |-> runs, model |-> model, platform |-> platform]
Dc(name, qps, lps, objects) ==
  [hostname |-> name, qps |-> qps, lps |-> lps, dnsObjects |-> objects, dhcpObjectsWithOverhead |-> 10,
   serverTokens |-> 130]

(* A grid master that only manages, one that serves, and two members.      *)
GridMembers ==
  <<Member("0", "gm", "GM", 0, 0, 0, FALSE, <<"IB-", 4030>>, "Physical"),
    Member("1", "gmc", "GMC", 3000, 80, 2000, TRUE, <<"IB-V", 1526>>, "AWS"),
    [Member("2", "m2", "DNS", 21000, 100, 9000, TRUE, <<"IB-V", 926>>, "VMware")
       EXCEPT !.serverObjectCount = 12000]>>
(* The same grid on other hardware. *)
MovedMembers == [i \in 1..3 |-> [GridMembers[i] EXCEPT !.platform = "Azure"]]

(* What the server sums up (calculator.Calculate).                         *)
ServerAggregates(rows) == [c \in Categories |-> CalcPooledTokensByCurrentRates(InCategory(rows, c))]

GridRows == <<NiosRow("gm", "ddi", 30), NiosRow("gmc", "ddi", 70), NiosRow("m2", "ip", 40)>>
CloudRows == <<CloudRow("aws", "acct", "r1", "ddi", 13), CloudRow("aws", "acct", "r2", "ddi", 30),
               CloudRow("microsoft", "dc1", "", "asset", 7)>>

Delta4(d, i) == [ddi |-> d, ip |-> i, asset |-> 0, deltaTokens |-> d + i]
Allocation ==
  [available |-> TRUE, scenarios |-> ("none" :> Delta4(0, 0) @@ "dns-only" :> Delta4(2, 0) @@
                                      "dhcp-only" :> Delta4(1, 3) @@ "both" :> Delta4(3, 3))]

(* Errors name a provider as the server does. *)
ScanErrors(provs) ==
  {e \in {[provider |-> "aws", source |-> "acct"], [provider |-> "ad", source |-> "dc9"]} :
     Merge!ToFrontendProvider(e.provider) \in provs}

Answer(provs, rws, mems, hosts, alloc) ==
  [live |-> TRUE, providers |-> provs, rows |-> rws, aggregates |-> ServerAggregates(rws),
   members |-> mems, dcs |-> hosts, allocation |-> alloc,
   grid |-> IF "nios" \in provs THEN "flags" ELSE "none", errors |-> ScanErrors(provs)]

FullScan == Answer({"nios", "microsoft", "aws"}, GridRows \o CloudRows, GridMembers,
                   <<Dc("dc1", 3000, 40, 900), Dc("dc2", 30000, 250, 30000)>>, Allocation)
(* Other hardware, other members, no servers of AD. *)
LaterScan == [Answer({"nios", "microsoft"}, <<NiosRow("m2", "ip", 26), NiosRow("m3", "ddi", 51)>>,
                     MovedMembers, <<>>, NoAllocation) EXCEPT !.grid = "none", !.errors = {}]
(* A backup of which no member is known. *)
BareScan == Answer({"nios"}, GridRows, <<>>, <<>>, NoAllocation)
DemoScan == [Answer({"nios", "microsoft"}, <<NiosRow("mock1", "ddi", 51), CloudRow("microsoft", "DC01", "", "ip", 9)>>,
                    <<>>, <<>>, NoAllocation) EXCEPT !.live = FALSE, !.aggregates = NoAggregates]

(* Categories that grow by 10 percent to less than their total does: 40    *)
(* and 70 tokens to 44 and 77, with 122 in all.  And to more: 50 tokens    *)
(* each to 56, with 165 in all.                                            *)
ShortScan == Answer({"aws"}, <<CloudRow("aws", "acct", "r1", "ddi", 1000), CloudRow("aws", "acct", "r1", "ip", 910)>>,
                    <<>>, <<>>, NoAllocation)
LongScan == Answer({"aws"}, <<CloudRow("aws", "acct", "r1", "ddi", 1250), CloudRow("aws", "acct", "r1", "ip", 650),
                              CloudRow("aws", "acct", "r1", "asset", 150)>>, <<>>, <<>>, NoAllocation)

MCScans == {FullScan, LaterScan, BareScan, DemoScan, ShortScan, LongScan}

MCMockMembers == <<Member("9", "mock1", "DNS", 24500, 0, 10122, TRUE, <<"IB-V", 2215>>, "AWS")>>
MCMockDcs == <<Dc("DC01", 2800, 45, 1250)>>

(* A session of the old estimator: it logs, and needs two servers.         *)
OldSession ==
  [providers |-> {"estimator", "aws"}, rows |-> CloudRows, members |-> <<>>, dcs |-> <<>>,
   allocation |-> NoAllocation, grid |-> "none", errors |-> {},
   answers |-> [EstimatorDefaults EXCEPT !.dnsLog = TRUE, !.dhcpLog = TRUE, !.ips = 500, !.servers =
     <<[formFactor |-> "nios-x", tier |-> "", qps |-> 900, lps |-> 10, objects |-> 4000],
       [formFactor |-> "nios-xaas", tier |-> "M", qps |-> 0, lps |-> 0, objects |-> 0]>>],
   dests |-> [enabled |-> [AllOn EXCEPT !["s3"] = FALSE],
              events |-> [NoEvents EXCEPT !["csp"] = 25000000]],
   edits |-> BlankEdits]
MCFiles == {OldSession}

MCCounts == {0, 49}
MCLoads == {0, 50000}
MCPercents == {10, 150}
MCSearches == {{"m2", "dc2"}}
Texts == <<"DC01", "acct", "asset", "aws", "dc1", "ddi", "gm", "gmc", "ip", "m2", "m3", "microsoft",
           "mock1", "nios">>
MCCollation == [t \in ToSet(Texts) |-> CHOOSE i \in DOMAIN Texts : Texts[i] = t]

Nothing == [scans |-> 1, leaves |-> 0, saves |-> 0, opens |-> 0, count |-> 0, server |-> 0, nios |-> 0,
            ad |-> 0, growth |-> 0, microsoft |-> 0, variant |-> 0, view |-> 0, pings |-> 0]

(* The planners, saved and reopened. *)
PlanBudget == [Nothing EXCEPT !.nios = 2, !.ad = 1, !.variant = 1, !.saves = 1, !.leaves = 1, !.opens = 1]
(* Growth alone. *)
GrowthBudget == [Nothing EXCEPT !.growth = 1]
(* Counts and the allocation. *)
CountBudget == [Nothing EXCEPT !.count = 2, !.microsoft = 1]
(* Loads of servers that migrate. *)
ServerBudget == [Nothing EXCEPT !.server = 2, !.nios = 1, !.growth = 1]
(* Variants, and a second scan on top of what the first left. *)
RescanBudget == [Nothing EXCEPT !.scans = 2, !.leaves = 1, !.variant = 1, !.nios = 2, !.ad = 1, !.microsoft = 1]
(* Saved, left behind, another scan, and reopened. *)
SessionBudget == [Nothing EXCEPT !.scans = 2, !.leaves = 2, !.saves = 1, !.opens = 1, !.microsoft = 1,
                                 !.growth = 1, !.ad = 1]
TypedBudget == [Nothing EXCEPT !.leaves = 1, !.saves = 1, !.opens = 1, !.count = 1, !.server = 1]
(* Old sessions. *)
FileBudget == [Nothing EXCEPT !.scans = 0, !.opens = 2, !.leaves = 1, !.saves = 1, !.growth = 2, !.count = 1]
(* Filters, searches and orders, with bulk edits. *)
ViewBudget == [Nothing EXCEPT !.view = 2, !.nios = 1]
HostsBudget == [Nothing EXCEPT !.view = 1, !.ad = 2, !.count = 1]
(* The backend comes and goes. *)
PingBudget == [Nothing EXCEPT !.leaves = 1, !.pings = 2, !.saves = 1, !.opens = 1, !.ad = 1]

MCBudgets == {PlanBudget, GrowthBudget, CountBudget, ServerBudget, RescanBudget, SessionBudget, TypedBudget, FileBudget,
              ViewBudget, HostsBudget, PingBudget}
=============================================================================
