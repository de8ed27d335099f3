----------------------------- MODULE SizerCalc -----------------------------
(***************************************************************************)
(* The token formulas of the Sizer (sizer-calc.ts): overheads are whole    *)
(* percents, a fraction is rounded where the code rounds it, and an amount *)
(* grows by a product of doubles, whose ceiling can be one too many.  Two  *)
(* formulas that no property reads are simpler than the code: those of     *)
(* reporting and threat defense multiply twice in floating point, which is *)
(* rounded here as one product.  The two large factors of the reporting    *)
(* formula, seconds per day and events per unit, are constants so that an  *)
(* instance can keep the same ratio in numbers TLC's integers can hold.    *)
(***************************************************************************)
EXTENDS SizerTypes, TokenTiers

CONSTANTS SecondsPerDay,   \* 86400
          QtyEvents        \* 10 million

WorkDaysPerMonth == 22

DaysPerMonth == 31

HoursPerWorkday == 9

MgmtRates == [ddi |-> 25, activeIP |-> 13, asset |-> 3]

ReportingRates == [csp |-> 80, s3 |-> 40, cdc |-> 40]

DefaultDhcpPct == 80

(* n tokens with a percentage on top, rounded up from a double. *)
Grown(n, percent) == CeilGrown(n, percent)

(* In the simple mode every category uses the growth buffer; in the        *)
(* advanced mode a category that was given its own value uses that.        *)
ResolveOverhead(core, kind) ==
  LET g == core.globalSettings
  IN IF g.growthBufferAdvanced THEN Or(g.overhead[kind], g.growthBuffer) ELSE g.growthBuffer

DdiObjects(t) == (Or(t.f.dnsRecords, 0) + 2 * Or(t.f.dhcpScopes, 0)) * t.multiplier

CalculateManagementTokens(sites, overhead) ==
  LET Total(x) == Sum(LAMBDA t : Or(t.f[x], 0) * t.multiplier, sites)
  IN Grown(CeilDiv(Sum(DdiObjects, sites), MgmtRates.ddi)
           + CeilDiv(Total("activeIPs"), MgmtRates.activeIP)
           + CeilDiv(Total("assets"), MgmtRates.asset), overhead)

ExtraConnections(x) ==
  IF x.tierName \in DOMAIN XaasMaxConnections
  THEN Larger(0, x.connections - XaasMaxConnections[x.tierName]) ELSE 0

CalculateServerTokens(niosx, xaas, overhead) ==
  Grown(Sum(LAMBDA n : TokensOf(ServerTokenTiers, n.tierName), niosx)
        + Sum(LAMBDA x : TokensOf(XaasTokenTiers, x.tierName)
                         + ExtraConnectionCost * ExtraConnections(x), xaas), overhead)

(* The DHCP clients of a site split by how many records they leave: in     *)
(* units of 1/1500 address.  When the records do not fit the addresses,    *)
(* one in five is taken to be static.                                      *)
SplitIPs(t) ==
  LET Split(d, dynamic) ==
        IF dynamic \in 0..(15 * d) THEN [static |-> 15 * d - dynamic, dynamic |-> dynamic]
        ELSE [static |-> 3 * d, dynamic |-> 12 * d]
      Of(d) == Split(d, 1000 * Or(t.f.dnsRecords, 0) - 20 * d)
  IN Of(Or(t.f.activeIPs, 0) * Or(t.f.dhcpPct, DefaultDhcpPct))

(* Log lines per month, in units of 1/(1500 * lease). *)
Lease(t) == Or(t.f.avgLeaseDuration, 1)

LogsOf(t, split, dns, dhcp) ==
  ((IF dns THEN Or(t.f.qps, 0) * SecondsPerDay * Lease(t)
                * (DaysPerMonth * split.static + WorkDaysPerMonth * split.dynamic) ELSE 0)
   + (IF dhcp THEN (Lease(t) + 2 * HoursPerWorkday) * WorkDaysPerMonth * split.dynamic ELSE 0))
  * t.multiplier

MonthlyLogs(t, dns, dhcp) == LogsOf(t, SplitIPs(t), dns, dhcp)

(* Units of QtyEvents begun, the leases brought to a common denominator.   *)
EventUnits(sites, dns, dhcp) ==
  LET Units(common) ==
        CeilDiv(Sum(LAMBDA t : MonthlyLogs(t, dns, dhcp) * (common \div Lease(t)), sites),
                1500 * common * QtyEvents)
  IN Units(FoldLeft(LAMBDA acc, t : acc * Lease(t), 1, sites))

(* Every destination that is switched on is paid for on its own. *)
CalculateReportingTokens(sites, overhead, on) ==
  LET Destination(k, units) == IF on[k] THEN Grown(units * ReportingRates[k], overhead) ELSE 0
      All(units) == Destination("csp", units) + Destination("s3", units) + Destination("cdc", units)
  IN All(EventUnits(sites, on.dns, on.dhcp))

(* Threat defense, dossier queries and lookalike domains; the last is      *)
(* rounded to the nearest token, the others up.                            *)
CalculateSecurityTokens(security, overhead) ==
  LET assets == 3 * (security.tdVerifiedAssets + security.tdUnverifiedAssets)
      factor == IF security.socInsightsEnabled THEN 135 ELSE 100
      cloud == CeilDiv(assets * factor * (100 + overhead), 10000)
      dossier == Grown(CeilDiv(security.dossierQueriesPerDay, 25) * 450, overhead)
      lookalikes == RoundDiv(CeilDiv(security.lookalikeDomainsMentioned, 25) * 1200
                             * (100 + overhead), 100)
  IN IF security.securityEnabled THEN cloud + dossier + lookalikes ELSE 0
=============================================================================
