--------------------------- MODULE EstimatorCalc ---------------------------
(***************************************************************************)
(* The questionnaire of the old manual estimator, which session files      *)
(* still carry, and the reporting tokens derived from its log volume       *)
(* (estimator-calc.ts).  Answers are                                       *)
(*   [ips, dhcpPct, ipam, dns, dnsLog, dhcp, dhcpLog, sites, networks,     *)
(*    assets, servers]                                                     *)
(* with whole percents and assets Undef when not given; a server is        *)
(*   [formFactor, tier, qps, lps, objects], tier "" when none is fixed.    *)
(* The log volume of DHCP is a fraction of an event in the code when       *)
(* ips * dhcpPct is no multiple of 100; here it is a whole number.         *)
(***************************************************************************)
EXTENDS ServerCalc

EstimatorDefaults ==
  [ips |-> 1000, dhcpPct |-> 80, ipam |-> TRUE, dns |-> TRUE, dnsLog |-> FALSE,
   dhcp |-> TRUE, dhcpLog |-> FALSE, sites |-> 1, networks |-> 4, assets |-> Undef,
   servers |-> <<>>]

DynamicClients(a) == CeilDiv(a.ips * a.dhcpPct, 100)
StaticClients(a) == a.ips - DynamicClients(a)

QueriesPerDay == 3500

MonthlyLogVolume(a) ==
  (IF a.dnsLog THEN QueriesPerDay * (31 * StaticClients(a) + 22 * DynamicClients(a)) ELSE 0)
  + (IF a.dhcpLog /\ a.ipam THEN (19 * 22 * a.ips * a.dhcpPct) \div 100 ELSE 0)

(* A fixed tier stands for its limits. *)
ResolveServerEntryValues(e) ==
  LET tiers == IF e.formFactor = "nios-xaas" THEN XaasTokenTiers ELSE ServerTokenTiers
      named == Keep(tiers, LAMBDA t : t.name = e.tier)
  IN IF e.tier # "" /\ named # <<>>
     THEN [qps |-> named[1].maxQps, lps |-> named[1].maxLps, objects |-> named[1].maxObjects]
     ELSE [qps |-> e.qps, lps |-> e.lps, objects |-> e.objects]

EntriesOf(a) ==
  [niosX |-> Map(ResolveServerEntryValues, Keep(a.servers, LAMBDA e : e.formFactor = "nios-x")),
   xaas  |-> Map(ResolveServerEntryValues, Keep(a.servers, LAMBDA e : e.formFactor = "nios-xaas"))]

EstimatorServerTokens(a) == IF a.servers = <<>> THEN 0 ELSE SplitTokens(EntriesOf(a))

-----------------------------------------------------------------------------
(* Where the logs go, in tokens per ten million events; local syslog is    *)
(* only displayed.                                                         *)
ReportingRates == [csp |-> 80, s3 |-> 40, ecosystem |-> 40, localSyslog |-> 0]

Destinations == DOMAIN ReportingRates

(* The wizard keeps the events of the ecosystem at 40 percent of the logs. *)
EcosystemEvents(a) == RoundDiv(2 * MonthlyLogVolume(a), 5)

ReportingBreakdown(events, enabled) ==
  [d \in Destinations |-> IF enabled[d] THEN CeilDiv(events[d], 10000000) * ReportingRates[d] ELSE 0]

CalcReportingTokens(events, enabled, growth) ==
  LET breakdown == ReportingBreakdown(events, enabled)
  IN Grow(MapThenSumSet(LAMBDA d : breakdown[d], Destinations), growth)

(* Nothing is reported while nothing is logged. *)
ReportingTokens(a, events, enabled, growth) ==
  IF MonthlyLogVolume(a) <= 0 THEN 0 ELSE CalcReportingTokens(events, enabled, growth)
=============================================================================
