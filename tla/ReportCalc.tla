----------------------------- MODULE ReportCalc -----------------------------
(***************************************************************************)
(* The management tokens of a report (scenario-parity.ts, the rates and    *)
(* helpers of mock-data.ts, and the Microsoft allocation of                *)
(* ms-allocation-panel.tsx).                                               *)
(*                                                                         *)
(* A row of the report is a record                                         *)
(*   [provider, source, region, item, category, count, per, tokens]        *)
(* where per is its tokensPerUnit and tokens its managementTokens.  A      *)
(* migration map is a function from the names that migrate to a form       *)
(* factor.  Growth is a whole percentage, and its ceilings are those of    *)
(* the double-precision products the code takes.                           *)
(***************************************************************************)
EXTENDS TokenTiers, FiniteSets, FiniteSetsExt

Categories == {"ddi", "ip", "asset"}

(* Units per management token: Universal DDI, and traditional NIOS.        *)
TOKEN_RATES == [ddi |-> 25, ip |-> 13, asset |-> 3]
NIOS_TOKEN_RATES == [ddi |-> 50, ip |-> 25, asset |-> 13]

(* ... + growth, rounded up from a double. *)
Grow(v, pct) == CeilGrown(v, pct)

CalcTokens(category, count) == CeilDiv(count, TOKEN_RATES[category])

Counted(rows, category) ==
  Sum(LAMBDA r : r.count, Keep(rows, LAMBDA r : r.category = category))

(* The counts of a category are added first and divided once.              *)
CalcUddiTokensAggregated(rows) ==
  MapThenSumSet(LAMBDA c : CalcTokens(c, Counted(rows, c)), Categories)

-----------------------------------------------------------------------------
(* One exact fractional pool per category over the rates of its rows,      *)
(* brought to a common denominator; a row without a rate has the native    *)
(* one.                                                                    *)
PooledTokens(rows, Rate(_)) ==
  LET Priced(r) == IF Rate(r) > 0 THEN Rate(r) ELSE TOKEN_RATES[r.category]
      Pool(c) == LET own == Keep(rows, LAMBDA r : r.category = c)
                     common == ProductSet({Priced(own[i]) : i \in DOMAIN own})
                 IN CeilDiv(Sum(LAMBDA r : r.count * (common \div Priced(r)), own), common)
  IN MapThenSumSet(Pool, Categories)

CalcPooledTokensByCurrentRates(rows) == PooledTokens(rows, LAMBDA r : r.per)

CalcPooledTokensAtNativeRates(rows) == PooledTokens(rows, LAMBDA r : TOKEN_RATES[r.category])

(* Current, Hybrid and Full: the sources in "migrated" at native rates.    *)
(* Full, and a Hybrid of all NIOS sources, has no Microsoft allocation.    *)
CalculateManagementScenarioTotals(rows, migrated, delta, growth, allNios) ==
  LET Mixed(r) == IF r.provider = "nios" /\ r.source \in migrated
                  THEN TOKEN_RATES[r.category] ELSE r.per
      hybrid == IF allNios THEN CalcPooledTokensAtNativeRates(rows)
                ELSE PooledTokens(rows, Mixed) + delta.total
  IN [current |-> Grow(CalcPooledTokensByCurrentRates(rows) + delta.total, growth),
      hybrid  |-> Grow(hybrid, growth),
      full    |-> Grow(CalcPooledTokensAtNativeRates(rows), growth)]

Of(rows, provider) == Keep(rows, LAMBDA r : r.provider = provider)

ProvidersOf(rows) == {rows[i].provider : i \in DOMAIN rows}

(* Subtotals per provider; the allocation is part of NIOS.                 *)
BuildSelectedProviderTotals(rows, delta, growth) ==
  [p \in ProvidersOf(rows) |->
     Grow(CalcPooledTokensByCurrentRates(Of(rows, p)) + (IF p = "nios" THEN delta.total ELSE 0),
          growth)]

(* The breakdown by source: the rows' own rounded tokens, and the lines    *)
(* that reconcile them with the displayed total.                           *)
BuildReconciledSourceBreakdown(rows, pooled, delta, displayed) ==
  LET key(r) == <<r.provider, r.source>>
      keys == {key(rows[i]) : i \in DOMAIN rows}
      own(k) == Sum(LAMBDA r : r.tokens, Keep(rows, LAMBDA r : key(r) = k))
      sum == MapThenSumSet(own, keys)
      adjust == [pooling |-> pooled - sum, allocation |-> delta.total,
                 growth |-> displayed - (pooled + delta.total)]
  IN [sources |-> [k \in keys |-> own(k)],
      adjustments |-> [a \in {x \in DOMAIN adjust : adjust[x] # 0} |-> adjust[a]]]

-----------------------------------------------------------------------------
(* NIOS sources and the migration map. *)

IsGm(member) == member.role \in {"GM", "GMC"}

(* Every NIOS source of a row and every member, except a grid master that  *)
(* serves neither DNS nor DHCP.  The last member of a name counts.         *)
SelectableNiosScenarioSources(rows, members) ==
  LET named(s) == {i \in DOMAIN members : members[i].memberName = s}
      Portal(s) == named(s) # {} /\ LET m == members[Max(named(s))] IN IsGm(m) /\ ~m.runsDnsDhcp
  IN {s \in {r.source : r \in ToSet(Of(rows, "nios"))} \cup {m.memberName : m \in ToSet(members)} :
        ~Portal(s)}

AreAllSelectableNiosSourcesMigrated(sources, map) == sources # {} /\ sources \subseteq DOMAIN map

FilterNiosMigrationMap(sources, map) == [s \in sources \cap DOMAIN map |-> map[s]]

-----------------------------------------------------------------------------
(* Typed counts and the Microsoft allocation. *)

(* Not unique: rows of two regions can have one key. *)
FindingKey(r) == <<r.provider, r.source, r.item>>

EffectiveFindings(rows, counts) ==
  Map(LAMBDA r : IF FindingKey(r) \in DOMAIN counts
                 THEN LET n == counts[FindingKey(r)]
                      IN [r EXCEPT !.count = n,
                                   !.tokens = IF r.per > 0 THEN CeilDiv(n, r.per) ELSE 0]
                 ELSE r, rows)

HasNiosCountOverrides(counts) == \E key \in DOMAIN counts : key[1] = "nios"

ZeroDelta == [ddi |-> 0, ip |-> 0, asset |-> 0, total |-> 0]

SelectMSScenario(dns, dhcp) ==
  IF dns THEN IF dhcp THEN "both" ELSE "dns-only"
  ELSE IF dhcp THEN "dhcp-only" ELSE "none"

MSScenarios == {"none", "dns-only", "dhcp-only", "both"}

(* An allocation is [available, scenarios] with the tokens per category    *)
(* and the delta of each scenario the server computed.                     *)
MsAllocationDelta(allocation, selected) ==
  IF \/ ~allocation.available \/ selected = "none"
     \/ DOMAIN allocation.scenarios # MSScenarios
  THEN ZeroDelta
  ELSE LET chosen == allocation.scenarios[selected]
           none == allocation.scenarios["none"]
       IN [ddi |-> chosen.ddi - none.ddi, ip |-> chosen.ip - none.ip,
           asset |-> chosen.asset - none.asset, total |-> chosen.deltaTokens]
=============================================================================
