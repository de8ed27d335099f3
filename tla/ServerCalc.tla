----------------------------- MODULE ServerCalc -----------------------------
(***************************************************************************)
(* The server tokens of a report: typed metrics, the treatment of grid     *)
(* masters, and the consolidation of XaaS servers (nios-calc.ts,           *)
(* wizard-gm-status.ts), and the places that price a set of servers: the   *)
(* total, the hybrid scenario, the hero's breakdown, the NIOS and the AD   *)
(* planner with their calculators, and the exports.  Each of these places  *)
(* has its own copy of the pricing in the code; a copy is modelled by what *)
(* it selects and by SplitTokens, which all of them repeat.                *)
(*                                                                         *)
(* A NIOS member is [memberId, memberName, role, qps, lps, objectCount,    *)
(* serverObjectCount, runsDnsDhcp, model, platform], an AD server          *)
(* [hostname, qps, lps, dnsObjects, dhcpObjectsWithOverhead].  Overrides   *)
(* map an id to the fields typed for it; AD hosts share the map.           *)
(***************************************************************************)
EXTENDS ReportCalc, TLC

(* The scanner's count for sizing when it is positive.                     *)
ServerSizingObjects(m) == IF m.serverObjectCount > 0 THEN m.serverObjectCount ELSE m.objectCount

NoFields == <<>>

Typed(overrides, id) == IF id \in DOMAIN overrides THEN overrides[id] ELSE NoFields

OwnLoad(m) == [qps |-> m.qps, lps |-> m.lps, objects |-> ServerSizingObjects(m)]

OwnADLoad(m) == [qps |-> m.qps, lps |-> m.lps, objects |-> m.dnsObjects + m.dhcpObjectsWithOverhead]

ApplyServerOverrides(m, overrides) == Typed(overrides, m.memberId) @@ OwnLoad(m)

ApplyADServerOverrides(m, overrides) == Typed(overrides, m.hostname) @@ OwnADLoad(m)

(* Grid masters that stay, or that only manage, need no server.            *)
ResolveGmStatus(m, map) ==
  IF IsGm(m) /\ (m.memberName \notin DOMAIN map \/ ~m.runsDnsDhcp) THEN "none" ELSE "sized"

Sized(members, map) == Keep(members, LAMBDA m : ResolveGmStatus(m, map) = "sized")

NiosXTokens(load) == PickServerTier(load.qps, load.lps, load.objects).serverTokens

-----------------------------------------------------------------------------
(* Consolidation. *)

LargestXaas == XaasTokenTiers[Len(XaasTokenTiers)]

Weight(load) == load.qps + 100 * load.lps

(* Largest first; equal ones keep their order. *)
LargestFirst(loads) ==
  LET order == SetToSortSeq(DOMAIN loads,
                 LAMBDA i, j : \/ Weight(loads[i]) > Weight(loads[j])
                               \/ Weight(loads[i]) = Weight(loads[j]) /\ i < j)
  IN [k \in DOMAIN loads |-> loads[order[k]]]

EmptyInstance == [qps |-> 0, lps |-> 0, objects |-> 0, connections |-> 0]

Joined(inst, load) ==
  [qps |-> inst.qps + load.qps, lps |-> inst.lps + load.lps,
   objects |-> inst.objects + load.objects, connections |-> inst.connections + 1]

Exceeds(inst) ==
  \/ ~Covers(LargestXaas, inst.qps, inst.lps, inst.objects)
  \/ inst.connections > XaasMaxConnections[LargestXaas.name] + MaxExtraConnections

(* A server that no longer fits opens the next instance.                   *)
ConsolidateXaasInstances(loads) ==
  LET Add(done, load) ==
        IF done # <<>> /\ ~Exceeds(Joined(Last(done), load))
        THEN [done EXCEPT ![Len(done)] = Joined(@, load)]
        ELSE Append(done, Joined(EmptyInstance, load))
  IN FoldLeft(Add, <<>>, LargestFirst(loads))

(* The smallest tier that takes both the load and the connections, or the  *)
(* largest with extra connections.                                         *)
InstanceTier(inst) ==
  LET Fitting == Keep(XaasTokenTiers, LAMBDA t : /\ Covers(t, inst.qps, inst.lps, inst.objects)
                                                 /\ inst.connections <= XaasMaxConnections[t.name])
  IN Head(Append(Fitting, LargestXaas))

InstanceTokens(inst) ==
  LET tier == InstanceTier(inst)
  IN tier.serverTokens
     + ExtraConnectionCost * Larger(0, inst.connections - XaasMaxConnections[tier.name])

XaasTokens(loads) == Sum(InstanceTokens, ConsolidateXaasInstances(loads))

-----------------------------------------------------------------------------
(* A set of servers, split by form factor: NIOS-X one by one, XaaS pooled. *)

Target(map, name) == IF name \in DOMAIN map THEN map[name] ELSE "nios-x"

Split(servers, map, NameOf(_), Load(_)) ==
  [niosX |-> Map(Load, Keep(servers, LAMBDA m : Target(map, NameOf(m)) # "nios-xaas")),
   xaas  |-> Map(Load, Keep(servers, LAMBDA m : Target(map, NameOf(m)) = "nios-xaas"))]

SplitTokens(split) == Sum(NiosXTokens, split.niosX) + XaasTokens(split.xaas)

NiosTokensOf(members, map, overrides) ==
  SplitTokens(Split(members, map, LAMBDA m : m.memberName,
                    LAMBDA m : ApplyServerOverrides(m, overrides)))

ADTokensOf(dcs, map, overrides) ==
  SplitTokens(Split(dcs, map, LAMBDA m : m.hostname,
                    LAMBDA m : ApplyADServerOverrides(m, overrides)))

NoMap == <<>>

Migrating(members, map) == Keep(members, LAMBDA m : m.memberName \in DOMAIN map)

MigratingDcs(dcs, map) == Keep(dcs, LAMBDA m : m.hostname \in DOMAIN map)

Names(members) == {m.memberName : m \in ToSet(members)}

(* Members without a target of their own default to NIOS-X.                *)
FullNiosMap(members, map) == map @@ [s \in Names(members) |-> "nios-x"]

-----------------------------------------------------------------------------
(* What the report shows.  r holds what it is made of: providers, members, *)
(* dcs, migrate, adMigrate, servers (the overrides), estimator (server     *)
(* tokens), serverGrowth.                                                  *)

Has(r, provider) == provider \in r.providers

(* Before the growth: all NIOS members, all AD servers and the estimator.  *)
TotalNios(r) ==
  LET full == FullNiosMap(r.members, r.migrate)
  IN IF Has(r, "nios") THEN NiosTokensOf(Sized(r.members, full), full, r.servers) ELSE 0

(* A bug: also the servers that become XaaS are priced as NIOS-X.          *)
AllAsNiosX(r) == IF Has(r, "microsoft") THEN ADTokensOf(r.dcs, NoMap, r.servers) ELSE 0

(* Without a selected server, all of them as NIOS-X.                       *)
TotalAD(r) ==
  LET map == IF MigratingDcs(r.dcs, r.adMigrate) = <<>> THEN NoMap ELSE r.adMigrate
  IN IF Has(r, "microsoft") THEN ADTokensOf(r.dcs, map, r.servers) ELSE 0

TotalServerTokens(r) == Grow(TotalNios(r) + TotalAD(r) + r.estimator, r.serverGrowth)

HasServerMetrics(r) ==
  \/ Has(r, "nios") /\ r.members # <<>>
  \/ Has(r, "microsoft") /\ r.dcs # <<>>
  \/ r.estimator > 0

SelectedSources(r) ==
  SelectableNiosScenarioSources(r.rows, r.members) \cap DOMAIN r.migrate

HasNiosSelections(r) == Has(r, "nios") /\ SelectedSources(r) # {}
HasAdSelections(r) == Has(r, "microsoft") /\ MigratingDcs(r.dcs, r.adMigrate) # <<>>

HybridServerTokens(r) ==
  LET nios == Sized(Migrating(r.members, r.migrate), r.migrate)
      ad == MigratingDcs(r.dcs, r.adMigrate)
  IN Grow((IF HasNiosSelections(r) THEN NiosTokensOf(nios, r.migrate, r.servers) ELSE 0)
            + (IF HasAdSelections(r) THEN ADTokensOf(ad, r.adMigrate, r.servers) ELSE 0),
          r.serverGrowth)

(* buildHeroServerBreakdown: the tokens of its rows, of NIOS-X servers and *)
(* of XaaS instances.                                                      *)
HeroRows(split) == Map(NiosXTokens, split.niosX) \o Map(InstanceTokens, ConsolidateXaasInstances(split.xaas))

BuildHeroServerBreakdown(r) ==
  LET members == IF Has(r, "nios") THEN r.members ELSE <<>>
      dcs == IF Has(r, "microsoft") THEN r.dcs ELSE <<>>
      full == FullNiosMap(members, r.migrate)
  IN HeroRows(Split(Sized(members, full), full, LAMBDA m : m.memberName,
                    LAMBDA m : ApplyServerOverrides(m, r.servers)))
     \o HeroRows(Split(dcs, r.adMigrate, LAMBDA m : m.hostname,
                       LAMBDA m : ApplyADServerOverrides(m, r.servers)))

(* The cards of the NIOS planner. *)
PlannerServerScenarios(r) ==
  LET full == FullNiosMap(r.members, r.migrate)
  IN [current |-> 0,
      hybrid  |-> NiosTokensOf(Sized(Migrating(r.members, r.migrate), r.migrate), r.migrate, r.servers),
      full    |-> NiosTokensOf(Sized(r.members, full), full, r.servers)]

(* The calculator below them, and the member cards, are of the migrating   *)
(* members, or of all while none migrates.                                 *)
DisplayMembers(members, map) ==
  LET migrating == Sized(Migrating(members, map), map)
  IN IF migrating # <<>> THEN migrating ELSE Sized(members, map)

CalculatorTotal(r) == NiosTokensOf(DisplayMembers(r.members, r.migrate), r.migrate, r.servers)

(* The cards of the AD planner: its Full is of NIOS-X servers only.        *)
ADServerScenarios(r) ==
  [current |-> 0,
   hybrid  |-> ADTokensOf(MigratingDcs(r.dcs, r.adMigrate), r.adMigrate, r.servers),
   full    |-> ADTokensOf(r.dcs, NoMap, r.servers)]

(* The calculator below them counts map entries, also of hosts that are    *)
(* not in the report.                                                      *)
ADCalculatorTotal(r) ==
  ADTokensOf(IF DOMAIN r.adMigrate # {} THEN MigratingDcs(r.dcs, r.adMigrate) ELSE r.dcs,
             r.adMigrate, r.servers)

(* The server sections of the two exports: the selected members, or those  *)
(* with findings.                                                          *)
ExportedMembers(r) ==
  LET sources == {f.source : f \in ToSet(Of(r.rows, "nios"))}
  IN Sized(IF SelectedSources(r) # {} THEN Migrating(r.members, r.migrate)
           ELSE Keep(r.members, LAMBDA m : m.memberName \in sources), r.migrate)

ExportedNiosTokens(r) ==
  IF Has(r, "nios") THEN NiosTokensOf(ExportedMembers(r), r.migrate, r.servers) ELSE 0

ExportedADTokens(r) ==
  IF ~Has(r, "microsoft") THEN 0
  ELSE IF HasAdSelections(r) THEN ADTokensOf(MigratingDcs(r.dcs, r.adMigrate), r.adMigrate, r.servers)
       ELSE ADTokensOf(r.dcs, r.adMigrate, r.servers)
=============================================================================
