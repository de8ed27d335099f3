----------------------------- MODULE TokenTiers -----------------------------
(***************************************************************************)
(* The server tiers (shared/token-tiers.ts): what load each takes and what *)
(* it costs.                                                               *)
(***************************************************************************)
EXTENDS Helpers

Tier(name, maxQps, maxLps, maxObjects, tokens) ==
  [name |-> name, maxQps |-> maxQps, maxLps |-> maxLps, maxObjects |-> maxObjects,
   serverTokens |-> tokens]

ServerTokenTiers ==
  <<Tier("2XS", 5000, 75, 3000, 130), Tier("XS", 10000, 150, 7500, 250),
    Tier("S", 20000, 200, 29000, 470), Tier("M", 40000, 300, 110000, 880),
    Tier("L", 70000, 400, 440000, 1900), Tier("XL", 115000, 675, 880000, 2700)>>

XaasTokenTiers ==
  <<Tier("S", 20000, 200, 29000, 2400), Tier("M", 40000, 300, 110000, 4100),
    Tier("L", 70000, 400, 440000, 6100), Tier("XL", 115000, 675, 880000, 8500)>>

(* Connections a service point of each tier can take. *)
XaasMaxConnections == [S |-> 10, M |-> 20, L |-> 35, XL |-> 85]

ExtraConnectionCost == 100

MaxExtraConnections == 400

Covers(t, qps, lps, objects) == t.maxQps >= qps /\ t.maxLps >= lps /\ t.maxObjects >= objects

(* The first tier that covers the load, or else the largest. *)
PickTier(tiers, qps, lps, objects) ==
  LET Fitting == SelectSeq(tiers, LAMBDA t : Covers(t, qps, lps, objects))
  IN Head(Append(Fitting, tiers[Len(tiers)]))

PickServerTier(qps, lps, objects) == PickTier(ServerTokenTiers, qps, lps, objects)

TierNames == {ServerTokenTiers[i].name : i \in DOMAIN ServerTokenTiers}

(* The tier of that name costs this much; an unknown one costs nothing.    *)
TokensOf(tiers, name) ==
  LET named == {i \in DOMAIN tiers : tiers[i].name = name}
  IN IF named = {} THEN 0 ELSE tiers[CHOOSE i \in named : TRUE].serverTokens
=============================================================================
