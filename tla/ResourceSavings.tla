-------------------------- MODULE ResourceSavings --------------------------
(***************************************************************************)
(* What migrating NIOS appliances frees (resource-savings.ts): the         *)
(* hardware of each appliance model, the fallbacks for models that are not *)
(* in the table, and the savings of a member and of the fleet.             *)
(*                                                                         *)
(* A model is <<prefix, number>>, IB-V815 being <<"IB-V", 815>>, and       *)
(* NoModel when the scan did not report one.  RAM is in quarters of a GB.  *)
(***************************************************************************)
EXTENDS TokenTiers, FiniteSets, FiniteSetsExt, TLC

NoModel == <<"", 0>>

V(vCPU, gb) == [vCPU |-> vCPU, ram |-> 4 * gb]

OnVMwareX5 ==
  LET size == [n \in {815, 825, 1415, 1425, 2215, 2225, 4015, 4025} |->
                 CASE n < 1000 -> V(2, 16) [] n < 2000 -> V(4, 32)
                   [] n < 3000 -> V(8, 64) [] OTHER -> V(14, 128)]
  IN [n \in DOMAIN size |-> <<size[n]>>]

(* vCPU of the X5 models that run in a cloud. *)
CloudX5 == 825 :> 2 @@ 1425 :> 4 @@ 2225 :> 8 @@ 4015 :> 16 @@ 4025 :> 16

OnAzureX5 == [n \in DOMAIN CloudX5 |-> <<V(CloudX5[n], 7 * CloudX5[n])>>]

OnAwsX5 ==
  [n \in DOMAIN CloudX5 |->
     LET v == CloudX5[n]
     IN <<V(v, 8 * v), V(v, 4 * v), [vCPU |-> v, ram |-> (61 * v) \div 2]>>]

OnGcpX5 == [n \in DOMAIN CloudX5 |-> <<V(CloudX5[n], 8 * CloudX5[n])>>]

OnVMwareX6 ==
  926 :> <<V(4, 32), V(8, 32)>> @@ 1516 :> <<V(6, 64), V(12, 64)>> @@
  1526 :> <<V(8, 64), V(16, 64)>> @@ 2326 :> <<V(12, 128), V(20, 192)>> @@
  4126 :> <<V(16, 256), V(32, 384)>>

OnAzureX6 ==
  926 :> <<V(4, 32)>> @@ 1516 :> <<V(8, 64)>> @@ 1526 :> <<V(16, 128)>> @@
  2326 :> <<V(20, 160)>> @@ 4126 :> <<V(32, 256)>>

OnAwsX6 ==
  926 :> <<V(4, 32), V(8, 32)>> @@ 1516 :> <<V(8, 64), V(16, 64)>> @@
  1526 :> <<V(16, 64), V(16, 128)>> @@ 2326 :> <<V(32, 128), V(32, 256)>> @@
  4126 :> <<V(32, 256), V(48, 384)>>

OnGcpX6 ==
  926 :> <<V(8, 16), V(8, 32), V(8, 64)>> @@ 1516 :> <<V(16, 32), V(16, 64), V(16, 128)>> @@
  1526 :> <<V(16, 64), V(16, 128), V(32, 64)>> @@ 2326 :> <<V(32, 64), V(32, 128), V(32, 256)>> @@
  4126 :> <<V(64, 512), V(80, 160), V(80, 320)>>

Discovery == <<"ND-V", 1606>>
Chassis == <<"IB-", 4030>>

(* Every table by platform: virtual appliances by number, and the others.  *)
VirtualOn(platform) ==
  CASE platform = "VMware" -> OnVMwareX5 @@ OnVMwareX6
    [] platform = "Azure" -> OnAzureX5 @@ OnAzureX6
    [] platform = "AWS" -> OnAwsX5 @@ OnAwsX6
    [] platform = "GCP" -> OnGcpX5 @@ OnGcpX6
    [] OTHER -> <<>>

OthersOn(platform) ==
  CASE platform = "VMware" -> Discovery :> <<V(16, 64)>>
    [] platform = "Azure" -> Discovery :> <<V(20, 160)>>
    [] platform = "Physical" -> Chassis :> <<V(8, 32)>>
    [] OTHER -> <<>>

Platforms == {"VMware", "Azure", "AWS", "GCP", "Physical"}

NoSpec == <<>>

(* The variants of the model on the platform; the first is the default.    *)
LookupApplianceSpec(model, platform) ==
  IF model[1] = "IB-V" /\ model[2] \in DOMAIN VirtualOn(platform)
  THEN VirtualOn(platform)[model[2]]
  ELSE IF model \in DOMAIN OthersOn(platform) THEN OthersOn(platform)[model] ELSE NoSpec

ModelExistsOnAnyPlatform(model) ==
  \E p \in Platforms : LookupApplianceSpec(model, p) # NoSpec

(* Physical models of a known family, by the first digits of the number.   *)
StartsWith(number, digits) == \E unit \in {1, 10, 100, 1000} : number \div unit = digits

PhysicalFamilies ==
  <<[digits |-> 4, is |-> V(16, 128)], [digits |-> 22, is |-> V(12, 64)], [digits |-> 14, is |-> V(4, 16)],
    [digits |-> 1, is |-> V(4, 16)], [digits |-> 8, is |-> V(4, 16)]>>

LookupPhysicalFamily(model) ==
  LET fits == Keep(PhysicalFamilies, LAMBDA f : StartsWith(model[2], f.digits))
  IN IF model[1] \in {"IB-", "TE-", "T-"} /\ fits # <<>> THEN <<fits[1].is>> ELSE NoSpec

(* Models that only run on VMware, read as their successor on AWS.         *)
LookupAwsLegacy(model) ==
  IF model[1] = "IB-V" /\ model[2] \in {815, 1415, 2215} THEN OnAwsX5[model[2] + 10] ELSE NoSpec

SpecOf(model, platform) ==
  LET exact == LookupApplianceSpec(model, platform)
  IN CASE exact # NoSpec -> exact
       [] platform = "Physical" -> LookupPhysicalFamily(model)
       [] platform = "AWS" -> LookupAwsLegacy(model)
       [] OTHER -> NoSpec

-----------------------------------------------------------------------------
(* parseTierVCPU, parseTierRamGB: what a NIOS-X server of a tier takes.    *)
TierHardware(name) ==
  CASE name \in {"2XS", "XS"} -> V(3, 4) [] name = "S" -> V(4, 4) [] name = "M" -> V(4, 32)
    [] name = "L" -> V(16, 32) [] OTHER -> V(24, 32)

NoHardware == V(0, 0)

Excluded(kind, variant) == [kind |-> kind, variant |-> variant, old |-> NoHardware, new |-> NoHardware]

(* The server a member needs afterwards; XaaS needs none of the customer's *)
(* hardware.  variant counts from 1, Undef means not chosen; one the spec  *)
(* does not have is kept, but priced as the default.                       *)
CalcMemberSavings(model, platform, tierName, formFactor, variant) ==
  LET spec == SpecOf(model, platform)
      chosen == Or(variant, 1)
  IN IF model = NoModel \/ (spec = NoSpec /\ ~ModelExistsOnAnyPlatform(model))
     THEN Excluded("missing", 1)
     ELSE IF spec = NoSpec THEN Excluded("invalidPlatform", 1)
     ELSE [kind    |-> CASE platform = "Physical" -> "physical"
                         [] formFactor = "nios-xaas" -> "managed" [] OTHER -> "virtual",
           variant |-> chosen,
           old     |-> spec[IF chosen \in DOMAIN spec THEN chosen ELSE 1],
           new     |-> IF formFactor = "nios-xaas" THEN NoHardware ELSE TierHardware(tierName)]

Delta(s) == [vCPU |-> s.new.vCPU - s.old.vCPU, ram |-> s.new.ram - s.old.ram]

Bucket(savings, kind) ==
  LET own == Keep(savings, LAMBDA s : s.kind = kind)
  IN [vCPU |-> Sum(LAMBDA s : Delta(s).vCPU, own), ram |-> Sum(LAMBDA s : Delta(s).ram, own),
      memberCount |-> Len(own)]

(* Physical units are only counted, what has no spec is left out.          *)
CalcFleetSavings(savings) ==
  LET counted == Keep(savings, LAMBDA s : s.kind \in {"virtual", "managed"})
      Count(kind) == Len(Keep(savings, LAMBDA s : s.kind = kind))
  IN [memberCount |-> Len(savings),
      totalOldVCPU |-> Sum(LAMBDA s : s.old.vCPU, counted),
      totalOldRam |-> Sum(LAMBDA s : s.old.ram, counted),
      totalNewVCPU |-> Sum(LAMBDA s : s.new.vCPU, counted),
      totalNewRam |-> Sum(LAMBDA s : s.new.ram, counted),
      niosX |-> Bucket(savings, "virtual"), xaas |-> Bucket(savings, "managed"),
      physicalUnitsRetired |-> Count("physical"),
      unknownModels |-> Count("missing"), invalidCombinations |-> Count("invalidPlatform")]
=============================================================================
