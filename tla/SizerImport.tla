---------------------------- MODULE SizerImport ----------------------------
(***************************************************************************)
(* The bridge from a finished scan to the Sizer (sizer-import.ts): a scan  *)
(* is turned into a Sizer state of its own, which is then merged into the  *)
(* one the user is editing.  Everything is a pure operator; `next' is the  *)
(* first identifier newId() has not handed out yet.                        *)
(*                                                                         *)
(* A scan is a record of finding rows and NIOS member metrics.  A host     *)
(* name is its text plus the dash-separated parts of its first label,      *)
(* which is all the geography heuristic looks at.                          *)
(***************************************************************************)
EXTENDS SizerTypes

CONSTANTS ISO2,        \* the two-letter country codes
          Folded       \* the lower case of the base texts that have another

Providers == {"aws", "azure", "gcp", "microsoft"}

FindingRow == [provider : Providers, source : STRING, region : STRING,
               category : {"Active IP", "Asset", "DDI Object"},
               userItem : BOOLEAN, count : Int]

Member == [id : STRING, name : STRING, parts : Seq(STRING), activeIPCount : Nat,
           managedIPCount : Nat, hosts : Nat, objectCount : Nat, qps : Nat, lps : Nat]

FirstNonEmpty(seqs) ==
  FoldLeft(LAMBDA found, seq : IF found = <<>> THEN seq ELSE found, <<>>, seqs)

SafeCount(n) == Larger(0, n)

SumCount(rows) == Sum(LAMBDA r : SafeCount(r.count), rows)

-----------------------------------------------------------------------------
(* Names and the keys rows are matched by. *)

ShortenSource(t) ==
  IF Len(t) <= 8 THEN t ELSE SubSeq(t, 1, 4) \o "~" \o SubSeq(t, Len(t) - 3, Len(t))

FormatCloudRegionName(provider, source, region) ==
  provider \o " " \o ShortenSource(source) \o " - " \o region

FoldedText(text) == IF text \in DOMAIN Folded THEN Folded[text] ELSE text

LowerCase(name) ==
  [name EXCEPT !.base = FoldedText(@), !.sp = IF @ = "case" THEN "exact" ELSE @]

(* Mutant: members are matched without trimming and lower-casing. *)
NiosKeyExact(n) == n.name

(* Trimmed and in lower case. *)
NiosKey(n) == [n.name EXCEPT !.base = FoldedText(@), !.sp = "exact"]

RegionKey(r) == <<r.type, LowerCase(r.name)>>

(* Mutant: sites are matched by id. *)
SiteKeyById(r, site) == <<LowerCase(r.name), site.id>>

SiteKey(r, site) == <<LowerCase(r.name), LowerCase(site.name)>>

ParseGeoFromHostname(parts) ==
  IF Len(parts) >= 2 /\ parts[1] \in ISO2
  THEN [country |-> Named(parts[1], 0), city |-> Named(parts[2], 0)]
  ELSE IF parts # <<>> /\ Len(parts[1]) \in 2..6
  THEN [country |-> Named("Cloud", 0), city |-> Named(parts[1], 0)]
  ELSE [country |-> UNASSIGNED, city |-> UNASSIGNED]

-----------------------------------------------------------------------------
(* Building the incoming state. *)

NoNumbers == [x \in NumberFields |-> Undef]

NewSite(id, name, fields) == [id |-> id, name |-> name, multiplier |-> 1, f |-> fields]

UnassignedCity(id, sites) == [id |-> id, name |-> UNASSIGNED, sites |-> sites]

UnassignedCountry(id, cityId, sites) ==
  [id |-> id, name |-> UNASSIGNED, cities |-> <<UnassignedCity(cityId, sites)>>]

(* A region that came from a scan: one site under placeholders. *)
ScanRegion(id, name, type, native, site) ==
  [id |-> id, name |-> name, type |-> type, cloudNativeDns |-> native,
   countries |-> <<UnassignedCountry(id + 1, id + 2, <<site>>)>>]

(* One NIOS-X per member, not assigned to any site. *)
ImportNios(metrics, next) ==
  [i \in DOMAIN metrics |->
     [id |-> next + i - 1, name |-> Named(metrics[i].name, 0), siteId |-> 0,
      formFactor |-> "nios-x", tierName |-> "M", tierManual |-> FALSE, imported |-> TRUE]]

RowsOf(provider, findings) == Keep(findings, LAMBDA f : f.provider = provider)

(* Rows of a cloud are grouped by source and region. *)
Group(row) == <<row.source, row.region>>

(* A group becomes a region with one site, which holds the sum of the      *)
(* Active IP rows.                                                         *)
CloudRegion(provider, g, rows, id) ==
  LET ips == SumCount(Keep(rows, LAMBDA r : Group(r) = g /\ r.category = "Active IP"))
  IN ScanRegion(id, Named(FormatCloudRegionName(provider, g[1], g[2]), 0), provider, TRUE,
                NewSite(id + 3, Named(ShortenSource(g[1]) \o " " \o g[2], 0),
                        [NoNumbers EXCEPT !.activeIPs = ips]))

Numbered(groups, F(_, _), next) == [k \in DOMAIN groups |-> F(groups[k], next + 4 * (k - 1))]

(* The groups of one provider in the order of first appearance. *)
ImportCloud(provider, rows, next) ==
  Numbered(Distinct(Map(Group, rows)), LAMBDA g, id : CloudRegion(provider, g, rows, id), next)

(* Users: the Asset rows about users, else every Asset row, else the       *)
(* Active IP rows.                                                         *)
UserRows(rows) ==
  LET Of(category) == Keep(rows, LAMBDA f : f.category = category)
  IN FirstNonEmpty(<<Keep(Of("Asset"), LAMBDA f : f.userItem), Of("Asset"), Of("Active IP")>>)

ImportAd(rows, next) ==
  ScanRegion(next, Named("On-Premises", 0), "on-premises", FALSE,
             NewSite(next + 3, Named(rows[1].source, 0),
                     [NoNumbers EXCEPT !.users = SumCount(UserRows(rows))]))

(* The first positive of the active, managed and host counts. *)
BestIPs(m) == IF m.activeIPCount > 0 THEN m.activeIPCount
              ELSE IF m.managedIPCount > 0 THEN m.managedIPCount ELSE m.hosts

Positive(n) == IF n > 0 THEN n ELSE Undef

MemberSite(m, id) ==
  NewSite(id, Named(m.name, 0),
          [NoNumbers EXCEPT !.activeIPs = BestIPs(m), !.dnsRecords = Positive(m.objectCount),
                            !.qps = Positive(m.qps), !.lps = Positive(m.lps)])

Geo(m) == ParseGeoFromHostname(m.parts)

(* The i-th member becomes the site next + 1 + i, in the city of its place.*)
GridCity(metrics, place, id, next) ==
  [id |-> id, name |-> place.city,
   sites |-> Map(LAMBDA i : MemberSite(metrics[i], next + 1 + i),
                 Picked([i \in DOMAIN metrics |-> i],
                        {i \in DOMAIN metrics : Geo(metrics[i]) = place}))]

GridCountries(metrics, places, next, base) ==
  LET CityOf(k) == GridCity(metrics, places[k], base + k, next)
      In(c) == Picked([k \in DOMAIN places |-> k], {k \in DOMAIN places : places[k].country = c})
      InGrid(c, id) == [id |-> id, name |-> c, cities |-> Map(CityOf, In(c))]
  IN Numbered(Distinct(Map(LAMBDA p : p.country, places)), InGrid, base + Len(places) + 1)

(* One region with one site per member, grouped by country and city; it    *)
(* is made up only when the scan has members and no region of its own.     *)
SynthesizeGrid(metrics, next) ==
  [id |-> next, name |-> Named("Imported NIOS Grid", 0), type |-> "on-premises",
   cloudNativeDns |-> FALSE,
   countries |-> GridCountries(metrics, Distinct(Map(Geo, metrics)), next, next + 2 + Len(metrics))]

(* The id of the site made for a member; the map is keyed by member id, so *)
(* the last member of an id wins.                                          *)
LinkedSite(metrics, i, next) ==
  next + 1 + SelectLastInSeq(metrics, LAMBDA m : m.id = metrics[i].id)

(* The regions made for the clouds, in this order, and for a directory.    *)
ScanRegions(findings, next) ==
  LET Add(acc, p) == acc \o ImportCloud(p, RowsOf(p, findings), next + 4 * Len(acc))
      AddDirectory(regions, rows) ==
        IF rows = <<>> THEN regions
        ELSE Append(regions, ImportAd(rows, next + 4 * Len(regions)))
  IN AddDirectory(Add(Add(Add(<<>>, "aws"), "azure"), "gcp"), RowsOf("microsoft", findings))

(* A grid without any region gets one, and its rows are linked to its      *)
(* sites.                                                                  *)
WithMembers(regions, metrics, rows, grid) ==
  IF regions = <<>> /\ rows # <<>>
  THEN [regions |-> <<SynthesizeGrid(metrics, grid)>>,
        niosx |-> [i \in DOMAIN rows |->
                     [rows[i] EXCEPT !.siteId = LinkedSite(metrics, i, grid)]]]
  ELSE [regions |-> regions, niosx |-> rows]

(* What a scan brings: its regions and its NIOS-X systems. *)
ImportFromScan(scan, next) ==
  LET from == next + 12 * Len(scan.findings) + 4
  IN WithMembers(ScanRegions(scan.findings, next), scan.members,
                 ImportNios(scan.members, from), from + Len(scan.members))

(* More identifiers than one import can use. *)
ImportSpan(scan) == 12 * Len(scan.findings) + 5 * Len(scan.members) + 8

-----------------------------------------------------------------------------
(* Merging. *)

(* Sites go under the first city of the first country, either of which is  *)
(* made up when missing, with identifiers from id on.                      *)
PutInCity(ct, sites) == [ct EXCEPT !.sites = ct.sites \o sites]

PutInCountry(c, sites, id) ==
  IF c.cities = <<>> THEN [c EXCEPT !.cities = <<UnassignedCity(id, sites)>>]
  ELSE [c EXCEPT !.cities[1] = PutInCity(@, sites)]

PutSites(r, sites, id) ==
  IF r.countries = <<>>
  THEN [r EXCEPT !.countries = <<UnassignedCountry(id, id + 1, sites)>>]
  ELSE [r EXCEPT !.countries[1] = PutInCountry(@, sites, id)]

(* The site keys recorded for a region key: those of the last existing     *)
(* region that has it.                                                     *)
KnownSites(regions, key) ==
  LET Keys(r) == {<<key, SiteKey(r, t)>> : t \in Range(RegionSites(r))}
  IN Keys(LastWhere(regions, LAMBDA x : RegionKey(x) = key))

(* The sites that are new for their region key, each key once. *)
NewSites(in, seen) ==
  LET Key(t) == <<RegionKey(in), SiteKey(in, t)>>
      New(sites) == Picked(sites, {i \in DOMAIN sites :
                      /\ Key(sites[i]) \notin seen
                      /\ \A j \in 1..(i - 1) : Key(sites[j]) # Key(sites[i])})
  IN [seen |-> seen \union {Key(t) : t \in Range(RegionSites(in))}, sites |-> New(RegionSites(in))]

(* Every region of that key gets the sites. *)
Into(regions, key, sites, next) ==
  IF sites = <<>> THEN regions
  ELSE [i \in DOMAIN regions |-> IF RegionKey(regions[i]) = key
                                 THEN PutSites(regions[i], sites, next + 2 * i) ELSE regions[i]]

(* acc: the merged regions, and the site keys taken so far *)
MergeRegion(acc, in, keys, next) ==
  IF RegionKey(in) \notin keys THEN [acc EXCEPT !.regions = Append(@, in)]
  ELSE LET Put(new) == [regions |-> Into(acc.regions, RegionKey(in), new.sites, next),
                        seen |-> new.seen]
       IN Put(NewSites(in, acc.seen))

MergeInto(existing, incoming, keys, next) ==
  LET merged[n \in 0..Len(incoming)] ==
        IF n = 0 THEN [regions |-> existing, seen |-> UNION {KnownSites(existing, k) : k \in keys}]
        ELSE MergeRegion(merged[n - 1], incoming[n], keys, next)
  IN merged[Len(incoming)].regions

MergeRegions(existing, incoming, next) ==
  MergeInto(existing, incoming, {RegionKey(r) : r \in Range(existing)}, next)

MergeNiosx(existing, incoming) ==
  LET Known(rows, n) == \E m \in Range(rows) : NiosKey(m) = NiosKey(n)
      merged[k \in 0..Len(incoming)] ==
        IF k = 0 THEN existing
        ELSE IF Known(merged[k - 1], incoming[k]) THEN merged[k - 1]
        ELSE Append(merged[k - 1], incoming[k])
  IN merged[Len(incoming)]

(* Settings, security inputs, service points and the interface state stay. *)
MergeFullState(s, incoming, next) ==
  [s EXCEPT !.core.regions = MergeRegions(@, incoming.regions, next),
            !.core.niosx = MergeNiosx(@, incoming.niosx)]

(* The badge shown after an import: what the merged tree has more.         *)
CountTreeEntities(s) ==
  [regions |-> Len(s.core.regions), sites |-> Len(AllSites(s.core)),
   niosx |-> Len(s.core.niosx)]
=============================================================================
