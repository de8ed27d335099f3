-------------------------- MODULE SizerFormsProofs --------------------------
(***************************************************************************)
(* Proofs about the forms of the Sizer, whatever the scans, the stored     *)
(* states and the bounds are: a form whose derive timer is not running     *)
(* shows values that are up to date, and what was typed into a site stays. *)
(*                                                                         *)
(* FindSite returns the first site with an identifier, in the order of the *)
(* tree.  The way to it (Way) is the same before and after the fields of   *)
(* sites change and after new sites are added, so what a form reads is     *)
(* known after every step.  What was typed is also about sites that have   *)
(* no form: a change of the tree leaves them as they were, each under an   *)
(* identifier of its own.                                                  *)
(***************************************************************************)
EXTENDS SizerProofs

-----------------------------------------------------------------------------
(* The first element of a list that is in a set. *)

Leads(q, X, n) == n \in DOMAIN q /\ q[n] \in X /\ \A m \in DOMAIN q : m < n => q[m] \notin X

LedBy(q, X, x) == \E n \in DOMAIN q : Leads(q, X, n) /\ q[n] = x

(* It stays first when a list is added, and is first after one without any. *)
LEMMA LedJoined ==
  ASSUME NEW p, Listed(p), NEW q, Listed(q), NEW X, NEW x
  PROVE  /\ LedBy(p, X, x) => LedBy(p \o q, X, x)
         /\ LedBy(q, X, x) /\ Range(p) \intersect X = {} => LedBy(p \o q, X, x)
<1> DEFINE S == Range(p) \union Range(q)
           r == p \o q
<1>1. p \in Seq(S) /\ q \in Seq(S)
  BY DEF Listed
<1> HIDE DEF S
<1>2. /\ r \in Seq(S) /\ Len(r) = Len(p) + Len(q)
      /\ \A i \in 1..Len(p) : r[i] = p[i]
      /\ \A i \in 1..Len(q) : r[Len(p) + i] = q[i]
  BY <1>1
<1>3. /\ Len(p) \in Nat /\ Len(q) \in Nat
      /\ DOMAIN p = 1..Len(p) /\ DOMAIN q = 1..Len(q) /\ DOMAIN r = 1..(Len(p) + Len(q))
  BY <1>1, <1>2
<1> HIDE DEF r
<1>4. ASSUME LedBy(p, X, x) PROVE LedBy(r, X, x)
  BY <1>2, <1>3, <1>4 DEF LedBy, Leads
<1>5. ASSUME LedBy(q, X, x), Range(p) \intersect X = {} PROVE LedBy(r, X, x)
  <2>1. PICK n \in DOMAIN q : Leads(q, X, n) /\ q[n] = x
    BY <1>5 DEF LedBy
  <2> DEFINE m == Len(p) + n
  <2>2. m \in DOMAIN r /\ r[m] = x /\ x \in X
    BY <1>2, <1>3, <2>1 DEF Leads
  <2>3. ASSUME NEW i \in DOMAIN r, i < m PROVE r[i] \notin X
    <3>1. CASE i \in 1..Len(p)
      BY <3>1, <1>2, <1>3, <1>5 DEF Range
    <3>2. CASE i \notin 1..Len(p)
      <4> DEFINE k == i - Len(p)
      <4>1. k \in 1..Len(q) /\ k < n /\ i = Len(p) + k
        BY <1>3, <2>1, <2>3, <3>2
      <4> HIDE DEF k
      <4>2. q[k] \notin X
        BY <1>3, <2>1, <4>1 DEF Leads
      <4> QED BY <1>2, <4>1, <4>2
    <3> QED BY <3>1, <3>2
  <2> HIDE DEF m
  <2>4. Leads(r, X, m)
    BY <2>2, <2>3 DEF Leads
  <2> QED BY <2>2, <2>4 DEF LedBy
<1> QED BY <1>4, <1>5 DEF r

(* Array.flatMap: the first of the first part that has one. *)
LEMMA LedFlattened ==
  ASSUME NEW qs, Listed(qs), \A i \in DOMAIN qs : Listed(qs[i]), NEW X, NEW x,
         NEW m \in DOMAIN qs, LedBy(qs[m], X, x),
         \A i \in DOMAIN qs : i < m => Range(qs[i]) \intersect X = {}
  PROVE  LedBy(FlattenSeq(qs), X, x)
<1> DEFINE N == Len(qs)
<1>1. N \in Nat /\ DOMAIN qs = 1..N /\ N # 0
  BY ListBasics
<1>2. PICK flatten : Flattens(flatten, qs)
  BY <1>1, Flattening
<1> DEFINE Sound1(k) == /\ Listed(flatten[k])
                        /\ k < m => Range(flatten[k]) \intersect X = {}
                        /\ m <= k => LedBy(flatten[k], X, x)
           T == {n \in Nat : n < N => Sound1(n + 1)}
<1>3. 0 \in T
  <2>1. flatten[1] = qs[1] /\ 1 \in DOMAIN qs /\ (m <= 1 => m = 1)
    BY <1>1, <1>2 DEF Flattens
  <2>2. Sound1(1)
    BY <2>1
  <2> HIDE DEF Sound1
  <2> QED BY <2>2
<1>4. ASSUME NEW n \in Nat, n \in T PROVE n + 1 \in T
  <2> SUFFICES ASSUME n + 1 < N PROVE Sound1(n + 1 + 1)
    OBVIOUS
  <2> DEFINE k == n + 1
             l == n + 1 + 1
  <2>1. k \in 1..N /\ l \in 1..N /\ l # 1 /\ l - 1 = k /\ l = k + 1 /\ k \in Nat /\ l \in Nat /\ m \in Nat
    BY <1>1
  <2>2. Sound1(k)
    BY <1>4, <2>1
  <2> HIDE DEF k, l
  <2>3. flatten[l] = flatten[k] \o qs[l]
    BY <1>2, <2>1 DEF Flattens
  <2>4. Listed(flatten[k]) /\ Listed(qs[l])
    BY <1>1, <2>1, <2>2
  <2>5. Listed(flatten[l]) /\ Range(flatten[l]) = Range(flatten[k]) \union Range(qs[l])
    BY <2>3, <2>4, ListJoined
  <2>6. CASE l < m
    <3>1. Range(flatten[k]) \intersect X = {} /\ Range(qs[l]) \intersect X = {} /\ ~(m <= l)
      BY <1>1, <2>1, <2>2, <2>6
    <3> QED BY <2>5, <3>1 DEF l
  <2>7. CASE l = m
    <3>1. Range(flatten[k]) \intersect X = {} /\ LedBy(qs[l], X, x) /\ ~(l < m)
      BY <2>1, <2>2, <2>7
    <3>2. LedBy(flatten[l], X, x)
      BY <2>3, <2>4, <3>1, LedJoined
    <3> QED BY <2>5, <3>1, <3>2 DEF l
  <2>8. CASE m < l
    <3>1. LedBy(flatten[k], X, x) /\ ~(l < m)
      BY <2>1, <2>2, <2>8
    <3>2. LedBy(flatten[l], X, x)
      BY <2>3, <2>4, <3>1, LedJoined
    <3> QED BY <2>5, <3>1, <3>2 DEF l
  <2>9. l < m \/ l = m \/ m < l
    BY <2>1
  <2> QED BY <2>6, <2>7, <2>8, <2>9
<1>5. N - 1 \in T
  <2> HIDE DEF T
  <2> QED BY <1>1, <1>3, <1>4, Induction, SMTT(30)
<1>6. Sound1(N)
  <2> HIDE DEF Sound1
  <2>1. N - 1 \in Nat /\ N - 1 < N /\ (N - 1) + 1 = N
    BY <1>1
  <2> QED BY <1>5, <2>1
<1> QED BY <1>1, <1>2, <1>6 DEF Flattens

(* The same for parts made from the elements of a list. *)
LEMMA LedSpread ==
  ASSUME NEW p, Listed(p), NEW q, q = [i \in DOMAIN p |-> q[i]], \A i \in DOMAIN p : Listed(q[i]),
         NEW X, NEW x, NEW m \in DOMAIN p, LedBy(q[m], X, x),
         \A i \in DOMAIN p : i < m => Range(q[i]) \intersect X = {}
  PROVE  LedBy(FlattenSeq(q), X, x)
<1>1. Listed(q) /\ DOMAIN q = DOMAIN p
  BY ListMade
<1> QED BY <1>1, LedFlattened

(* What a search for a site finds, and one for the city of a site. *)
LEMMA SiteSearch ==
  ASSUME NEW core, NEW id, Listed(AllSites(core)), NEW X, NEW x, LedBy(AllSites(core), X, x),
         \A t \in Range(AllSites(core)) : t \in X <=> t.id = id
  PROVE  FindSite(core, id) = x
<1> DEFINE p == AllSites(core)
           I == {i \in 1..Len(p) : p[i].id = id}
<1>1. DOMAIN p = 1..Len(p) /\ I \subseteq Nat
  BY ListBasics
<1>2. FindSite(core, id) = p[IF I # {} THEN Min(I) ELSE 0]
  BY DEF FindSite, FirstWhere, SelectInSeq
<1>3. PICK n \in DOMAIN p : Leads(p, X, n) /\ p[n] = x
  BY DEF LedBy
<1>4. \A i \in DOMAIN p : p[i] \in X <=> i \in I
  BY <1>1 DEF Range
<1> HIDE DEF I, p
<1>5. n \in I /\ \A m \in I : n <= m
  <2>1. n \in I
    BY <1>3, <1>4 DEF Leads
  <2>2. ASSUME NEW m \in I PROVE ~(m < n)
    <3>1. m \in DOMAIN p
      BY <1>1 DEF I, p
    <3> QED BY <1>3, <1>4, <3>1 DEF Leads
  <2> QED BY <1>1, <2>1, <2>2
<1>6. Min(I) = n
  <2>1. \A k \in I : (\A m \in I : k <= m) => k = n
    BY <1>1, <1>5
  <2> QED BY <1>5, <2>1 DEF Min
<1> QED BY <1>2, <1>3, <1>5, <1>6 DEF p

LEMMA CitySearch ==
  ASSUME NEW t, NEW id, Listed(AllCities(t.core)), NEW X, NEW x, LedBy(AllCities(t.core), X, x),
         \A ct \in Range(AllCities(t.core)) : ct \in X <=> id \in IdsOf(ct.sites)
  PROVE  SiteCity(t, id) = x.id
<1> DEFINE p == AllCities(t.core)
           I == {i \in 1..Len(p) : id \in IdsOf(p[i].sites)}
<1>1. DOMAIN p = 1..Len(p) /\ I \subseteq Nat
  BY ListBasics
<1>2. SiteCity(t, id) = p[IF I # {} THEN Min(I) ELSE 0].id
  BY DEF SiteCity, FirstWhere, SelectInSeq
<1>3. PICK n \in DOMAIN p : Leads(p, X, n) /\ p[n] = x
  BY DEF LedBy
<1>4. \A i \in DOMAIN p : p[i] \in X <=> i \in I
  BY <1>1 DEF Range
<1> HIDE DEF I, p
<1>5. n \in I /\ \A m \in I : n <= m
  <2>1. n \in I
    BY <1>3, <1>4 DEF Leads
  <2>2. ASSUME NEW m \in I PROVE ~(m < n)
    <3>1. m \in DOMAIN p
      BY <1>1 DEF I, p
    <3> QED BY <1>3, <1>4, <3>1 DEF Leads
  <2> QED BY <1>1, <2>1, <2>2
<1>6. Min(I) = n
  <2>1. \A k \in I : (\A m \in I : k <= m) => k = n
    BY <1>1, <1>5
  <2> QED BY <1>5, <2>1 DEF Min
<1> QED BY <1>2, <1>3, <1>5, <1>6 DEF p

-----------------------------------------------------------------------------
(* The way to the first site with an identifier. *)

InCities(q, id) == \E k \in DOMAIN q : Has(q[k].sites, id)

InCountries(q, id) == \E j \in DOMAIN q : InCities(q[j].cities, id)

FirstSite(q, n, id) == n \in DOMAIN q /\ q[n].id = id /\ \A m \in DOMAIN q : m < n => q[m].id # id

FirstCity(q, n, id) ==
  n \in DOMAIN q /\ Has(q[n].sites, id) /\ \A m \in DOMAIN q : m < n => ~Has(q[m].sites, id)

FirstCountry(q, n, id) ==
  n \in DOMAIN q /\ InCities(q[n].cities, id) /\ \A m \in DOMAIN q : m < n => ~InCities(q[m].cities, id)

FirstRegion(q, n, id) ==
  /\ n \in DOMAIN q /\ InCountries(q[n].countries, id)
  /\ \A m \in DOMAIN q : m < n => ~InCountries(q[m].countries, id)

WayInCity(ct, l, id) == FirstSite(ct.sites, l, id)

WayInCountry(c, k, l, id) == FirstCity(c.cities, k, id) /\ WayInCity(c.cities[k], l, id)

WayInRegion(r, j, k, l, id) ==
  FirstCountry(r.countries, j, id) /\ WayInCountry(r.countries[j], k, l, id)

(* Down region i, its country j, its city k, to its site l. *)
Way(q, i, j, k, l, id) == FirstRegion(q, i, id) /\ WayInRegion(q[i], j, k, l, id)

CityAt(q, i, j, k) == q[i].countries[j].cities[k]

SiteAt(q, i, j, k, l) == CityAt(q, i, j, k).sites[l]

LEMMA LeastPlace ==
  ASSUME NEW q, Listed(q), NEW T \in SUBSET (DOMAIN q), T # {}
  PROVE  \E n \in T : \A m \in DOMAIN q : m < n => m \notin T
<1>1. DOMAIN q \subseteq Nat
  BY ListBasics
<1>2. PICK n \in T : \A m \in T : n <= m
  BY <1>1, LeastNumber
<1>3. \A m \in DOMAIN q : m < n => m \notin T
  BY <1>1, <1>2
<1> QED BY <1>2, <1>3

(* There is a way to every site, from each level down. *)
LEMMA WayExists ==
  ASSUME NEW B, NEW q, IsTree(B, q), NEW id, HasSite(q, id)
  PROVE  \E i, j, k, l : Way(q, i, j, k, l, id)
<1>1. ASSUME NEW ct, IsCity(B, ct), Has(ct.sites, id)
      PROVE  \E l : WayInCity(ct, l, id)
  <2> DEFINE T == {n \in DOMAIN ct.sites : ct.sites[n].id = id}
  <2>1. T # {} /\ Listed(ct.sites)
    BY <1>1 DEF Has, IsCity
  <2>2. PICK n \in T : \A m \in DOMAIN ct.sites : m < n => m \notin T
    BY <2>1, LeastPlace
  <2> QED BY <2>2 DEF FirstSite, WayInCity
<1>2. ASSUME NEW c, IsCountry(B, c), InCities(c.cities, id)
      PROVE  \E k, l : WayInCountry(c, k, l, id)
  <2> DEFINE T == {n \in DOMAIN c.cities : Has(c.cities[n].sites, id)}
  <2>1. T # {} /\ Listed(c.cities)
    BY <1>2 DEF InCities, IsCountry
  <2>2. PICK n \in T : \A m \in DOMAIN c.cities : m < n => m \notin T
    BY <2>1, LeastPlace
  <2>3. FirstCity(c.cities, n, id) /\ IsCity(B, c.cities[n])
    BY <1>2, <2>2 DEF FirstCity, IsCountry
  <2>4. PICK l : WayInCity(c.cities[n], l, id)
    BY <1>1, <2>3 DEF FirstCity
  <2> QED BY <2>3, <2>4 DEF WayInCountry
<1>3. ASSUME NEW r, IsRegion(B, r), InCountries(r.countries, id)
      PROVE  \E j, k, l : WayInRegion(r, j, k, l, id)
  <2> DEFINE T == {n \in DOMAIN r.countries : InCities(r.countries[n].cities, id)}
  <2>1. T # {} /\ Listed(r.countries)
    BY <1>3 DEF InCountries, IsRegion
  <2>2. PICK n \in T : \A m \in DOMAIN r.countries : m < n => m \notin T
    BY <2>1, LeastPlace
  <2>3. FirstCountry(r.countries, n, id) /\ IsCountry(B, r.countries[n])
    BY <1>3, <2>2 DEF FirstCountry, IsRegion
  <2>4. PICK k, l : WayInCountry(r.countries[n], k, l, id)
    BY <1>2, <2>3 DEF FirstCountry
  <2> QED BY <2>3, <2>4 DEF WayInRegion
<1> DEFINE T == {n \in DOMAIN q : InCountries(q[n].countries, id)}
<1>4. T # {} /\ Listed(q)
  BY DEF HasSite, InCountries, InCities, IsTree
<1>5. PICK n \in T : \A m \in DOMAIN q : m < n => m \notin T
  BY <1>4, LeastPlace
<1>6. FirstRegion(q, n, id) /\ IsRegion(B, q[n])
  BY <1>5 DEF FirstRegion, IsTree
<1>7. PICK j, k, l : WayInRegion(q[n], j, k, l, id)
  BY <1>3, <1>6 DEF FirstRegion
<1> QED BY <1>6, <1>7 DEF Way

(* The site at its end is the one a lookup finds. *)
LEMMA WayFindsSite ==
  ASSUME NEW B, NEW core, NEW q, NEW id, NEW i, NEW j, NEW k, NEW l,
         core.regions = q, IsTree(B, q), Way(q, i, j, k, l, id)
  PROVE  FindSite(core, id) = SiteAt(q, i, j, k, l)
<1> DEFINE r == q[i]
           c == r.countries[j]
           ct == c.cities[k]
           x == ct.sites[l]
           X == {u \in Range(AllSites(core)) : u.id = id}
<1>1. /\ FirstRegion(q, i, id) /\ FirstCountry(r.countries, j, id)
      /\ FirstCity(c.cities, k, id) /\ FirstSite(ct.sites, l, id)
  BY DEF Way, WayInRegion, WayInCountry, WayInCity
<1>2. IsTree(B, q) /\ SiteAt(q, i, j, k, l) = x
  BY DEF SiteAt, CityAt
<1>3. IsRegion(B, r)
  BY <1>1, <1>2 DEF IsTree, FirstRegion
<1> HIDE DEF r
<1>4. IsCountry(B, c)
  BY <1>1, <1>3 DEF IsRegion, FirstCountry
<1> HIDE DEF c
<1>5. IsCity(B, ct)
  BY <1>1, <1>4 DEF IsCountry, FirstCity
<1>6. x \in Range(AllSites(core))
  <2>1. x \in Range(ct.sites)
    BY <1>1 DEF FirstSite, Range
  <2> HIDE DEF x
  <2>2. x \in Range(RegionSites(r))
    <3>1. j \in DOMAIN r.countries /\ k \in DOMAIN r.countries[j].cities
          /\ x \in Range(r.countries[j].cities[k].sites)
      BY <1>1, <2>1 DEF FirstCountry, FirstCity, c
    <3> QED BY <1>3, <3>1, RegionWalk
  <2>3. i \in DOMAIN core.regions /\ x \in Range(RegionSites(core.regions[i]))
    BY <1>1, <2>2 DEF FirstRegion, r
  <2> QED BY <2>3, SiteWalk
<1>7. LedBy(ct.sites, X, x)
  <2>1. Leads(ct.sites, X, l)
    BY <1>1, <1>6 DEF FirstSite, Leads
  <2> QED BY <1>1, <2>1 DEF LedBy, FirstSite
<1>8. \A p : ~Has(p, id) => Range(p) \intersect X = {}
  BY DEF Has, Range
<1> HIDE DEF X, x, ct
<1>9. LedBy(CitySites(c), X, x)
  <2> DEFINE p == [n \in DOMAIN c.cities |-> c.cities[n].sites]
  <2>1. CitySites(c) = FlattenSeq(p)
    BY DEF CitySites, Map
  <2>2. /\ Listed(c.cities) /\ \A n \in DOMAIN c.cities : Listed(p[n])
        /\ p = [n \in DOMAIN c.cities |-> p[n]]
    BY <1>4 DEF IsCountry, IsCity
  <2>3. k \in DOMAIN c.cities /\ LedBy(p[k], X, x)
    BY <1>1, <1>7 DEF FirstCity, ct
  <2>4. \A n \in DOMAIN c.cities : n < k => Range(p[n]) \intersect X = {}
    BY <1>1, <1>8 DEF FirstCity
  <2> HIDE DEF p
  <2> QED BY <2>1, <2>2, <2>3, <2>4, LedSpread
<1>10. ASSUME NEW d, IsCountry(B, d), ~InCities(d.cities, id) PROVE Range(CitySites(d)) \intersect X = {}
  <2>1. \A n \in DOMAIN d.cities : Range(d.cities[n].sites) \intersect X = {}
    BY <1>8, <1>10 DEF InCities
  <2> QED BY <1>10, <2>1, CityWalk
<1>11. LedBy(RegionSites(r), X, x)
  <2> DEFINE p == [n \in DOMAIN r.countries |-> CitySites(r.countries[n])]
  <2>1. RegionSites(r) = FlattenSeq(p)
    BY DEF RegionSites, Map
  <2>2. /\ Listed(r.countries) /\ \A n \in DOMAIN r.countries : Listed(p[n])
        /\ p = [n \in DOMAIN r.countries |-> p[n]]
    BY <1>3, CityWalk DEF IsRegion
  <2>3. j \in DOMAIN r.countries /\ LedBy(p[j], X, x)
    BY <1>1, <1>9 DEF FirstCountry, c
  <2>4. \A n \in DOMAIN r.countries : n < j => Range(p[n]) \intersect X = {}
    BY <1>1, <1>3, <1>10 DEF FirstCountry, IsRegion
  <2> HIDE DEF p
  <2> QED BY <2>1, <2>2, <2>3, <2>4, LedSpread
<1>12. ASSUME NEW d, IsRegion(B, d), ~InCountries(d.countries, id)
       PROVE  Range(RegionSites(d)) \intersect X = {}
  <2>1. \A n \in DOMAIN d.countries : Range(CitySites(d.countries[n])) \intersect X = {}
    BY <1>10, <1>12 DEF InCountries, IsRegion
  <2> DEFINE p == [n \in DOMAIN d.countries |-> CitySites(d.countries[n])]
  <2>2. RegionSites(d) = FlattenSeq(p)
    BY DEF RegionSites, Map
  <2>3. /\ Listed(d.countries) /\ \A n \in DOMAIN d.countries : Listed(p[n])
        /\ p = [n \in DOMAIN d.countries |-> p[n]]
    BY <1>12, CityWalk DEF IsRegion
  <2>4. \A n \in DOMAIN d.countries : Range(p[n]) \intersect X = {}
    BY <2>1
  <2> HIDE DEF p
  <2>5. Range(FlattenSeq(p)) = UNION {Range(p[n]) : n \in DOMAIN d.countries}
    BY <2>3, ListSpread
  <2> QED BY <2>2, <2>4, <2>5
<1>13. LedBy(AllSites(core), X, x)
  <2> DEFINE p == [n \in DOMAIN q |-> RegionSites(q[n])]
  <2>1. AllSites(core) = FlattenSeq(p)
    BY DEF AllSites, Map
  <2>2. /\ Listed(q) /\ \A n \in DOMAIN q : Listed(p[n])
        /\ p = [n \in DOMAIN q |-> p[n]]
    BY <1>2, RegionWalk DEF IsTree
  <2>3. i \in DOMAIN q /\ LedBy(p[i], X, x)
    BY <1>1, <1>11 DEF FirstRegion, r
  <2>4. \A n \in DOMAIN q : n < i => Range(p[n]) \intersect X = {}
    BY <1>1, <1>2, <1>12 DEF FirstRegion, IsTree
  <2> HIDE DEF p
  <2> QED BY <2>1, <2>2, <2>3, <2>4, LedSpread
<1>14. FindSite(core, id) = x
  BY <1>13, SiteSearch, SiteWalk DEF X
<1> QED BY <1>2, <1>14 DEF x, ct

(* The city it goes through is the one that is rewritten for the site. *)
LEMMA WayFindsCity ==
  ASSUME NEW B, NEW t, IsTree(B, t.core.regions), NEW id, NEW i, NEW j, NEW k, NEW l,
         Way(t.core.regions, i, j, k, l, id)
  PROVE  SiteCity(t, id) = CityAt(t.core.regions, i, j, k).id
<1> DEFINE core == t.core
           q == core.regions
           r == q[i]
           c == r.countries[j]
           ct == c.cities[k]
           Z == {d \in Range(AllCountries(core)) : InCities(d.cities, id)}
           Y == {d \in Range(AllCities(core)) : Has(d.sites, id)}
<1>1. /\ FirstRegion(q, i, id) /\ FirstCountry(r.countries, j, id)
      /\ FirstCity(c.cities, k, id)
  BY DEF Way, WayInRegion, WayInCountry
<1>2. IsTree(B, q) /\ CityAt(q, i, j, k) = ct
  BY DEF CityAt
<1> HIDE DEF q
<1>3. IsRegion(B, r)
  BY <1>1, <1>2 DEF IsTree, FirstRegion
<1> HIDE DEF r
<1>4. IsCountry(B, c)
  BY <1>1, <1>3 DEF IsRegion, FirstCountry
<1>5. c \in Range(AllCountries(core))
  <2>1. c \in Range(r.countries)
    BY <1>1 DEF FirstCountry, Range
  <2>2. i \in DOMAIN core.regions /\ c \in Range(core.regions[i].countries)
    BY <1>1, <2>1 DEF FirstRegion, q, r
  <2> HIDE DEF core
  <2> QED BY <2>2, <1>2, CountryWalk DEF q
<1>6. LedBy(r.countries, Z, c)
  <2>1. Leads(r.countries, Z, j)
    BY <1>1, <1>5 DEF FirstCountry, Leads
  <2> QED BY <1>1, <2>1 DEF LedBy, FirstCountry
<1>7. LedBy(AllCountries(core), Z, c)
  <2> DEFINE p == [n \in DOMAIN q |-> q[n].countries]
  <2>1. AllCountries(core) = FlattenSeq(p)
    BY DEF AllCountries, Map, q
  <2>2. Listed(q) /\ (\A n \in DOMAIN q : Listed(p[n])) /\ p = [n \in DOMAIN q |-> p[n]]
    BY <1>2 DEF IsTree, IsRegion
  <2>3. i \in DOMAIN q /\ LedBy(p[i], Z, c)
    BY <1>1, <1>6 DEF FirstRegion, r
  <2>4. ASSUME NEW n \in DOMAIN q, n < i PROVE Range(p[n]) \intersect Z = {}
    <3>1. ~InCountries(q[n].countries, id)
      BY <1>1, <2>4 DEF FirstRegion
    <3> QED BY <3>1 DEF InCountries, Range
  <2> HIDE DEF p, Z, c
  <2> QED BY <2>1, <2>2, <2>3, <2>4, LedSpread
<1>8. ct \in Range(AllCities(core))
  <2>1. ct \in Range(c.cities)
    BY <1>1 DEF FirstCity, Range
  <2>2. i \in DOMAIN core.regions /\ j \in DOMAIN core.regions[i].countries
        /\ ct \in Range(core.regions[i].countries[j].cities)
    BY <1>1, <2>1 DEF FirstRegion, FirstCountry, q, r, c
  <2> HIDE DEF core, ct
  <2> QED BY <2>2, <1>2, CitiesWalk DEF q
<1>9. LedBy(c.cities, Y, ct)
  <2>1. Leads(c.cities, Y, k)
    BY <1>1, <1>8 DEF FirstCity, Leads
  <2> QED BY <1>1, <2>1 DEF LedBy, FirstCity
<1>10. LedBy(AllCities(core), Y, ct)
  <2> DEFINE a == AllCountries(core)
             p == [n \in DOMAIN a |-> a[n].cities]
  <2>1. AllCities(core) = FlattenSeq(p)
    BY DEF AllCities, Map, CitiesOf
  <2>2. PICK m \in DOMAIN a : Leads(a, Z, m) /\ a[m] = c
    BY <1>7 DEF LedBy
  <2>3. Listed(a) /\ \A n \in DOMAIN a : IsCountry(B, a[n])
    <3>1. IsTree(B, core.regions)
      BY <1>2 DEF q
    <3> HIDE DEF core
    <3>2. Listed(a) /\ \A x : x \in Range(a)
                   <=> \E n \in DOMAIN core.regions : x \in Range(core.regions[n].countries)
      BY <3>1, CountryWalk
    <3>3. \A n \in DOMAIN core.regions : \A x \in Range(core.regions[n].countries) : IsCountry(B, x)
      BY <3>1 DEF IsTree, IsRegion, Range
    <3> QED BY <3>2, <3>3 DEF Range
  <2>4. (\A n \in DOMAIN a : Listed(p[n])) /\ p = [n \in DOMAIN a |-> p[n]]
    BY <2>3 DEF IsCountry
  <2>5. LedBy(p[m], Y, ct)
    BY <2>2, <1>9
  <2>6. ASSUME NEW n \in DOMAIN a, n < m PROVE Range(p[n]) \intersect Y = {}
    <3>1. ~InCities(a[n].cities, id)
      BY <2>2, <2>6 DEF Leads, Range
    <3> QED BY <3>1 DEF InCities, Range
  <2> HIDE DEF p, Y, ct, a
  <2> QED BY <2>1, <2>2, <2>3, <2>4, <2>5, <2>6, LedSpread
<1>11. \A d \in Range(AllCities(core)) : d \in Y <=> id \in IdsOf(d.sites)
  BY DEF Has, IdsOf
<1>12. Listed(AllCities(core))
  <2>1. IsTree(B, core.regions)
    BY <1>2 DEF q
  <2> HIDE DEF core
  <2> QED BY <2>1, CitiesWalk
<1> HIDE DEF Y, ct
<1>13. SiteCity(t, id) = ct.id
  BY <1>10, <1>11, <1>12, CitySearch
<1> QED BY <1>2, <1>13 DEF q

(* So there is a way to what a lookup finds. *)
Leading(t, id, i, j, k, l) ==
  /\ Way(t.core.regions, i, j, k, l, id)
  /\ FindSite(t.core, id) = SiteAt(t.core.regions, i, j, k, l)
  /\ SiteCity(t, id) = CityAt(t.core.regions, i, j, k).id

LEMMA WayTo ==
  ASSUME NEW B, NEW t, IsTree(B, t.core.regions), NEW id \in SiteIds(t.core)
  PROVE  \E i, j, k, l : Leading(t, id, i, j, k, l)
<1>1. HasSite(t.core.regions, id)
  BY Nodes DEF NodeIds
<1>2. PICK i, j, k, l : Way(t.core.regions, i, j, k, l, id)
  BY <1>1, WayExists
<1>3. FindSite(t.core, id) = SiteAt(t.core.regions, i, j, k, l)
  BY <1>2, WayFindsSite
<1>4. SiteCity(t, id) = CityAt(t.core.regions, i, j, k).id
  BY <1>2, WayFindsCity
<1> QED BY <1>2, <1>3, <1>4 DEF Leading

-----------------------------------------------------------------------------
(* Trees in which the way is the same: the same places down to the cities, *)
(* the sites in their places, and none of that identifier after them.      *)

SitesAlike(p, q, id) ==
  /\ Listed(p) /\ Listed(q)
  /\ \A n \in DOMAIN p : n \in DOMAIN q /\ q[n].id = p[n].id
  /\ \A n \in DOMAIN q : n \notin DOMAIN p => q[n].id # id

CitiesAlike(p, q, id) == DOMAIN q = DOMAIN p /\ \A n \in DOMAIN p : SitesAlike(p[n].sites, q[n].sites, id)

CountriesAlike(p, q, id) ==
  DOMAIN q = DOMAIN p /\ \A n \in DOMAIN p : CitiesAlike(p[n].cities, q[n].cities, id)

TreesAlike(p, q, id) ==
  DOMAIN q = DOMAIN p /\ \A n \in DOMAIN p : CountriesAlike(p[n].countries, q[n].countries, id)

LEMMA WayStays ==
  ASSUME NEW p, NEW q, NEW id, TreesAlike(p, q, id), NEW i, NEW j, NEW k, NEW l, Way(p, i, j, k, l, id)
  PROVE  Way(q, i, j, k, l, id)
<1>1. ASSUME NEW a, NEW b, SitesAlike(a, b, id)
      PROVE  /\ Has(b, id) <=> Has(a, id)
             /\ \A n : FirstSite(a, n, id) => FirstSite(b, n, id)
  <2>1. DOMAIN a = 1..Len(a) /\ DOMAIN b = 1..Len(b) /\ Len(a) \in Nat /\ Len(b) \in Nat
    BY <1>1, ListBasics DEF SitesAlike
  <2>2. Has(b, id) <=> Has(a, id)
    BY <1>1 DEF SitesAlike, Has
  <2>3. ASSUME NEW n, FirstSite(a, n, id) PROVE FirstSite(b, n, id)
    <3>1. n \in DOMAIN b /\ b[n].id = id /\ n \in DOMAIN a
      BY <1>1, <2>3 DEF SitesAlike, FirstSite
    <3>2. ASSUME NEW m \in DOMAIN b, m < n PROVE b[m].id # id
      <4>1. m \in DOMAIN a
        BY <2>1, <3>1, <3>2
      <4> QED BY <1>1, <2>3, <3>2, <4>1 DEF SitesAlike, FirstSite
    <3> QED BY <3>1, <3>2 DEF FirstSite
  <2> QED BY <2>2, <2>3
<1>2. ASSUME NEW a, NEW b, CitiesAlike(a, b, id)
      PROVE  /\ InCities(b, id) <=> InCities(a, id)
             /\ \A n : FirstCity(a, n, id) => FirstCity(b, n, id) /\ SitesAlike(a[n].sites, b[n].sites, id)
  BY <1>1, <1>2 DEF CitiesAlike, InCities, FirstCity
<1>3. ASSUME NEW a, NEW b, CountriesAlike(a, b, id)
      PROVE  /\ InCountries(b, id) <=> InCountries(a, id)
             /\ \A n : FirstCountry(a, n, id)
                       => FirstCountry(b, n, id) /\ CitiesAlike(a[n].cities, b[n].cities, id)
  BY <1>2, <1>3 DEF CountriesAlike, InCountries, FirstCountry
<1>4. FirstRegion(p, i, id) /\ WayInRegion(p[i], j, k, l, id)
  BY DEF Way
<1>5. FirstRegion(q, i, id) /\ CountriesAlike(p[i].countries, q[i].countries, id)
  BY <1>3, <1>4 DEF TreesAlike, FirstRegion
<1> DEFINE a == p[i]
           b == q[i]
<1> HIDE DEF a, b
<1>6. /\ FirstCountry(a.countries, j, id) /\ WayInCountry(a.countries[j], k, l, id)
      /\ CountriesAlike(a.countries, b.countries, id)
  BY <1>4, <1>5 DEF WayInRegion, a, b
<1>7. FirstCountry(b.countries, j, id) /\ CitiesAlike(a.countries[j].cities, b.countries[j].cities, id)
  BY <1>3, <1>6
<1>8. FirstCity(a.countries[j].cities, k, id) /\ WayInCity(a.countries[j].cities[k], l, id)
  BY <1>6 DEF WayInCountry
<1>9. /\ FirstCity(b.countries[j].cities, k, id)
      /\ SitesAlike(a.countries[j].cities[k].sites, b.countries[j].cities[k].sites, id)
  BY <1>2, <1>7, <1>8
<1>10. FirstSite(b.countries[j].cities[k].sites, l, id)
  BY <1>1, <1>8, <1>9 DEF WayInCity
<1>11. WayInRegion(b, j, k, l, id)
  BY <1>7, <1>9, <1>10 DEF WayInRegion, WayInCountry, WayInCity
<1> QED BY <1>5, <1>11 DEF Way, b

(* A lookup after the fields of a site changed. *)
LEMMA FoundUpdated ==
  ASSUME NEW B, B.sites = {}, NEW t, Sound(B, t), NEW id \in SiteIds(t.core), NEW patch, "id" \notin DOMAIN patch,
         NEW form \in SiteIds(t.core)
  PROVE  FindSite(UpdateSite(t, id, patch).core, form)
           = IF form = id THEN PatchSite(FindSite(t.core, form), patch) ELSE FindSite(t.core, form)
<1> DEFINE home == SiteCity(t, id)
           One(x) == IF x.id = id THEN PatchSite(x, patch) ELSE x
           F(ct) == IF ct.id = home
                    THEN [ct EXCEPT !.sites = [i \in DOMAIN ct.sites |-> One(ct.sites[i])]] ELSE ct
           C(c) == [c EXCEPT !.cities = [k \in DOMAIN c.cities |-> F(c.cities[k])]]
           G(r) == [r EXCEPT !.countries = [j \in DOMAIN r.countries |-> C(r.countries[j])]]
           p == t.core.regions
           q == [i \in DOMAIN p |-> G(p[i])]
           u == UpdateSite(t, id, patch)
<1>1. UpdateSite(t, id, patch) = WithRegions(t, q)
  BY DEF UpdateSite, InCity, EditCities, EditCountries, MapRegions, MapCountries, Map
<1>2. Sound(B, UpdateSite(t, id, patch))
  BY SiteEdited
<1>3. IsTree(B, p)
  BY DEF Sound, Planted
<1>4. u.core.regions = q
  BY <1>1 DEF WithRegions, Sound, Planted, Shaped, IsStateAt, CoreFields
<1>5. IsTree(B, u.core.regions)
  BY <1>2 DEF Sound, Planted
<1>6. ASSUME NEW x, IsSite(B, x) PROVE One(x).id = x.id
  BY <1>6 DEF IsSite, PatchSite, Patched
<1> HIDE DEF home, One
<1>7. ASSUME NEW ct, IsCity(B, ct) PROVE SitesAlike(ct.sites, F(ct).sites, form)
  <2>1. CASE ct.id # home
    BY <2>1, <1>7 DEF SitesAlike, IsCity
  <2>2. CASE ct.id = home
    <3> DEFINE a == ct.sites
               b == [i \in DOMAIN a |-> One(a[i])]
    <3>1. F(ct).sites = b
      BY <2>2, <1>7 DEF IsCity
    <3>2. Listed(a) /\ Listed(b) /\ DOMAIN b = DOMAIN a /\ \A i \in DOMAIN a : b[i].id = a[i].id
      BY <1>6, <1>7, ListMade DEF IsCity
    <3> QED BY <3>1, <3>2 DEF SitesAlike
  <2> QED BY <2>1, <2>2
<1> HIDE DEF F
<1>8. ASSUME NEW c, IsCountry(B, c) PROVE CitiesAlike(c.cities, C(c).cities, form)
  BY <1>7, <1>8 DEF CitiesAlike, IsCountry
<1> HIDE DEF C
<1>9. ASSUME NEW r, IsRegion(B, r) PROVE CountriesAlike(r.countries, G(r).countries, form)
  BY <1>8, <1>9 DEF CountriesAlike, IsRegion
<1> HIDE DEF G
<1>10. TreesAlike(p, q, form)
  BY <1>3, <1>9 DEF TreesAlike, IsTree
<1>11. PICK i, j, k, l : Leading(t, form, i, j, k, l)
  BY <1>3, WayTo
<1>12. Way(p, i, j, k, l, form)
  BY <1>11 DEF Leading
<1>13. Way(q, i, j, k, l, form)
  BY <1>10, <1>12, WayStays
<1> HIDE DEF q, u
<1>14. FindSite(t.core, form) = SiteAt(p, i, j, k, l) /\ SiteCity(t, form) = CityAt(p, i, j, k).id
  BY <1>11 DEF Leading
<1> HIDE DEF p
<1>15. FindSite(u.core, form) = SiteAt(q, i, j, k, l)
  BY <1>4, <1>5, <1>13, WayFindsSite
<1> USE DEF q
<1>16. /\ i \in DOMAIN p /\ j \in DOMAIN p[i].countries /\ k \in DOMAIN p[i].countries[j].cities
       /\ l \in DOMAIN CityAt(p, i, j, k).sites /\ SiteAt(p, i, j, k, l).id = form
  BY <1>12 DEF Way, FirstRegion, WayInRegion, FirstCountry, WayInCountry, FirstCity, WayInCity,
               FirstSite, CityAt, SiteAt
<1> DEFINE ct == CityAt(p, i, j, k)
           x == SiteAt(p, i, j, k, l)
<1>17. CityAt(q, i, j, k) = F(ct) /\ IsCity(B, ct)
  <2>1. q[i] = G(p[i]) /\ IsRegion(B, p[i])
    BY <1>3, <1>16 DEF IsTree
  <2>2. G(p[i]).countries[j] = C(p[i].countries[j]) /\ IsCountry(B, p[i].countries[j])
    BY <1>16, <2>1 DEF G, IsRegion
  <2>3. C(p[i].countries[j]).cities[k] = F(ct) /\ IsCity(B, ct)
    BY <1>16, <2>2 DEF C, CityAt, IsCountry
  <2> HIDE DEF q
  <2> QED BY <2>1, <2>2, <2>3 DEF CityAt
<1>18. SiteAt(q, i, j, k, l) = F(ct).sites[l] /\ x = ct.sites[l] /\ l \in DOMAIN ct.sites /\ x.id = form
  BY <1>16, <1>17 DEF SiteAt
<1> HIDE DEF q, ct, x
<1>19. form = id => ct.id = home
  BY <1>14 DEF home, ct
<1>20. SiteAt(q, i, j, k, l) = IF form = id THEN PatchSite(x, patch) ELSE x
  <2>1. CASE ct.id = home
    <3>1. F(ct).sites[l] = One(x)
      BY <2>1, <1>17, <1>18 DEF F, IsCity
    <3> QED BY <3>1, <1>18 DEF One
  <2>2. CASE ct.id # home
    BY <2>2, <1>18, <1>19 DEF F
  <2> QED BY <2>1, <2>2
<1> QED BY <1>14, <1>15, <1>20 DEF x, u

(* A lookup after new sites were added under a city. *)
LEMMA FoundBeside ==
  ASSUME NEW B, NEW t, Sound(B, t), NEW id, NEW new, Listed(new),
         NEW form \in SiteIds(t.core), \A i \in DOMAIN new : IsSite(B, new[i]) /\ new[i].id # form
  PROVE  FindSite(AddSites(t, id, new).core, form) = FindSite(t.core, form)
<1> DEFINE F(ct) == IF ct.id = id THEN PutInCity(ct, new) ELSE ct
           C(c) == [c EXCEPT !.cities = [k \in DOMAIN c.cities |-> F(c.cities[k])]]
           G(r) == [r EXCEPT !.countries = [j \in DOMAIN r.countries |-> C(r.countries[j])]]
           p == t.core.regions
           q == [i \in DOMAIN p |-> G(p[i])]
           u == AddSites(t, id, new)
<1>1. AddSites(t, id, new) = WithRegions(t, q)
  BY DEF AddSites, InCity, EditCities, EditCountries, MapRegions, MapCountries, Map
<1>2. Sound(B, AddSites(t, id, new))
  BY SitesAppended
<1>3. IsTree(B, p)
  BY DEF Sound, Planted
<1>4. u.core.regions = q
  BY <1>1 DEF WithRegions, Sound, Planted, Shaped, IsStateAt, CoreFields
<1>5. IsTree(B, u.core.regions)
  BY <1>2 DEF Sound, Planted
<1>6. ASSUME NEW a, Listed(a)
      PROVE  SitesAlike(a, a \o new, form) /\ \A i \in DOMAIN a : (a \o new)[i] = a[i]
  <2> DEFINE S == Range(a) \union Range(new)
             b == a \o new
  <2>1. a \in Seq(S) /\ new \in Seq(S)
    BY <1>6 DEF Listed
  <2> HIDE DEF S
  <2>2. /\ b \in Seq(S) /\ Len(b) = Len(a) + Len(new)
        /\ \A i \in 1..Len(a) : b[i] = a[i]
        /\ \A i \in 1..Len(new) : b[Len(a) + i] = new[i]
    BY <2>1
  <2>3. /\ Len(a) \in Nat /\ Len(new) \in Nat
        /\ DOMAIN a = 1..Len(a) /\ DOMAIN new = 1..Len(new) /\ DOMAIN b = 1..(Len(a) + Len(new))
    BY <2>1, <2>2
  <2>4. Listed(b) /\ \A i \in DOMAIN a : i \in DOMAIN b /\ b[i] = a[i]
    BY <1>6, ListJoined
  <2> HIDE DEF b
  <2>5. ASSUME NEW i \in DOMAIN b, i \notin DOMAIN a PROVE b[i].id # form
    <3> DEFINE k == i - Len(a)
    <3>1. k \in 1..Len(new) /\ i = Len(a) + k
      BY <2>3, <2>5
    <3> HIDE DEF k
    <3> QED BY <2>2, <2>3, <3>1
  <2> QED BY <1>6, <2>4, <2>5 DEF SitesAlike, b
<1>7. ASSUME NEW ct, IsCity(B, ct)
      PROVE  SitesAlike(ct.sites, F(ct).sites, form) /\ \A i \in DOMAIN ct.sites : F(ct).sites[i] = ct.sites[i]
  <2>1. CASE ct.id # id
    BY <2>1, <1>7 DEF SitesAlike, IsCity
  <2>2. CASE ct.id = id
    <3>1. F(ct).sites = ct.sites \o new
      BY <2>2, <1>7 DEF IsCity, PutInCity
    <3>2. Listed(ct.sites)
      BY <1>7 DEF IsCity
    <3> QED BY <3>1, <3>2, <1>6
  <2> QED BY <2>1, <2>2
<1> HIDE DEF F
<1>8. ASSUME NEW c, IsCountry(B, c) PROVE CitiesAlike(c.cities, C(c).cities, form)
  BY <1>7, <1>8 DEF CitiesAlike, IsCountry
<1> HIDE DEF C
<1>9. ASSUME NEW r, IsRegion(B, r) PROVE CountriesAlike(r.countries, G(r).countries, form)
  BY <1>8, <1>9 DEF CountriesAlike, IsRegion
<1> HIDE DEF G
<1>10. TreesAlike(p, q, form)
  BY <1>3, <1>9 DEF TreesAlike, IsTree
<1>11. PICK i, j, k, l : Leading(t, form, i, j, k, l)
  BY <1>3, WayTo
<1>12. Way(p, i, j, k, l, form)
  BY <1>11 DEF Leading
<1>13. Way(q, i, j, k, l, form)
  BY <1>10, <1>12, WayStays
<1> HIDE DEF q, u
<1>14. FindSite(t.core, form) = SiteAt(p, i, j, k, l)
  BY <1>11 DEF Leading
<1> HIDE DEF p
<1>15. FindSite(u.core, form) = SiteAt(q, i, j, k, l)
  BY <1>4, <1>5, <1>13, WayFindsSite
<1> USE DEF q
<1>16. /\ i \in DOMAIN p /\ j \in DOMAIN p[i].countries /\ k \in DOMAIN p[i].countries[j].cities
       /\ l \in DOMAIN CityAt(p, i, j, k).sites
  BY <1>12 DEF Way, FirstRegion, WayInRegion, FirstCountry, WayInCountry, FirstCity, WayInCity,
               FirstSite, CityAt
<1>17. CityAt(q, i, j, k) = F(CityAt(p, i, j, k)) /\ IsCity(B, CityAt(p, i, j, k))
  <2>1. q[i] = G(p[i]) /\ IsRegion(B, p[i])
    BY <1>3, <1>16 DEF IsTree
  <2>2. G(p[i]).countries[j] = C(p[i].countries[j]) /\ IsCountry(B, p[i].countries[j])
    BY <1>16, <2>1 DEF G, IsRegion
  <2>3. C(p[i].countries[j]).cities[k] = F(CityAt(p, i, j, k)) /\ IsCity(B, CityAt(p, i, j, k))
    BY <1>16, <2>2 DEF C, CityAt, IsCountry
  <2> HIDE DEF q
  <2> QED BY <2>1, <2>2, <2>3 DEF CityAt
<1> HIDE DEF q
<1>18. SiteAt(q, i, j, k, l) = SiteAt(p, i, j, k, l)
  BY <1>7, <1>16, <1>17 DEF SiteAt
<1> QED BY <1>14, <1>15, <1>18 DEF u

-----------------------------------------------------------------------------
(* What a change leaves of the fields the timer fills in. *)

(* Neither a site nor a mark changes. *)
Untouched(t, u) ==
  u.core.regions = t.core.regions /\ u.ui.siteOverrides = t.ui.siteOverrides

(* Of the fields that can be derived only marked ones change, and none     *)
(* loses its mark.                                                         *)
OnlyMarkedChange(t, u, form) ==
  \A x \in DeriveFields \ OverridesOf(u, form) :
    /\ x \notin OverridesOf(t, form)
    /\ FindSite(u.core, form).f[x] = FindSite(t.core, form).f[x]

LEMMA SameSites ==
  ASSUME NEW t, NEW u, u.core.regions = t.core.regions
  PROVE  SiteIds(u.core) = SiteIds(t.core) /\ \A id : FindSite(u.core, id) = FindSite(t.core, id)
  BY DEF SiteIds, FindSite, AllSites

LEMMA UntouchedStays ==
  ASSUME NEW t, NEW u, Untouched(t, u)
  PROVE  /\ \A id : OverridesOf(u, id) = OverridesOf(t, id)
         /\ \A form : OnlyMarkedChange(t, u, form)
         /\ \A r, form : OnlyMarkedChange(r, t, form) => OnlyMarkedChange(r, u, form)
<1>1. \A id : OverridesOf(u, id) = OverridesOf(t, id)
  BY DEF Untouched, OverridesOf
<1>2. \A id : FindSite(u.core, id) = FindSite(t.core, id)
  BY SameSites DEF Untouched
<1> QED BY <1>1, <1>2 DEF OnlyMarkedChange

(* The actions beside the tree, and the effects of a commit. *)
LEMMA UntouchedBy ==
  ASSUME NEW t, Shaped(t), NEW x, NEW new
  PROVE  /\ Untouched(t, SetSelectedPath(t, x)) /\ Untouched(t, SetActiveStep(t, x))
         /\ Untouched(t, DismissIssue(t, x)) /\ Untouched(t, EndDismissals(t, x))
         /\ Untouched(t, SiteSetMode(t, x, new)) /\ Untouched(t, AutoTier(t))
         /\ Untouched(t, AutoFillSecurity(t)) /\ Untouched(t, AutoSelect(t, x))
<1> USE DEF Untouched, Shaped, IsStateAt, UIFields, CoreFields
<1>1. \A path : Untouched(t, SetSelectedPath(t, path))
  BY DEF SetSelectedPath
<1>2. Untouched(t, SetActiveStep(t, x))
  BY DEF SetActiveStep
<1>3. Untouched(t, DismissIssue(t, x))
  BY DEF DismissIssue
<1>4. Untouched(t, EndDismissals(t, x))
  BY DEF EndDismissals
<1>5. Untouched(t, SiteSetMode(t, x, new))
  BY DEF SiteSetMode
<1>6. Untouched(t, AutoTier(t))
  BY DEF AutoTier
<1>7. Untouched(t, AutoFillSecurity(t))
  <2> DEFINE recalc == SecurityRecalcFromSites(t)
  <2>1. recalc.core.regions = t.core.regions
    BY DEF SecurityRecalcFromSites
  <2>2. recalc.ui.siteOverrides = t.ui.siteOverrides
    BY DEF SecurityRecalcFromSites
  <2>3. AutoFillSecurity(t) = t \/ AutoFillSecurity(t) = recalc
    BY DEF AutoFillSecurity
  <2> HIDE DEF recalc
  <2> QED BY <2>1, <2>2, <2>3
<1>8. Untouched(t, AutoSelect(t, x))
  <2> HIDE DEF Untouched, Shaped, IsStateAt
  <2>1. Untouched(t, t)
    BY DEF Untouched
  <2>2. AutoSelect(t, x) = t \/ \E path : AutoSelect(t, x) = SetSelectedPath(t, path)
    BY DEF AutoSelect
  <2> QED BY <1>1, <2>1, <2>2
<1> HIDE DEF Untouched, Shaped, IsStateAt
<1> QED BY <1>1, <1>2, <1>3, <1>4, <1>5, <1>6, <1>7, <1>8

LEMMA UntouchedByEffects ==
  ASSUME NEW t, Shaped(t), NEW pg, NEW active, NEW tb
  PROVE  Untouched(t, Effects(Heard(t, pg), pg, active, tb))
<1> DEFINE u == Heard(t, pg)
<1>1. Untouched(t, u) /\ Shaped(u)
  BY UntouchedBy, InterfaceActions DEF Heard, Aside, Untouched
<1> HIDE DEF u
<1>2. /\ Untouched(u, AutoSelect(u, active)) /\ Untouched(u, AutoTier(u))
      /\ Untouched(u, AutoFillSecurity(u)) /\ Untouched(u, u)
  BY <1>1, UntouchedBy DEF Untouched
<1>3. Untouched(u, Effects(u, pg, active, tb))
  BY <1>2 DEF Effects
<1> QED BY <1>1, <1>3 DEF Untouched, u

(* They leave the interface state alone. *)
LEMMA FieldsBesideUI ==
  ASSUME NEW t, Shaped(t), NEW id, NEW patch
  PROVE  UpdateSite(t, id, patch).ui = t.ui
  BY DEF UpdateSite, InCity, EditCities, EditCountries, MapRegions, WithRegions, Shaped, IsStateAt

(* New values of the fields of a site. *)
LEMMA FieldsStay ==
  ASSUME NEW B, B.sites = {}, NEW t, Sound(B, t), NEW id, NEW patch, "id" \notin DOMAIN patch,
         NEW form \in SiteIds(t.core)
  PROVE  /\ \A x \in NumberFields : x \notin DOMAIN patch \/ form # id =>
              FindSite(UpdateSite(t, id, patch).core, form).f[x] = FindSite(t.core, form).f[x]
         /\ \A x \in NumberFields : x \in DOMAIN patch /\ form = id =>
              FindSite(UpdateSite(t, id, patch).core, form).f[x] = patch[x]
<1> DEFINE u == UpdateSite(t, id, patch)
           old == FindSite(t.core, form)
<1>1. IsSite(B, old)
  BY SiteFound, SitesTyped DEF Sound
<1>3. PatchSite(old, patch).f = Patched(old.f, patch) /\ NumberFields \subseteq DOMAIN old.f
  BY <1>1 DEF PatchSite, Patched, IsSite
<1>4. CASE id \notin SiteIds(t.core)
  <2>1. u = t /\ form # id
    BY <1>4 DEF UpdateSite
  <2> QED BY <2>1
<1>5. CASE id \in SiteIds(t.core)
  <2>1. FindSite(u.core, form) = IF form = id THEN PatchSite(old, patch) ELSE old
    BY <1>5, FoundUpdated
  <2> HIDE DEF u, old
  <2>2. /\ \A x \in NumberFields : x \notin DOMAIN patch \/ form # id =>
              FindSite(u.core, form).f[x] = old.f[x]
        /\ \A x \in NumberFields : x \in DOMAIN patch /\ form = id =>
              FindSite(u.core, form).f[x] = patch[x]
    BY <1>3, <2>1 DEF Patched
  <2> QED BY <2>2 DEF u, old
<1> QED BY <1>4, <1>5

-----------------------------------------------------------------------------
(* What the form of step 2 offers. *)

(* The site whose form is on screen, 0 when there is none. *)
FormNow == FormIn(s, page, region)

(* It is a site of the tree, with an identifier that was handed out. *)
LEMMA FormIsSite ==
  ASSUME SettledInv, FormNow # 0
  PROVE  /\ page = "sizer" /\ s.ui.activeStep = 2 /\ FormNow = FormSiteId(s, region)
         /\ FormNow \in SiteIds(s.core) /\ FormNow \in Below(nextId).ids
         /\ FindSite(s.core, FormNow).id = FormNow
<1>1. page = "sizer" /\ s.ui.activeStep = 2 /\ FormNow = FormSiteId(s, region)
  BY DEF FormNow, FormIn, Shows
<1>2. s.ui.selectedPath.kind = "site" /\ FormNow = s.ui.selectedPath.id
  BY <1>1 DEF FormSiteId
<1>3. FormNow \in SiteIds(s.core)
  BY <1>2 DEF SettledInv, Sound, Resolves, NodeIds
<1>4. FindSite(s.core, FormNow) \in Range(AllSites(s.core)) /\ FindSite(s.core, FormNow).id = FormNow
  BY <1>3, SiteFound DEF SettledInv, Sound
<1>5. FormNow \in Below(nextId).ids
  BY <1>4, SitesTyped DEF SettledInv, Sound, IsSite, Below, Only
<1> QED BY <1>1, <1>3, <1>4, <1>5

(* A field of a site: one that can be overridden is marked before it is    *)
(* written.                                                                *)
LEMMA FieldEdited ==
  ASSUME SettledInv, NEW form \in SiteIds(s.core), NEW id, NEW x \in NumberFields, NEW v
  PROVE  /\ OnlyMarkedChange(s, SetField(Marked(id, x), id, x, v), form)
         /\ x \notin DeriveFields => OnlyMarkedChange(s, SetField(s, id, x, v), form)
<1> DEFINE B == Below(nextId)
           u == Marked(id, x)
           patch == [y \in {x} |-> v]
           w == UpdateSite(u, id, patch)
<1>1. Sound(B, s) /\ Shaped(s) /\ B.sites = {}
  BY DEF SettledInv, Sound, Planted, Below, Only
<1>2. Sound(B, u)
  BY <1>1, InterfaceActions, AsideSound DEF Marked
<1>3. u.core.regions = s.core.regions
  BY <1>1, InterfaceActions DEF Marked, Aside
<1>4. \A y \in DeriveFields : y \notin OverridesOf(u, form) => y \notin OverridesOf(s, form)
  <2> DEFINE marks == [y \in {id} |-> OverridesOf(s, id) \union {x}]
             all == Overlaid(s.ui.siteOverrides, marks)
  <2>1. CASE x \in DeriveFields
    <3>1. u.ui.siteOverrides = all
      BY <1>1, <2>1 DEF Marked, SiteMarkOverride, Shaped, IsStateAt, UIFields
    <3> HIDE DEF u
    <3> QED BY <3>1 DEF OverridesOf, Overlaid
  <2>2. CASE x \notin DeriveFields
    BY <2>2 DEF Marked
  <2> QED BY <2>1, <2>2
<1>5. x \in DeriveFields => x \in OverridesOf(u, id)
  <2> SUFFICES ASSUME x \in DeriveFields PROVE x \in OverridesOf(u, id)
    OBVIOUS
  <2> DEFINE marks == [y \in {id} |-> OverridesOf(s, id) \union {x}]
             all == Overlaid(s.ui.siteOverrides, marks)
  <2>1. u.ui.siteOverrides = all
    BY <1>1 DEF Marked, SiteMarkOverride, Shaped, IsStateAt, UIFields
  <2> HIDE DEF u
  <2> QED BY <2>1 DEF OverridesOf, Overlaid
<1>6. x # "id" /\ DOMAIN patch = {x} /\ DeriveFields \subseteq NumberFields
  BY DEF NumberFields, DeriveFields, SplitFields
<1> HIDE DEF B, u, patch
<1>7. SiteIds(u.core) = SiteIds(s.core) /\ FindSite(u.core, form) = FindSite(s.core, form)
  BY <1>3, SameSites
<1>8. /\ \A y \in NumberFields : y \notin DOMAIN patch \/ form # id =>
           FindSite(w.core, form).f[y] = FindSite(u.core, form).f[y]
  BY <1>1, <1>2, <1>6, <1>7, FieldsStay
<1>13. w.ui = u.ui
  BY <1>2, FieldsBesideUI DEF Sound, Planted
<1> HIDE DEF w
<1>9. OverridesOf(w, form) = OverridesOf(u, form)
  BY <1>13 DEF OverridesOf
<1>10. OnlyMarkedChange(s, w, form)
  BY <1>4, <1>5, <1>6, <1>7, <1>8, <1>9 DEF OnlyMarkedChange
<1>11. w = SetField(Marked(id, x), id, x, v)
  BY DEF w, u, patch, SetField
<1>12. x \notin DeriveFields => Marked(id, x) = s
  BY DEF Marked
<1> QED BY <1>10, <1>11, <1>12

(* A patch of other fields. *)
LEMMA OtherFieldEdited ==
  ASSUME SettledInv, NEW form \in SiteIds(s.core), NEW id, NEW patch, "id" \notin DOMAIN patch,
         DOMAIN patch \intersect DeriveFields = {}
  PROVE  OnlyMarkedChange(s, UpdateSite(s, id, patch), form)
<1> DEFINE B == Below(nextId)
           t == s
           w == UpdateSite(t, id, patch)
<1>1. Sound(B, t) /\ form \in SiteIds(t.core) /\ B.sites = {}
  BY DEF SettledInv, Below, Only
<1> HIDE DEF B, t
<1>2. \A y \in NumberFields : y \notin DOMAIN patch \/ form # id =>
        FindSite(w.core, form).f[y] = FindSite(t.core, form).f[y]
  BY <1>1, FieldsStay
<1>3. w.ui = t.ui
  BY <1>1, FieldsBesideUI DEF Sound, Planted
<1>4. \A y \in DeriveFields : y \in NumberFields /\ y \notin DOMAIN patch
  BY DEF NumberFields
<1> HIDE DEF w
<1>5. OverridesOf(w, form) = OverridesOf(t, form)
  BY <1>3 DEF OverridesOf
<1>6. OnlyMarkedChange(t, w, form)
  BY <1>2, <1>4, <1>5 DEF OnlyMarkedChange
<1> QED BY <1>6 DEF t, w

(* Clones are other sites. *)
LEMMA CloneEdited ==
  ASSUME SettledInv, NEW form \in SiteIds(s.core), form \in Below(nextId).ids, NEW id, NEW n \in Int
  PROVE  OnlyMarkedChange(s, CloneSite(s, id, n, nextId), form)
<1>1. CASE id \notin SiteIds(s.core)
  BY <1>1 DEF CloneSite, OnlyMarkedChange
<1>2. CASE id \in SiteIds(s.core)
  <2> DEFINE ids == NewIds(nextId, CloneCount(n))
             v == CloneSite(s, id, n, nextId)
  <2>1. nextId \in Nat /\ CloneCount(n) \in Nat
    BY ClonesAssumption DEF SettledInv, CloneCount
  <2>2. ids \subseteq Nat /\ form \notin ids
    BY <2>1 DEF NewIds, Below, Only
  <2>3. Sound(AnyId, s) /\ ids \subseteq AnyId.ids
    <3>1. Below(nextId).ids \subseteq AnyId.ids /\ Below(nextId).sites \subseteq AnyId.sites
      BY DEF Below, AnyId, Only
    <3> QED BY <2>2, <3>1, SoundMore DEF SettledInv, AnyId, Only
  <2>4. PICK clones, marks : Cloned(AnyId, s, id, ids, clones, marks, v)
    BY <1>2, <2>1, <2>3, CloneMade
  <2> DEFINE u == AddSites(s, SiteCity(s, id), clones)
             all == Overlaid(u.ui.siteOverrides, marks)
  <2>5. /\ Listed(clones) /\ \A i \in DOMAIN clones : IsSite(AnyId, clones[i]) /\ clones[i].id # form
        /\ form \notin DOMAIN marks
        /\ v = [u EXCEPT !.ui.siteOverrides = all]
    BY <2>2, <2>4 DEF Cloned
  <2>6. FindSite(u.core, form) = FindSite(s.core, form)
    BY <2>3, <2>5, FoundBeside
  <2>7. Sound(AnyId, u)
    BY <2>3, <2>5, SitesAppended
  <2>8. u.ui = s.ui
    BY <2>3 DEF AddSites, InCity, EditCities, EditCountries, MapRegions, WithRegions,
                Sound, Planted, Shaped, IsStateAt
  <2> HIDE DEF u, v
  <2>9. v.core = u.core /\ v.ui.siteOverrides = all
    BY <2>5, <2>7 DEF Sound, Planted, Shaped, IsStateAt, UIFields
  <2>10. OverridesOf(v, form) = OverridesOf(s, form)
    BY <2>5, <2>8, <2>9 DEF OverridesOf, Overlaid
  <2>11. FindSite(v.core, form) = FindSite(s.core, form)
    BY <2>6, <2>9
  <2>12. OnlyMarkedChange(s, v, form)
    BY <2>10, <2>11 DEF OnlyMarkedChange
  <2> QED BY <2>12 DEF v
<1> QED BY <1>1, <1>2

(* Everything step 2 offers leaves the fields of its form alone, but for   *)
(* marked ones.                                                            *)
KeepsForm(e) == OnlyMarkedChange(s, e.to, FormNow)

AllKeepForm(outcomes) == \A e \in outcomes : KeepsForm(e)

LEMMA BannerKeepsForm == SettledInv => AllKeepForm(Banner) /\ AllKeepForm(JumpTo)
<1> SUFFICES ASSUME SettledInv PROVE AllKeepForm(Banner) /\ AllKeepForm(JumpTo)
  OBVIOUS
<1>1. Shaped(s)
  BY DEF SettledInv, Sound, Planted
<1>2. \A n : Untouched(s, SetActiveStep(s, n))
  BY <1>1, UntouchedBy
<1>3. \A issue : AllKeepForm(GoTo(issue))
  <2> SUFFICES ASSUME NEW issue
               PROVE OnlyMarkedChange(s, SetSelectedPath(SetActiveStep(s, StepForIssue(issue)),
                                                         Selected("issue", issue.index)), FormNow)
    BY DEF GoTo, Edit, Outcome, AllKeepForm, KeepsForm
  <2> DEFINE u == SetActiveStep(s, StepForIssue(issue))
  <2>1. Shaped(u)
    <3>1. StepForIssue(issue) \in Steps
      BY DEF StepForIssue, Steps
    <3> QED BY <1>1, <3>1, InterfaceActions DEF Aside
  <2>2. OnlyMarkedChange(s, u, FormNow)
    BY <1>2, UntouchedStays
  <2> DEFINE v == SetSelectedPath(u, Selected("issue", issue.index))
  <2> HIDE DEF u
  <2>3. Untouched(u, v)
    BY <2>1, UntouchedBy
  <2> HIDE DEF v
  <2>4. OnlyMarkedChange(s, v, FormNow)
    BY <2>2, <2>3, UntouchedStays
  <2> QED BY <2>4 DEF u, v
<1>4. \A issue : AllKeepForm(Dismiss(issue))
  <2>1. \A code : OnlyMarkedChange(s, DismissIssue(s, code), FormNow)
    BY <1>1, UntouchedBy, UntouchedStays
  <2> QED BY <2>1 DEF Dismiss, Edit, Outcome, AllKeepForm, KeepsForm
<1>5. \A n : OnlyMarkedChange(s, SetActiveStep(s, n), FormNow)
  BY <1>2, UntouchedStays
<1>6. AllKeepForm(Banner)
  BY <1>3, <1>4 DEF Banner, AllKeepForm
<1>7. AllKeepForm(JumpTo)
  BY <1>5 DEF JumpTo, Outcome, AllKeepForm, KeepsForm
<1> QED BY <1>6, <1>7

LEMMA FormKeepsForm ==
  ASSUME SettledInv, FormNow # 0, NEW t
  PROVE  \A e \in FormEdits(t) : KeepsForm(e.edit)
<1>1. FormNow \in SiteIds(s.core) /\ FormNow \in Below(nextId).ids /\ Shaped(s)
  BY FormIsSite DEF SettledInv, Sound, Planted
<1>2. AllKeepForm(SiteForm(t.id))
  <2> DEFINE Renamed(name) == UpdateSite(s, t.id, [name |-> name])
             Times(n) == UpdateSite(s, t.id, [multiplier |-> n])
             named == {Outcome(Renamed(name), 0) : name \in NewNames}
             multiplied == {Outcome(Times(Larger(1, n)), 0) : n \in Values}
             switched == {Outcome(SiteSetMode(s, t.id, mode), 0) : mode \in {"users", "manual"}}
  <2>1. \A x : OnlyMarkedChange(s, Renamed(x), FormNow) /\ OnlyMarkedChange(s, Times(x), FormNow)
    <3>1. \A x : /\ DOMAIN [name |-> x] = {"name"} /\ DOMAIN [multiplier |-> x] = {"multiplier"}
                 /\ "name" \notin DeriveFields /\ "multiplier" \notin DeriveFields
      BY DEF DeriveFields
    <3> QED BY <1>1, <3>1, OtherFieldEdited
  <2>2. \A mode : OnlyMarkedChange(s, SiteSetMode(s, t.id, mode), FormNow)
    BY <1>1, UntouchedBy, UntouchedStays
  <2>3. SiteForm(t.id) = named \union multiplied \union switched
    BY DEF SiteForm
  <2> HIDE DEF Renamed, Times
  <2>4. AllKeepForm(named) /\ AllKeepForm(multiplied) /\ AllKeepForm(switched)
    BY <2>1, <2>2 DEF AllKeepForm, Outcome, KeepsForm
  <2> HIDE DEF named, multiplied, switched
  <2> QED BY <2>3, <2>4 DEF AllKeepForm
<1>3. \A x, v, u : OnlyMarkedChange(s, u, FormNow) => \A e \in Type(t.id, x, v, u) : KeepsForm(e.edit)
  BY DEF Type, Outcome, KeepsForm
<1>4. \A e \in UsersField(t.id) : KeepsForm(e.edit)
  <2>1. "users" \in NumberFields \ DeriveFields
    BY DEF NumberFields, DeriveFields
  <2>2. \A v : OnlyMarkedChange(s, SetField(s, t.id, "users", v), FormNow)
    BY <1>1, <2>1, FieldEdited
  <2> QED BY <1>3, <2>2 DEF UsersField
<1>5. \A e \in OnFieldEdit(t.id) : KeepsForm(e.edit)
  <2>1. \A p \in Typeable : p[1] \in NumberFields
    BY DEF Typeable, GridFields, NumberFields, DeriveFields, SplitFields
  <2>2. \A x, v : x \in NumberFields
                  => OnlyMarkedChange(s, SetField(Marked(t.id, x), t.id, x, v), FormNow)
    BY <1>1, FieldEdited
  <2>3. SUFFICES ASSUME NEW e \in OnFieldEdit(t.id) PROVE KeepsForm(e.edit)
    OBVIOUS
  <2>4. PICK p \in Typeable :
               e \in Type(t.id, p[1], p[2], SetField(Marked(t.id, p[1]), t.id, p[1], p[2]))
    BY <2>3 DEF OnFieldEdit
  <2> QED BY <1>3, <2>1, <2>2, <2>4
<1>6. \A e \in ClonePopover(t.id) : KeepsForm(e.edit)
  <2>1. \A n \in 0..(MaxClones + 1) : n \in Int
    BY ClonesAssumption
  <2>2. ASSUME NEW n \in 0..(MaxClones + 1)
        PROVE  KeepsForm(Outcome(CloneSite(s, t.id, n, nextId), CloneCount(n)))
    <3>1. OnlyMarkedChange(s, CloneSite(s, t.id, n, nextId), FormNow)
      BY <1>1, <2>1, CloneEdited
    <3> QED BY <3>1 DEF KeepsForm, Outcome
  <2> QED BY <2>2 DEF ClonePopover
<1> QED
  BY <1>2, <1>4, <1>5, <1>6 DEF FormEdits, Untyped, When, AllKeepForm

LEMMA OfferedKeepsForm ==
  ASSUME SettledInv, open, FormNow # 0
  PROVE  \A e \in Offered : KeepsForm(e.edit)
<1>1. page = "sizer" /\ s.ui.activeStep = 2 /\ Shaped(s)
  BY FormIsSite DEF SettledInv, Sound, Planted
<1>2. Offered = Untyped(PickSite \union RegionPill)
                \union UNION {FormEdits(t) : t \in When(FormShown, {FormSite})}
  BY <1>1 DEF Offered, StepShown, Shows
<1>3. AllKeepForm(PickSite \union RegionPill)
  <2>1. \A path : OnlyMarkedChange(s, SetSelectedPath(s, path), FormNow)
    BY <1>1, UntouchedBy, UntouchedStays
  <2>2. OnlyMarkedChange(s, s, FormNow)
    BY UntouchedStays DEF Untouched
  <2> QED BY <2>1, <2>2 DEF PickSite, RegionPill, Look, Outcome, AllKeepForm, KeepsForm
<1> QED BY <1>2, <1>3, FormKeepsForm DEF Untyped, AllKeepForm

-----------------------------------------------------------------------------
(* The derived values are fresh. *)

(* The fields of a form that derives and are not marked hold what its      *)
(* users and its marked fields give.                                       *)
FreshSite(t, u, marks) == FormDerives(t, u) => \A x \in DeriveFields \ marks : u.f[x] = Derived(t, u)[x]

FreshIn(t, form) == FreshSite(t, FindSite(t.core, form), OverridesOf(t, form))

FreshForm == /\ derive => FormNow # 0
             /\ FormNow # 0 /\ ~derive => FreshIn(s, FormNow)

(* What a commit does to the derive timer. *)
LEMMA CommitForm ==
  ASSUME NEW t, Shaped(t), NEW pg, NEW chosen, NEW tb, NEW renewed, Commit(t, pg, chosen, tb, renewed)
  PROVE  Untouched(t, s') /\ page' = pg /\ derive' = DeriveTimer(s', FormNow')
<1> DEFINE active == ActiveIn(t, pg, chosen)
           shown == TabIn(t, pg, tb)
           u == Effects(Heard(t, pg), pg, active, shown)
<1>1. Settle(u, pg, active, shown, renewed)
  BY DEF Commit
<1>2. Untouched(t, u)
  BY UntouchedByEffects
<1> HIDE DEF u, active, shown
<1>3. s' = u /\ page' = pg /\ region' = active /\ derive' = DeriveTimer(u, FormIn(u, pg, active))
  BY <1>1 DEF Settle
<1>4. FormNow' = FormIn(s', page', region')
  BY DEF FormNow
<1> QED BY <1>2, <1>3, <1>4

(* The key is that of no form, or says which form it is of, how many users *)
(* it has and which values they are derived with.                          *)
LEMMA SameKey ==
  ASSUME NEW t, NEW form, form # 0, NEW r, NEW was, DeriveKey(t, form) = DeriveKey(r, was)
  PROVE  /\ was = form
         /\ LET u == FindSite(t.core, form)
                v == FindSite(r.core, form)
            IN /\ OverridesForDerive(t, u) = OverridesForDerive(r, v)
               /\ FormDerives(t, u) => FormDerives(r, v) /\ u.f.users = v.f.users
<1> DEFINE u == FindSite(t.core, form)
           v == FindSite(r.core, was)
           Users(a, b) == IF SiteModeOf(a, b) = "users" THEN b.f.users ELSE Undef
<1>1. DeriveKey(t, form) = <<form, Users(t, u), OverridesForDerive(t, u)>>
  BY DEF DeriveKey
<1>2. DeriveKey(r, was) = IF was = 0 THEN <<>> ELSE <<was, Users(r, v), OverridesForDerive(r, v)>>
  BY DEF DeriveKey
<1> HIDE DEF Users
<1>6. \A x, y, z : <<x, y, z>> # <<>>
  <2>1. \A x, y, z : 1 \in DOMAIN <<x, y, z>>
    OBVIOUS
  <2>2. 1 \notin DOMAIN <<>>
    OBVIOUS
  <2> QED BY <2>1, <2>2
<1>7. \A x, y, z, a, b, c : <<x, y, z>> = <<a, b, c>> => x = a /\ y = b /\ z = c
  OBVIOUS
<1> HIDE DEF u, v
<1>3. was # 0
  BY <1>1, <1>2, <1>6
<1>4. was = form /\ Users(t, u) = Users(r, v) /\ OverridesForDerive(t, u) = OverridesForDerive(r, v)
  <2> DEFINE y == Users(t, u)
             b == Users(r, v)
             z == OverridesForDerive(t, u)
             c == OverridesForDerive(r, v)
  <2>1. <<form, y, z>> = <<was, b, c>>
    BY <1>1, <1>2, <1>3
  <2> HIDE DEF y, z, b, c
  <2>2. form = was /\ y = b /\ z = c
    BY <2>1, <1>7
  <2> QED BY <2>2 DEF y, z, b, c
<1>5. FormDerives(t, u) => FormDerives(r, v) /\ u.f.users = v.f.users
  BY <1>4 DEF FormDerives, Users, Undef
<1> QED BY <1>4, <1>5 DEF u, v

(* A change of marked fields only leaves fresh what the key does not tell. *)
LEMMA StaysFresh ==
  ASSUME NEW t, NEW r, NEW form, form # 0, DeriveKey(t, form) = DeriveKey(r, form),
         OnlyMarkedChange(r, t, form), FreshIn(r, form)
  PROVE  FreshIn(t, form)
<1> DEFINE u == FindSite(t.core, form)
           v == FindSite(r.core, form)
<1>1. /\ OverridesForDerive(t, u) = OverridesForDerive(r, v)
      /\ FormDerives(t, u) => FormDerives(r, v) /\ u.f.users = v.f.users
  BY SameKey
<1>2. FormDerives(t, u) => Derived(t, u) = Derived(r, v)
  BY <1>1 DEF Derived
<1>3. \A x \in DeriveFields \ OverridesOf(t, form) : x \notin OverridesOf(r, form) /\ u.f[x] = v.f[x]
  BY DEF OnlyMarkedChange
<1> QED BY <1>1, <1>2, <1>3 DEF FreshIn, FreshSite

LEMMA CommitFresh ==
  ASSUME FreshForm, NEW t, Shaped(t), NEW pg, NEW chosen, NEW tb, NEW renewed,
         Commit(t, pg, chosen, tb, renewed), FormNow # 0 => OnlyMarkedChange(s, t, FormNow)
  PROVE  FreshForm'
<1> DEFINE form == FormNow'
           u == s'
<1>1. Untouched(t, u) /\ derive' = DeriveTimer(u, form)
  BY CommitForm
<1>2. FormNow # 0 => OnlyMarkedChange(s, u, FormNow)
  BY <1>1, UntouchedStays
<1>3. FreshForm' <=> (derive' => form # 0) /\ (form # 0 /\ ~derive' => FreshIn(u, form))
  BY DEF FreshForm
<1>4. DeriveTimer(u, form) <=> IF DeriveKey(u, form) = DeriveKey(s, FormNow) THEN derive
                               ELSE form # 0 /\ FormDerives(u, FindSite(u.core, form))
  BY DEF DeriveTimer, FormNow
<1> HIDE DEF form, u
<1>5. CASE form = 0
  <2>1. DeriveKey(u, form) = <<>>
    BY <1>5 DEF DeriveKey
  <2>2. CASE FormNow = 0
    BY <1>1, <1>3, <1>4, <1>5, <2>2 DEF FreshForm
  <2>3. CASE FormNow # 0
    <3>1. DeriveKey(s, FormNow) # DeriveKey(u, form)
      BY <1>5, <2>3, SameKey
    <3> QED BY <1>1, <1>3, <1>4, <1>5, <3>1
  <2> QED BY <2>2, <2>3
<1>6. CASE form # 0
  <2>1. CASE DeriveKey(u, form) = DeriveKey(s, FormNow)
    <3>1. FormNow = form
      BY <1>6, <2>1, SameKey
    <3>2. ~derive => FreshIn(u, form)
      BY <1>2, <1>6, <2>1, <3>1, StaysFresh DEF FreshForm
    <3> QED BY <1>1, <1>3, <1>4, <1>6, <2>1, <3>2
  <2>2. CASE DeriveKey(u, form) # DeriveKey(s, FormNow)
    BY <1>1, <1>3, <1>4, <1>6, <2>2 DEF FreshIn, FreshSite
  <2> QED BY <2>1, <2>2
<1> QED BY <1>5, <1>6

(* One dispatch by the user. *)
LEMMA DoFresh ==
  ASSUME SettledInv, FreshForm, NEW e, \A B : B.sites = {} /\ Sound(B, s) => Allowed(B, e), Do(e),
         FormNow # 0 => KeepsForm(e)
  PROVE  FreshForm'
<1>1. Commit(e.to, page, e.region, e.tab, e.acts)
  BY DEF Do
<1>2. Shaped(e.to)
  <2>1. /\ Below(nextId).ids \subseteq AnyId.ids /\ Below(nextId).sites \subseteq AnyId.sites
        /\ AnyId.sites = {} /\ AnyId.ids = Nat /\ nextId \in Nat
    BY DEF Below, AnyId, Only, SettledInv
  <2>2. Sound(AnyId, s)
    BY <2>1, SoundMore DEF SettledInv
  <2>3. e.used \in Nat /\ Allowed(AnyId, e)
    BY <2>1, <2>2 DEF Allowed
  <2>4. NewIds(nextId, e.used) \subseteq AnyId.ids
    BY <2>1, <2>3 DEF NewIds
  <2> QED BY <2>2, <2>3, <2>4 DEF Allowed, Sound, Planted
<1> QED BY <1>1, <1>2, CommitFresh DEF KeepsForm

LEMMA EditSizerFresh == SettledInv /\ FreshForm /\ EditSizer => FreshForm'
<1> SUFFICES ASSUME SettledInv, FreshForm, EditSizer PROVE FreshForm'
  OBVIOUS
<1>1. nextId \in Nat
  BY DEF SettledInv
<1>2. PICK e \in When(s.ui.activeStep = 1, SizerStepRegions)
                 \union When(s.ui.activeStep = 3, SizerStepInfra) \union Banner \union JumpTo : Do(e)
  BY DEF EditSizer
<1>3. \A B : B.sites = {} /\ Sound(B, s) => Allowed(B, e)
  BY <1>1, <1>2, RegionsSound, InfraSound, BannerSound DEF LeadsToSound, When
<1>4. FormNow # 0 => KeepsForm(e)
  <2> SUFFICES ASSUME FormNow # 0 PROVE KeepsForm(e)
    OBVIOUS
  <2>1. s.ui.activeStep = 2
    BY FormIsSite
  <2>2. e \in Banner \union JumpTo
    BY <1>2, <2>1 DEF When
  <2> QED BY <2>2, BannerKeepsForm DEF AllKeepForm
<1> QED BY <1>2, <1>3, <1>4, DoFresh

LEMMA EditFormFresh == SettledInv /\ FreshForm /\ EditForm => FreshForm'
<1> SUFFICES ASSUME SettledInv, FreshForm, EditForm PROVE FreshForm'
  OBVIOUS
<1>1. nextId \in Nat
  BY DEF SettledInv
<1>2. open /\ \E e \in Offered : Do(e.edit)
  BY DEF EditForm
<1>3. PICK e \in Offered : Do(e.edit)
  BY <1>2
<1>4. \A B : B.sites = {} /\ Sound(B, s) => Allowed(B, e.edit)
  BY <1>1, <1>3, FormsSound
<1>5. FormNow # 0 => KeepsForm(e.edit)
  BY <1>2, <1>3, OfferedKeepsForm
<1> QED BY <1>3, <1>4, <1>5, DoFresh

(* The timer fires and writes the derived values of the form.              *)
LEMMA DeriveFresh == SettledInv /\ FreshForm /\ Derive => FreshForm'
<1> SUFFICES ASSUME SettledInv, FreshForm, Derive PROVE FreshForm'
  OBVIOUS
<1> DEFINE g == FormNow
           t == FindSite(s.core, g)
           marks == OverridesOf(s, g)
           values == Derived(s, t)
           patch == [x \in DOMAIN values \ marks |-> values[x]]
           d == UpdateSite(s, g, patch)
           u == FindSite(s'.core, g)
<1>1. g # 0
  BY DEF Derive, FreshForm
<1>2. /\ g = FormSiteId(s, region) /\ g \in SiteIds(s.core) /\ t.id = g /\ page = "sizer"
      /\ g = s.ui.selectedPath.id
  BY <1>1, FormIsSite DEF FormSiteId
<1>3. /\ s' = EndDismissals(SiteDerive(s, t.id, values), LastMessages(s.core))
      /\ derive' = FALSE /\ page' = page /\ region' = region
  BY <1>2 DEF Derive
<1>4. SiteDerive(s, t.id, values) = d
  BY <1>2 DEF SiteDerive
<1>5. DOMAIN values = DeriveFields \union SplitFields
  BY DEF Derived, DeriveFromUsers, Complete
<1>6. DOMAIN patch = (DeriveFields \union SplitFields) \ marks
  BY <1>5
<1>7. /\ "id" \notin DOMAIN patch /\ "users" \notin DOMAIN patch
      /\ DeriveFields \subseteq NumberFields /\ "users" \in NumberFields
  BY <1>6 DEF DeriveFields, SplitFields, NumberFields
<1>8. Sound(Below(nextId), s) /\ Shaped(s) /\ Below(nextId).sites = {}
  BY DEF SettledInv, Sound, Planted, Below, Only
<1>9. marks \subseteq DeriveFields
  BY <1>8 DEF OverridesOf, Sound, Planted, Shaped, AreMarks
<1>10. \A x \in DOMAIN patch : patch[x] = values[x]
  OBVIOUS
<1>11. Sound(Below(nextId), d)
  BY <1>7, <1>8, SiteEdited
<1> HIDE DEF patch
<1>12. /\ \A x \in NumberFields : x \notin DOMAIN patch => FindSite(d.core, g).f[x] = t.f[x]
       /\ \A x \in NumberFields : x \in DOMAIN patch => FindSite(d.core, g).f[x] = patch[x]
       /\ d.ui = s.ui
  <2> DEFINE B == Below(nextId)
             r == s
             form == g
             id == g
             w == UpdateSite(r, id, patch)
  <2>1. Sound(B, r) /\ form \in SiteIds(r.core) /\ form = id /\ B.sites = {}
    BY <1>2, <1>8
  <2> HIDE DEF B, r, form, id
  <2>2. \A x \in NumberFields : x \notin DOMAIN patch \/ form # id =>
          FindSite(w.core, form).f[x] = FindSite(r.core, form).f[x]
    BY <1>7, <2>1, FieldsStay
  <2>3. \A x \in NumberFields : x \in DOMAIN patch /\ form = id =>
          FindSite(w.core, form).f[x] = patch[x]
    BY <1>7, <2>1, FieldsStay
  <2>4. w.ui = r.ui
    BY <2>1, FieldsBesideUI DEF Sound, Planted
  <2> HIDE DEF w
  <2> QED BY <2>1, <2>2, <2>3, <2>4 DEF r, form, id, w
<1>13. FindSite(d.core, g).id = g
  <2>1. FindSite(d.core, g) = PatchSite(t, patch)
    BY <1>2, <1>7, <1>8, FoundUpdated
  <2>2. IsSite(Below(nextId), t)
    BY <1>2, <1>8, SiteFound, SitesTyped DEF Sound
  <2> QED BY <1>2, <1>7, <2>1, <2>2 DEF PatchSite, Patched, IsSite
<1>14. Untouched(d, s') /\ s'.ui.selectedPath = d.ui.selectedPath
  <2> HIDE DEF d
  <2>1. s' = EndDismissals(d, LastMessages(s.core)) /\ Shaped(d)
    BY <1>3, <1>4, <1>11 DEF Sound, Planted
  <2>2. Untouched(d, s')
    BY <2>1, UntouchedBy
  <2>3. s'.ui.selectedPath = d.ui.selectedPath
    BY <2>1 DEF EndDismissals, Shaped, IsStateAt, UIFields
  <2> QED BY <2>2, <2>3
<1> HIDE DEF d
<1>15. u = FindSite(d.core, g) /\ OverridesOf(s', g) = marks
  BY <1>12, <1>14, SameSites DEF Untouched, OverridesOf
<1>16. FormNow' = FormIn(s', page', region')
  BY DEF FormNow
<1>17. FormNow' # 0 => FormNow' = g
  BY <1>2, <1>12, <1>14, <1>16 DEF FormIn, FormSiteId
<1> HIDE DEF u, t, marks, values
<1>18. u.id = g /\ u.f["users"] = t.f["users"] /\ \A x \in marks : u.f[x] = t.f[x]
  BY <1>6, <1>7, <1>9, <1>12, <1>13, <1>15 DEF t
<1>19. OverridesForDerive(s', u) = OverridesForDerive(s, t)
  <2>1. t.id = g /\ OverridesOf(s, g) = marks
    BY <1>2 DEF t, marks
  <2> QED BY <1>15, <1>18, <2>1 DEF OverridesForDerive
<1>20. Derived(s', u) = values
  BY <1>18, <1>19 DEF Derived, values
<1>21. \A x \in DeriveFields \ marks : u.f[x] = values[x]
  BY <1>6, <1>7, <1>10, <1>12, <1>15
<1>22. FreshIn(s', g)
  BY <1>15, <1>20, <1>21 DEF FreshIn, FreshSite, u
<1> HIDE DEF g
<1>23. FormNow' # 0 => FreshIn(s', FormNow')
  BY <1>17, <1>22
<1> QED BY <1>3, <1>23 DEF FreshForm

LEMMA TurnPageFresh == SettledInv /\ FreshForm /\ TurnPage => FreshForm'
<1> SUFFICES ASSUME SettledInv, FreshForm, TurnPage PROVE FreshForm'
  OBVIOUS
<1>1. PICK pg : Commit(s, pg, region, tab, FALSE)
  BY DEF TurnPage, Turn
<1>2. Shaped(s) /\ OnlyMarkedChange(s, s, FormNow)
  BY UntouchedStays DEF SettledInv, Sound, Planted, Untouched
<1> QED BY <1>1, <1>2, CommitFresh

LEMMA OnResetFresh == SettledInv /\ FreshForm /\ OnReset => FreshForm'
<1> SUFFICES ASSUME SettledInv, FreshForm, OnReset PROVE FreshForm'
  OBVIOUS
<1>1. Commit(SetActiveStep(InitialSizerState, 1), "scan", region, tab, TRUE) /\ page = "report"
  BY DEF OnReset
<1>2. Shaped(SetActiveStep(InitialSizerState, 1))
  BY InitialSound, InterfaceActions DEF Steps, Sound, Planted, Aside
<1>3. FormNow = 0
  BY <1>1 DEF FormNow, FormIn, Shows
<1> QED BY <1>1, <1>2, <1>3, CommitFresh

(* An import leads from a page without a form to one that has just         *)
(* appeared.                                                               *)
LEMMA ImportFresh == SettledInv /\ FreshForm /\ HandleSizerImportConfirm => FreshForm'
<1> SUFFICES ASSUME SettledInv, FreshForm, HandleSizerImportConfirm PROVE FreshForm'
  OBVIOUS
<1>1. PICK scan \in Scans :
           /\ nextId' = MergeId(scan) + 2 * (Len(s.core.regions) + Len(scan.findings) + 1)
           /\ LET merged == ImportScan(Loaded(stored), Incoming(scan), MergeId(scan))
              IN \/ ImportDone(Loaded(stored), merged, ImportScan(s, Incoming(scan), MergeId(scan)))
                 \/ ImportFailed(merged)
  BY ImportCases
<1> DEFINE B == Below(nextId')
           merged == ImportScan(Loaded(stored), Incoming(scan), MergeId(scan))
           inApp == ImportScan(s, Incoming(scan), MergeId(scan))
           landed == SetActiveStep(inApp, LandingStep(merged))
<1>2. Sound(B, inApp)
  <2>1. /\ nextId' \in Nat /\ nextId <= nextId'
        /\ IsTree(B, Incoming(scan).regions) /\ Rows(Incoming(scan).niosx)
    BY <1>1, ImportIds
  <2> QED BY <2>1, HandedOut, MergeSound
<1> HIDE DEF B, merged, inApp
<1>3. Shaped(landed)
  BY <1>2, LandingSteps, InterfaceActions DEF Steps, Sound, Planted, Aside
<1>4. CASE ImportDone(Loaded(stored), merged, inApp)
  <2>1. Commit(landed, "sizer", region, tab, TRUE)
    BY <1>4 DEF ImportDone
  <2>2. FormNow = 0
    BY DEF HandleSizerImportConfirm, FormNow, FormIn, Shows
  <2> QED BY <1>3, <2>1, <2>2, CommitFresh
<1>5. CASE ImportFailed(merged)
  BY <1>5 DEF ImportFailed, live, FreshForm, FormNow
<1> QED BY <1>1, <1>4, <1>5 DEF merged, inApp

LEMMA FreshStep == SettledInv /\ FreshForm /\ [FormNext]_formVars => FreshForm'
<1> SUFFICES ASSUME SettledInv, FreshForm, [FormNext]_formVars PROVE FreshForm'
  OBVIOUS
<1>1. CASE EditForm
  BY <1>1, EditFormFresh
<1>2. CASE EditSizer \/ Derive \/ TurnPage \/ OnReset \/ HandleSizerImportConfirm
  BY <1>2, EditSizerFresh, DeriveFresh, TurnPageFresh, OnResetFresh, ImportFresh
<1>3. CASE UNCHANGED live
  BY <1>3 DEF live, FreshForm, FormNow
<1>4. CASE PersistTimer \/ PageHide \/ Kill \/ ShowBadge
  BY <1>3, <1>4 DEF PersistTimer, PageHide, Kill, ShowBadge
<1>5. CASE Reopen
  BY <1>5 DEF Reopen, FreshForm, FormNow, FormIn, Shows
<1>6. CASE UNCHANGED formVars
  BY <1>3, <1>6 DEF formVars, vars
<1> QED BY <1>1, <1>2, <1>4, <1>5, <1>6 DEF FormNext, Elsewhere, Next

LEMMA FreshInit == FormInit => FreshForm
  BY DEF FormInit, Init, FreshForm, FormNow, FormIn, Shows

LEMMA FreshInvariant == FormSpec => []FreshForm
  BY FreshInit, FreshStep, SettledInvariant, PTL DEF FormSpec

(* A form whose timer is not running shows derived values that are up to   *)
(* date with its users and its overrides, whatever led to it: edits,       *)
(* clones, moves between sites, regions, steps and pages while the timer   *)
(* ran, an import, or a reload.                                            *)
THEOREM DerivedValuesFresh == FormSpec => []DerivedFresh
<1>1. SettledInv /\ FreshForm => DerivedFresh
  <2> SUFFICES ASSUME SettledInv, FreshForm, FormShown, ~derive, FormDerives(s, FormSite),
                      NEW x \in DeriveFields \ OverridesOf(s, FormSite.id)
               PROVE  FormSite.f[x] = Derived(s, FormSite)[x]
    BY DEF DerivedFresh
  <2>1. FormNow # 0 /\ FormSite = FindSite(s.core, FormNow)
    BY DEF FormShown, FormSite, StepShown, FormNow, FormIn
  <2>2. FormSite.id = FormNow
    BY <2>1, FormIsSite
  <2>3. FreshSite(s, FormSite, OverridesOf(s, FormNow))
    BY <2>1 DEF FreshForm, FreshIn
  <2> QED BY <2>2, <2>3 DEF FreshSite
<1> QED BY <1>1, SettledInvariant, FreshInvariant, PTL
-----------------------------------------------------------------------------
(* What was typed.  Two regions of one name and type get the same sites    *)
(* from an import, with the same identifiers, and an edit reaches the      *)
(* first copy only; where the sites have identifiers of their own, every   *)
(* change leaves a site as it was or is meant for it.                      *)

LEMMA UniqueFound ==
  ASSUME NEW B, NEW t, Sound(B, t), UniqueSites(t),
         NEW a \in Range(AllSites(t.core)), NEW b \in Range(AllSites(t.core)), a.id = b.id
  PROVE  a = b
<1> DEFINE p == AllSites(t.core)
           n == Len(p)
           S == 1..n
           T == {p[k].id : k \in DOMAIN p}
           f == [k \in S |-> p[k].id]
<1>1. Listed(p) /\ DOMAIN p = S /\ n \in Nat
  BY SiteWalk, ListBasics DEF Sound, Planted
<1>2. Cardinality(T) = n
  BY DEF UniqueSites, SiteIds, IdsOf
<1>3. PICK i \in S, j \in S : a = p[i] /\ b = p[j]
  BY <1>1 DEF Range
<1> HIDE DEF p
<1>4. f \in Surjection(S, T)
  BY <1>1 DEF Surjection
<1>5. IsFiniteSet(S) /\ Cardinality(S) = n
  <2>1. 1 \in Int /\ n \in Int
    BY <1>1
  <2> HIDE DEF n
  <2>2. IsFiniteSet(1..n) /\ Cardinality(1..n) = IF 1 > n THEN 0 ELSE n - 1 + 1
    BY <2>1, FS_Interval
  <2>3. (IF 1 > n THEN 0 ELSE n - 1 + 1) = n
    BY <1>1
  <2> QED BY <2>2, <2>3
<1>6. f[i] = p[i].id /\ f[j] = p[j].id
  OBVIOUS
<1> HIDE DEF S, T, f, n
<1>7. f \in Injection(S, T)
  BY <1>2, <1>4, <1>5, FS_Surjection
<1>8. i = j
  BY <1>3, <1>6, <1>7 DEF Injection, IsInjective
<1> QED BY <1>3, <1>8

(* The sites of the tree as it is, and new ones. *)
Since(ids) == [ids |-> ids, sites |-> Range(AllSites(s.core))]

LEMMA SinceNow ==
  ASSUME SettledInv, NEW ids
  PROVE  Sound(Since(ids), s)
<1> DEFINE q == s.core.regions
           C == Since(ids)
           X == Range(AllSites(s.core))
<1>1. IsTree(Below(nextId), q)
  BY DEF SettledInv, Sound, Planted
<1>2. C.sites = X
  BY DEF Since
<1>3. \A x \in X : IsSite(C, x)
  <2>1. \A x \in X : IsSite(Below(nextId), x)
    BY SitesTyped DEF SettledInv, Sound
  <2> QED BY <1>2, <2>1 DEF IsSite
<1> HIDE DEF X, C
<1>4. ASSUME NEW i \in DOMAIN q PROVE IsRegion(C, q[i])
  <2> DEFINE r == q[i]
  <2>1. IsRegion(Below(nextId), r)
    BY <1>1, <1>4 DEF IsTree
  <2>2. \A x \in Range(RegionSites(r)) : x \in X
    BY <1>1, <1>4, SiteWalk DEF X
  <2> HIDE DEF r
  <2>3. ASSUME NEW j \in DOMAIN r.countries PROVE IsCountry(C, r.countries[j])
    <3> DEFINE c == r.countries[j]
    <3>1. IsCountry(Below(nextId), c)
      BY <2>1, <2>3 DEF IsRegion
    <3>2. \A k \in DOMAIN c.cities : Range(c.cities[k].sites) \subseteq X
      BY <2>1, <2>2, <2>3, RegionWalk
    <3> HIDE DEF c
    <3>3. \A k \in DOMAIN c.cities : IsCity(C, c.cities[k])
      <4> SUFFICES ASSUME NEW k \in DOMAIN c.cities PROVE IsCity(C, c.cities[k])
        OBVIOUS
      <4>1. IsCity(Below(nextId), c.cities[k])
        BY <3>1 DEF IsCountry
      <4>2. \A i1 \in DOMAIN c.cities[k].sites : c.cities[k].sites[i1] \in X
        BY <3>2 DEF Range
      <4> QED BY <1>3, <4>1, <4>2 DEF IsCity
    <3>4. IsCountry(C, c)
      BY <3>1, <3>3 DEF IsCountry
    <3> QED BY <3>4 DEF c
  <2>4. IsRegion(C, r)
    BY <2>1, <2>3 DEF IsRegion
  <2> QED BY <2>4 DEF r
<1>5. IsTree(C, q)
  BY <1>1, <1>4 DEF IsTree
<1>6. Shaped(s) /\ Resolves(s)
  BY DEF SettledInv, Sound, Planted
<1> QED BY <1>5, <1>6 DEF Sound, Planted, C

(* A site that is not a new one is as it was. *)
LEMMA OldSite ==
  ASSUME SettledInv, UniqueSites(s), NEW ids, ids \intersect Below(nextId).ids = {},
         NEW u, Planted(Since(ids), u), NEW id \in Below(nextId).ids, id \in SiteIds(u.core)
  PROVE  id \in SiteIds(s.core) /\ FindSite(u.core, id) = FindSite(s.core, id)
<1> DEFINE x == FindSite(u.core, id)
           X == Range(AllSites(s.core))
           y == FindSite(s.core, id)
<1>1. x \in Range(AllSites(u.core)) /\ x.id = id
  BY SiteFound
<1>2. IsSite(Since(ids), x)
  BY <1>1, SitesTyped
<1>3. x \in X
  BY <1>1, <1>2 DEF IsSite, Since
<1> HIDE DEF x
<1>4. id \in SiteIds(s.core)
  BY <1>1, <1>3 DEF SiteIds, IdsOf, Range
<1>5. y \in X /\ y.id = id
  BY <1>4, SiteFound DEF SettledInv, Sound
<1> HIDE DEF y
<1>6. x = y
  BY <1>1, <1>3, <1>5, UniqueFound DEF SettledInv
<1> QED BY <1>4, <1>6 DEF x, y

(* A change leaves field x of a site alone, and does not unmark it. *)
SameField(u, id, x) ==
  id \in SiteIds(u.core) =>
    /\ id \in SiteIds(s.core)
    /\ x \in OverridesOf(s, id) => x \in OverridesOf(u, id)
    /\ x \in Overridable => FindSite(u.core, id).f[x] = FindSite(s.core, id).f[x]

(* While site k[1] exists, its field k[2] holds v, and is marked if it can *)
(* be derived; its identifier is below n.                                  *)
HasTyped(t, n, k, v) ==
  /\ k = <<k[1], k[2]>> /\ k[1] \in Below(n).ids
  /\ k[1] \in SiteIds(t.core) =>
       /\ k[2] \in DeriveFields => k[2] \in OverridesOf(t, k[1])
       /\ k[2] \in Overridable => FindSite(t.core, k[1]).f[k[2]] = v

TypedInv == \A k \in DOMAIN typed : HasTyped(s, nextId, k, typed[k])

LEMMA UntouchedTyped ==
  ASSUME NEW t, NEW u, Untouched(t, u)
  PROVE  \A n, k, v : HasTyped(t, n, k, v) => HasTyped(u, n, k, v)
<1>1. \A id : OverridesOf(u, id) = OverridesOf(t, id)
  BY UntouchedStays
<1>2. SiteIds(u.core) = SiteIds(t.core) /\ \A id : FindSite(u.core, id) = FindSite(t.core, id)
  BY SameSites DEF Untouched
<1> QED BY <1>1, <1>2 DEF HasTyped

LEMMA UntouchedField ==
  ASSUME NEW u, Untouched(s, u)
  PROVE  \A id, x : SameField(u, id, x)
<1>1. \A id : OverridesOf(u, id) = OverridesOf(s, id)
  BY UntouchedStays
<1>2. SiteIds(u.core) = SiteIds(s.core) /\ \A id : FindSite(u.core, id) = FindSite(s.core, id)
  BY SameSites DEF Untouched
<1> QED BY <1>1, <1>2 DEF SameField

(* A change of the tree that moves, drops and adds sites. *)
LEMMA TreeField ==
  ASSUME SettledInv, UniqueSites(s), NEW ids, ids \intersect Below(nextId).ids = {},
         NEW u, Planted(Since(ids), u), NEW id \in Below(nextId).ids,
         OverridesOf(s, id) \subseteq OverridesOf(u, id), NEW x
  PROVE  SameField(u, id, x)
<1>1. id \in SiteIds(u.core) => id \in SiteIds(s.core) /\ FindSite(u.core, id) = FindSite(s.core, id)
  BY OldSite
<1> QED BY <1>1 DEF SameField

(* No site appears by changing the fields of one. *)
LEMMA UpdateIds ==
  ASSUME NEW B, B.sites = {}, NEW t, Sound(B, t), NEW id, NEW patch, "id" \notin DOMAIN patch
  PROVE  SiteIds(UpdateSite(t, id, patch).core) \subseteq SiteIds(t.core)
<1> DEFINE C == Only(SiteIds(t.core))
           u == UpdateSite(t, id, patch)
<1>1. C.sites = {} /\ C.ids = SiteIds(t.core)
  BY DEF Only
<1> HIDE DEF C
<1>2. Sound(C, t)
  <2>1. IsTree(C, t.core.regions)
    BY <1>1, TreeWithin DEF Sound, Planted
  <2> QED BY <2>1 DEF Sound, Planted
<1>3. Sound(C, u)
  BY <1>1, <1>2, SiteEdited
<1> HIDE DEF u
<1>4. ASSUME NEW x \in SiteIds(u.core) PROVE x \in SiteIds(t.core)
  <2> DEFINE y == FindSite(u.core, x)
  <2>1. y \in Range(AllSites(u.core)) /\ y.id = x
    BY <1>3, SiteFound DEF Sound
  <2>2. IsSite(C, y)
    BY <1>3, <2>1, SitesTyped DEF Sound
  <2> QED BY <1>1, <2>1, <2>2 DEF IsSite
<1> QED BY <1>4 DEF u

(* One field of a site gets a value, and perhaps a mark. *)
LEMMA FieldTyped ==
  ASSUME SettledInv, NEW r, r.core.regions = s.core.regions, Sound(Below(nextId), r),
         \A i : OverridesOf(s, i) \subseteq OverridesOf(r, i),
         NEW id \in SiteIds(s.core), NEW x \in NumberFields, NEW v
  PROVE  /\ \A i, y : <<i, y>> # <<id, x>> => SameField(SetField(r, id, x, v), i, y)
         /\ (x \in DeriveFields => x \in OverridesOf(r, id))
            => HasTyped(SetField(r, id, x, v), nextId, <<id, x>>, v)
<1> DEFINE B == Below(nextId)
           patch == [y \in {x} |-> v]
           w == UpdateSite(r, id, patch)
<1>1. Sound(B, r) /\ B.sites = {}
  BY DEF Below, Only
<1>2. DOMAIN patch = {x} /\ "id" \notin DOMAIN patch /\ patch[x] = v
  BY DEF NumberFields, DeriveFields, SplitFields
<1>3. SetField(r, id, x, v) = w
  BY DEF SetField
<1>4. id \in Below(nextId).ids
  <2>1. IsSite(B, FindSite(s.core, id)) /\ FindSite(s.core, id).id = id
    BY SiteFound, SitesTyped DEF SettledInv, Sound
  <2> QED BY <1>1, <2>1 DEF IsSite
<1>5. SiteIds(r.core) = SiteIds(s.core) /\ \A i : FindSite(r.core, i) = FindSite(s.core, i)
  BY SameSites
<1> HIDE DEF B, patch
<1>6. SiteIds(w.core) \subseteq SiteIds(s.core)
  BY <1>1, <1>2, <1>5, UpdateIds
<1>7. w.ui = r.ui
  BY <1>1, FieldsBesideUI DEF Sound, Planted
<1>8. ASSUME NEW i \in SiteIds(s.core)
      PROVE  /\ \A y \in NumberFields : y # x \/ i # id => FindSite(w.core, i).f[y] = FindSite(s.core, i).f[y]
             /\ i = id => FindSite(w.core, i).f[x] = v
  <2>1. i \in SiteIds(r.core) /\ FindSite(r.core, i) = FindSite(s.core, i)
    BY <1>5, <1>8
  <2>2. \A y \in NumberFields : y \notin DOMAIN patch \/ i # id =>
          FindSite(w.core, i).f[y] = FindSite(r.core, i).f[y]
    BY <1>1, <1>2, <2>1, FieldsStay
  <2>3. \A y \in NumberFields : y \in DOMAIN patch /\ i = id => FindSite(w.core, i).f[y] = patch[y]
    BY <1>1, <1>2, <2>1, FieldsStay
  <2> HIDE DEF w
  <2> QED BY <1>2, <2>1, <2>2, <2>3
<1> HIDE DEF w
<1>9. \A i : OverridesOf(w, i) = OverridesOf(r, i)
  BY <1>7 DEF OverridesOf
<1>10. Overridable \subseteq NumberFields
  BY DEF Overridable, NumberFields
<1>11. ASSUME NEW i, NEW y, <<i, y>> # <<id, x>> PROVE SameField(w, i, y)
  BY <1>6, <1>8, <1>9, <1>10, <1>11 DEF SameField
<1>12. ASSUME x \in DeriveFields => x \in OverridesOf(r, id) PROVE HasTyped(w, nextId, <<id, x>>, v)
  <2> DEFINE k == <<id, x>>
  <2>1. k[1] = id /\ k[2] = x /\ k = <<k[1], k[2]>>
    OBVIOUS
  <2> HIDE DEF k
  <2>2. HasTyped(w, nextId, k, v)
    BY <1>4, <1>6, <1>8, <1>9, <1>12, <2>1 DEF HasTyped
  <2> QED BY <2>2 DEF k
<1> QED BY <1>3, <1>11, <1>12

(* A mark is only added, and set where the field can be derived. *)
LEMMA MarkedKept ==
  ASSUME SettledInv, NEW id, NEW x \in NumberFields
  PROVE  /\ Marked(id, x).core.regions = s.core.regions /\ Sound(Below(nextId), Marked(id, x))
         /\ \A i : OverridesOf(s, i) \subseteq OverridesOf(Marked(id, x), i)
         /\ x \in DeriveFields => x \in OverridesOf(Marked(id, x), id)
<1> DEFINE B == Below(nextId)
           u == Marked(id, x)
           marks == [y \in {id} |-> OverridesOf(s, id) \union {x}]
           all == Overlaid(s.ui.siteOverrides, marks)
<1>1. Sound(B, s) /\ Shaped(s)
  BY DEF SettledInv, Sound, Planted
<1>2. Sound(B, u)
  BY <1>1, InterfaceActions, AsideSound DEF Marked
<1>3. u.core.regions = s.core.regions
  BY <1>1, InterfaceActions DEF Marked, Aside
<1>4. CASE x \in DeriveFields
  <2>1. u.ui.siteOverrides = all
    BY <1>1, <1>4 DEF Marked, SiteMarkOverride, Shaped, IsStateAt, UIFields
  <2> HIDE DEF u
  <2>2. x \in OverridesOf(u, id) /\ \A i : OverridesOf(s, i) \subseteq OverridesOf(u, i)
    BY <2>1 DEF OverridesOf, Overlaid
  <2> QED BY <1>2, <1>3, <2>2 DEF u
<1>5. CASE x \notin DeriveFields
  BY <1>2, <1>3, <1>5 DEF Marked
<1> QED BY <1>4, <1>5

-----------------------------------------------------------------------------
(* The forms: what each leaves of what was typed before, and what it types.*)

AllUntouched(outcomes) == \A e \in outcomes : Untouched(s, e.to)

LEMMA AppliancesUntouched ==
  ASSUME NEW t, Shaped(t), NEW id, NEW new, NEW patch
  PROVE  /\ Untouched(t, AddNiosx(t, id)) /\ Untouched(t, DeleteNiosx(t, id))
         /\ Untouched(t, UpdateNiosx(t, id, patch))
         /\ Untouched(t, AddXaas(t, id, new)) /\ Untouched(t, DeleteXaas(t, id))
         /\ Untouched(t, UpdateXaas(t, id, patch))
<1>1. /\ \A q : Untouched(t, [t EXCEPT !.core.xaas = q])
      /\ \A q : Untouched(t, [t EXCEPT !.core.niosx = q])
  BY DEF Untouched, Shaped, IsStateAt, UIFields, CoreFields
<1> DEFINE added == [id |-> new, name |-> Named("New Service Point", 0), regionId |-> id,
                     tierName |-> "M", connections |-> 0, connectedSiteIds |-> <<>>,
                     connectivity |-> "vpn"]
           joined == [id |-> id, name |-> NextNiosxName(t), siteId |-> 0, formFactor |-> "nios-x",
                      tierName |-> "M", tierManual |-> FALSE, imported |-> FALSE]
           Changed(n) == IF n.id = id THEN Patched(n, patch) ELSE n
<1>2. /\ AddNiosx(t, id) = [t EXCEPT !.core.niosx = Append(@, joined)]
      /\ AddXaas(t, id, new) = [t EXCEPT !.core.xaas = Append(@, added)]
  BY DEF AddNiosx, AddXaas
<1>3. UpdateNiosx(t, id, patch)
        = [t EXCEPT !.core.niosx = [i \in DOMAIN t.core.niosx |-> Changed(t.core.niosx[i])]]
  BY DEF UpdateNiosx, Map
<1>4. UpdateXaas(t, id, patch)
        = [t EXCEPT !.core.xaas = [i \in DOMAIN t.core.xaas |-> Changed(t.core.xaas[i])]]
  BY DEF UpdateXaas, Map
<1>5. Untouched(t, DeleteNiosx(t, id)) /\ Untouched(t, DeleteXaas(t, id))
  BY DEF DeleteNiosx, DeleteXaas, Keep, Untouched, Shaped, IsStateAt, UIFields, CoreFields
<1> HIDE DEF added, joined, Changed
<1>6. Untouched(t, AddNiosx(t, id)) /\ Untouched(t, AddXaas(t, id, new))
  BY <1>1, <1>2
<1>7. Untouched(t, UpdateNiosx(t, id, patch)) /\ Untouched(t, UpdateXaas(t, id, patch))
  BY <1>1, <1>3, <1>4
<1> QED BY <1>5, <1>6, <1>7

LEMMA SettingsUntouched ==
  ASSUME NEW t, Shaped(t), NEW x, NEW new
  PROVE  /\ Untouched(t, SetGrowthBuffer(t, new)) /\ Untouched(t, SetOverhead(t, x, new))
         /\ Untouched(t, ToggleGrowthAdvanced(t)) /\ Untouched(t, SetModuleToggle(t, x, new))
         /\ Untouched(t, SetSecurity(t, new)) /\ Untouched(t, SecurityRecalcFromSites(t))
         /\ Untouched(t, ToggleSection(t, x)) /\ Untouched(t, ToggleNodeExpanded(t, x))
<1> USE DEF Untouched, Shaped, IsStateAt, UIFields, CoreFields
<1>1. Untouched(t, SetGrowthBuffer(t, new)) /\ Untouched(t, SetOverhead(t, x, new))
  BY DEF SetGrowthBuffer, SetOverhead
<1>2. Untouched(t, ToggleGrowthAdvanced(t))
  BY DEF ToggleGrowthAdvanced
<1>3. Untouched(t, SetModuleToggle(t, x, new))
  BY DEF SetModuleToggle
<1>4. Untouched(t, SetSecurity(t, new))
  BY DEF SetSecurity
<1>5. Untouched(t, SecurityRecalcFromSites(t))
  <2> DEFINE recalc == SecurityRecalcFromSites(t)
  <2>1. recalc.core.regions = t.core.regions
    BY DEF SecurityRecalcFromSites
  <2>2. recalc.ui.siteOverrides = t.ui.siteOverrides
    BY DEF SecurityRecalcFromSites
  <2> HIDE DEF recalc
  <2>3. Untouched(t, recalc)
    BY <2>1, <2>2
  <2> QED BY <2>3 DEF recalc
<1>6. Untouched(t, ToggleSection(t, x))
  BY DEF ToggleSection
<1>7. Untouched(t, ToggleNodeExpanded(t, x))
  BY DEF ToggleNodeExpanded
<1> HIDE DEF Untouched, Shaped
<1> QED BY <1>1, <1>2, <1>3, <1>4, <1>5, <1>6, <1>7

(* The rows of step 3 and the settings of step 4. *)
LEMMA RowsUntouched ==
  ASSUME Shaped(s)
  PROVE  (\A n : AllUntouched(NiosXRow(n))) /\ AllUntouched(XaasCard)
<1>1. \A id, patch : Untouched(s, UpdateNiosx(s, id, patch)) /\ Untouched(s, UpdateXaas(s, id, patch))
  BY AppliancesUntouched
<1>2. ASSUME NEW n PROVE AllUntouched(NiosXRow(n))
  <2> DEFINE Chosen(tier) == UpdateNiosx(s, n.id, [tierName |-> tier, tierManual |-> TRUE])
             Followed(tier) == UpdateNiosx(s, n.id, [tierName |-> tier, tierManual |-> FALSE])
             picked == {Outcome(Chosen(tier), 0) : tier \in TierNames}
             follows == UNION {When(n.tierManual /\ n.siteId # 0 /\ n.tierName # tier,
                                    Edit(Followed(tier), 0)) :
                                 tier \in {Recommended(s, n.siteId)}}
  <2>1. \A tier : Untouched(s, Chosen(tier)) /\ Untouched(s, Followed(tier))
    BY <1>1
  <2>2. NiosXRow(n) = picked \union follows
    BY DEF NiosXRow
  <2> HIDE DEF Chosen, Followed
  <2>3. AllUntouched(picked)
    BY <2>1 DEF AllUntouched, Outcome
  <2>4. AllUntouched(follows)
    BY <2>1 DEF AllUntouched, Outcome, When, Edit
  <2> HIDE DEF picked, follows
  <2> QED BY <2>2, <2>3, <2>4 DEF AllUntouched
<1>3. AllUntouched(XaasCard)
  BY <1>1 DEF XaasCard, AllUntouched, Outcome
<1> QED BY <1>2, <1>3

LEMMA SettingsFormUntouched ==
  ASSUME Shaped(s)
  PROVE  AllUntouched(SizerStepSettings)
<1>1. /\ \A v : /\ Untouched(s, SetGrowthBuffer(s, v)) /\ Untouched(s, SetSecurity(s, v))
                /\ Untouched(s, ToggleSection(s, v))
      /\ \A k, v : Untouched(s, SetOverhead(s, k, v)) /\ Untouched(s, SetModuleToggle(s, k, v))
      /\ Untouched(s, ToggleGrowthAdvanced(s)) /\ Untouched(s, SecurityRecalcFromSites(s))
  BY SettingsUntouched
<1>2. AllUntouched(SectionShell)
  BY <1>1 DEF SectionShell, AllUntouched, Outcome
<1>3. AllUntouched(SectionGrowth)
  BY <1>1 DEF SectionGrowth, AllUntouched, Outcome, Edit, When
<1>4. AllUntouched(SectionModules)
  BY <1>1 DEF SectionModules, AllUntouched, Outcome
<1>5. \A sec : AllUntouched(SectionSecurity(sec))
  BY <1>1 DEF SectionSecurity, AllUntouched, Outcome, Edit, When
<1> QED
  BY <1>2, <1>3, <1>4, <1>5 DEF SizerStepSettings, AllUntouched, When

LEMMA PicksUntouched ==
  ASSUME Shaped(s)
  PROVE  AllUntouched(PickSite \union RegionPill)
<1>1. \A path : Untouched(s, SetSelectedPath(s, path))
  BY UntouchedBy
<1>2. Untouched(s, s)
  BY DEF Untouched
<1> QED BY <1>1, <1>2 DEF PickSite, RegionPill, Look, Outcome, AllUntouched

(* What an outcome leaves, and what it says was typed, holds after it. *)
LeavesTyped(e) ==
  /\ \A k \in DOMAIN typed \ DOMAIN e.typed : SameField(e.edit.to, k[1], k[2])
  /\ \A k \in DOMAIN e.typed : HasTyped(e.edit.to, nextId + e.edit.used, k, e.typed[k])

AllSame(outcomes) == \A e \in outcomes : \A id, x : SameField(e.to, id, x)

LEMMA UntypedLeaves ==
  ASSUME NEW outcomes, AllSame(outcomes)
  PROVE  \A e \in Untyped(outcomes) : LeavesTyped(e)
<1>1. DOMAIN <<>> = {}
  OBVIOUS
<1> QED BY <1>1 DEF AllSame, Untyped, LeavesTyped

LEMMA UntouchedSame ==
  ASSUME NEW outcomes, AllUntouched(outcomes)
  PROVE  AllSame(outcomes)
  BY UntouchedField DEF AllUntouched, AllSame

(* A patch of fields that hold no number. *)
LEMMA OtherFieldSame ==
  ASSUME SettledInv, NEW id, NEW patch, "id" \notin DOMAIN patch, DOMAIN patch \intersect NumberFields = {}
  PROVE  \A i, y : SameField(UpdateSite(s, id, patch), i, y)
<1> DEFINE B == Below(nextId)
           t == s
           w == UpdateSite(t, id, patch)
<1>1. Sound(B, t) /\ B.sites = {}
  BY DEF SettledInv, Below, Only
<1> HIDE DEF B, t
<1>2. SiteIds(w.core) \subseteq SiteIds(t.core)
  BY <1>1, UpdateIds
<1>3. w.ui = t.ui
  BY <1>1, FieldsBesideUI DEF Sound, Planted
<1>4. ASSUME NEW i \in SiteIds(t.core)
      PROVE  \A y \in NumberFields : FindSite(w.core, i).f[y] = FindSite(t.core, i).f[y]
  <2>1. \A y \in NumberFields : y \notin DOMAIN patch \/ i # id =>
          FindSite(w.core, i).f[y] = FindSite(t.core, i).f[y]
    BY <1>1, <1>4, FieldsStay
  <2> QED BY <2>1
<1> HIDE DEF w
<1>5. \A i : OverridesOf(w, i) = OverridesOf(t, i)
  BY <1>3 DEF OverridesOf
<1>6. Overridable \subseteq NumberFields
  BY DEF Overridable, NumberFields
<1>7. \A i, y : SameField(w, i, y)
  BY <1>2, <1>4, <1>5, <1>6 DEF SameField, t
<1> QED BY <1>7 DEF w, t

LEMMA SiteFormSame ==
  ASSUME SettledInv, NEW id
  PROVE  AllSame(SiteForm(id))
<1> DEFINE Renamed(name) == UpdateSite(s, id, [name |-> name])
           Times(n) == UpdateSite(s, id, [multiplier |-> n])
           named == {Outcome(Renamed(name), 0) : name \in NewNames}
           multiplied == {Outcome(Times(Larger(1, n)), 0) : n \in Values}
           switched == {Outcome(SiteSetMode(s, id, mode), 0) : mode \in {"users", "manual"}}
<1>1. \A v : \A i, y : SameField(Renamed(v), i, y) /\ SameField(Times(v), i, y)
  <2>1. \A v : /\ DOMAIN [name |-> v] = {"name"} /\ DOMAIN [multiplier |-> v] = {"multiplier"}
               /\ "name" \notin NumberFields /\ "multiplier" \notin NumberFields
    BY DEF DeriveFields, NumberFields, SplitFields
  <2> QED BY <2>1, OtherFieldSame
<1>2. \A mode : \A i, y : SameField(SiteSetMode(s, id, mode), i, y)
  <2>1. \A mode : Untouched(s, SiteSetMode(s, id, mode))
    BY UntouchedBy DEF SettledInv, Sound, Planted
  <2> QED BY <2>1, UntouchedField
<1>3. SiteForm(id) = named \union multiplied \union switched
  BY DEF SiteForm
<1> HIDE DEF Renamed, Times
<1>4. AllSame(named) /\ AllSame(multiplied) /\ AllSame(switched)
  BY <1>1, <1>2 DEF AllSame, Outcome
<1> HIDE DEF named, multiplied, switched
<1> QED BY <1>3, <1>4 DEF AllSame

(* A field of the form: the value becomes what was typed. *)
LEMMA FieldLeaves ==
  ASSUME SettledInv, TypedInv, NEW id \in SiteIds(s.core), NEW x \in NumberFields, NEW v
  PROVE  \A e \in Type(id, x, v, SetField(Marked(id, x), id, x, v)) : LeavesTyped(e)
<1> DEFINE r == Marked(id, x)
           w == SetField(r, id, x, v)
           key == <<id, x>>
           e == [edit |-> Outcome(w, 0), typed |-> [k \in {key} |-> v]]
<1>1. /\ r.core.regions = s.core.regions /\ Sound(Below(nextId), r)
      /\ \A i : OverridesOf(s, i) \subseteq OverridesOf(r, i)
      /\ x \in DeriveFields => x \in OverridesOf(r, id)
  BY MarkedKept
<1> HIDE DEF r
<1>2. /\ \A i, y : <<i, y>> # <<id, x>> => SameField(w, i, y)
      /\ HasTyped(w, nextId, key, v)
  BY <1>1, FieldTyped
<1> HIDE DEF w
<1>3. \A k \in DOMAIN typed \ {key} : SameField(w, k[1], k[2])
  BY <1>2 DEF TypedInv, HasTyped
<1>4. nextId + 0 = nextId
  BY DEF SettledInv
<1> HIDE DEF key
<1>5. /\ e.edit.to = w /\ e.edit.used = 0 /\ DOMAIN e.typed = {key} /\ e.typed[key] = v
  BY DEF Outcome
<1> HIDE DEF e
<1>6. LeavesTyped(e)
  BY <1>2, <1>3, <1>4, <1>5 DEF LeavesTyped
<1> QED BY <1>6 DEF Type, e, w, r, key

LEMMA FieldEditsLeave ==
  ASSUME SettledInv, TypedInv, NEW id \in SiteIds(s.core)
  PROVE  \A e \in UsersField(id) \union OnFieldEdit(id) : LeavesTyped(e)
<1>1. "users" \in NumberFields \ DeriveFields
  BY DEF NumberFields, DeriveFields
<1>2. \A v : SetField(s, id, "users", v) = SetField(Marked(id, "users"), id, "users", v)
  BY <1>1 DEF Marked
<1>3. ASSUME NEW e \in UsersField(id) PROVE LeavesTyped(e)
  <2>1. PICK v : e \in Type(id, "users", v, SetField(s, id, "users", v))
    BY <1>3 DEF UsersField
  <2> QED BY <1>1, <1>2, <2>1, FieldLeaves
<1>4. ASSUME NEW e \in OnFieldEdit(id) PROVE LeavesTyped(e)
  <2>1. \A p \in Typeable : p[1] \in NumberFields
    BY DEF Typeable, GridFields, NumberFields, DeriveFields, SplitFields
  <2>2. PICK p \in Typeable :
               e \in Type(id, p[1], p[2], SetField(Marked(id, p[1]), id, p[1], p[2]))
    BY <1>4 DEF OnFieldEdit
  <2> QED BY <2>1, <2>2, FieldLeaves
<1> QED BY <1>3, <1>4

(* The report sets no mark, and retypes only what had one.                 *)
LEMMA ReportLeaves ==
  ASSUME SettledInv, TypedInv, NEW id \in SiteIds(s.core), NEW x \in NumberFields, NEW v
  PROVE  LeavesTyped(ReportEdit(id, x, v))
<1> DEFINE w == SetField(s, id, x, v)
           key == <<id, x>>
           K == {key} \intersect DOMAIN typed
           e == [edit |-> Outcome(w, 0), typed |-> [k \in K |-> v]]
<1>1. Sound(Below(nextId), s)
  BY DEF SettledInv
<1>2. /\ \A i, y : <<i, y>> # <<id, x>> => SameField(w, i, y)
      /\ (x \in DeriveFields => x \in OverridesOf(s, id)) => HasTyped(w, nextId, key, v)
  BY <1>1, FieldTyped
<1> HIDE DEF w
<1>3. \A k \in DOMAIN typed \ {key} : SameField(w, k[1], k[2])
  BY <1>2 DEF TypedInv, HasTyped
<1>4. key \in DOMAIN typed => HasTyped(w, nextId, key, v)
  <2> SUFFICES ASSUME key \in DOMAIN typed PROVE x \in DeriveFields => x \in OverridesOf(s, id)
    BY <1>2
  <2>1. HasTyped(s, nextId, key, typed[key]) /\ key[1] = id /\ key[2] = x
    BY DEF TypedInv
  <2> HIDE DEF key
  <2> QED BY <2>1 DEF HasTyped
<1>5. nextId + 0 = nextId
  BY DEF SettledInv
<1> HIDE DEF key
<1>6. /\ e.edit.to = w /\ e.edit.used = 0 /\ DOMAIN e.typed = K /\ \A k \in K : e.typed[k] = v
  BY DEF Outcome
<1> HIDE DEF e
<1>7. LeavesTyped(e)
  <2>1. \A k \in DOMAIN typed \ K : k \in DOMAIN typed \ {key}
    OBVIOUS
  <2>2. \A k \in K : k = key /\ key \in DOMAIN typed
    OBVIOUS
  <2> HIDE DEF K
  <2> QED BY <1>3, <1>4, <1>5, <1>6, <2>1, <2>2 DEF LeavesTyped
<1> QED BY <1>7 DEF ReportEdit, e, w, key

(* A clone has the fields and the marks of the original, whatever it was   *)
(* cloned from is as before.                                               *)
LEMMA CloneTyped ==
  ASSUME SettledInv, UniqueSites(s), NEW id \in SiteIds(s.core), NEW n \in Int
  PROVE  /\ \A i \in Below(nextId).ids : \A x : SameField(CloneSite(s, id, n, nextId), i, x)
         /\ \A c \in NewIds(nextId, CloneCount(n)) :
              /\ OverridesOf(s, id) \subseteq OverridesOf(CloneSite(s, id, n, nextId), c)
              /\ c \in SiteIds(CloneSite(s, id, n, nextId).core) =>
                   FindSite(CloneSite(s, id, n, nextId).core, c).f = FindSite(s.core, id).f
<1> DEFINE ids == NewIds(nextId, CloneCount(n))
           B == Since(ids)
           v == CloneSite(s, id, n, nextId)
           orig == FindSite(s.core, id)
           old == Range(AllSites(s.core))
<1>1. nextId \in Nat /\ CloneCount(n) \in Nat
  BY ClonesAssumption DEF SettledInv, CloneCount
<1>2. ids \intersect Below(nextId).ids = {}
  BY <1>1 DEF NewIds, Below, Only
<1>3. Sound(B, s) /\ ids \subseteq B.ids
  BY SinceNow DEF Since
<1>4. PICK clones, marks : Cloned(B, s, id, ids, clones, marks, v)
  BY <1>1, <1>3, CloneMade
<1> DEFINE u == AddSites(s, SiteCity(s, id), clones)
           all == Overlaid(u.ui.siteOverrides, marks)
<1>5. /\ Listed(clones)
      /\ \A i \in DOMAIN clones : IsSite(B, clones[i]) /\ clones[i].id \in ids /\ clones[i].f = orig.f
      /\ DOMAIN marks \subseteq ids
      /\ id \in DOMAIN s.ui.siteOverrides =>
           \A i \in ids : i \in DOMAIN marks /\ marks[i] = s.ui.siteOverrides[id]
      /\ v = [u EXCEPT !.ui.siteOverrides = all] /\ AreMarks(marks)
  BY <1>4 DEF Cloned
<1> HIDE DEF ids, B, orig
<1>6. Sound(B, u)
  BY <1>3, <1>5, SitesAppended
<1>7. u.ui = s.ui
  BY <1>3 DEF AddSites, InCity, EditCities, EditCountries, MapRegions, WithRegions,
              Sound, Planted, Shaped, IsStateAt
<1> HIDE DEF u, v
<1>8. v.core = u.core /\ v.ui.siteOverrides = all /\ Planted(B, v)
  <2>1. Shaped(u) /\ AreMarks(u.ui.siteOverrides) /\ IsTree(B, u.core.regions)
    BY <1>6 DEF Sound, Planted, Shaped
  <2>2. AreMarks(all)
    BY <1>5, <2>1, MarksOverlaid
  <2> HIDE DEF all
  <2>3. v.core = u.core /\ v.ui.siteOverrides = all /\ IsStateAt(v, Steps)
    BY <1>5, <2>1 DEF Shaped, IsStateAt, UIFields, CoreFields, Steps
  <2> QED BY <2>1, <2>2, <2>3 DEF Planted, Shaped
<1>9. /\ \A i : i \notin ids => OverridesOf(v, i) = OverridesOf(s, i)
      /\ \A c \in ids : OverridesOf(s, id) \subseteq OverridesOf(v, c)
  BY <1>5, <1>7, <1>8 DEF OverridesOf, Overlaid
<1>10. ASSUME NEW i \in Below(nextId).ids, NEW x PROVE SameField(v, i, x)
  <2>1. OverridesOf(s, i) \subseteq OverridesOf(v, i)
    BY <1>2, <1>9, <1>10
  <2> QED BY <1>2, <1>8, <1>10, <2>1, TreeField DEF B
<1>11. ASSUME NEW c \in ids, c \in SiteIds(v.core) PROVE FindSite(v.core, c).f = orig.f
  <2> DEFINE C == [ids |-> {}, sites |-> old \union Range(clones)]
             y == FindSite(u.core, c)
  <2>1. C.ids = {} /\ C.sites = old \union Range(clones)
    OBVIOUS
  <2>2. Since({}).ids = {} /\ Since({}).sites = old
    BY DEF Since
  <2> HIDE DEF C, old
  <2>3. Sound(C, s)
    BY <2>1, <2>2, SinceNow, SoundMore
  <2>4. \A i \in DOMAIN clones : IsSite(C, clones[i])
    BY <1>5, <2>1 DEF IsSite, Range
  <2>5. Sound(C, u)
    BY <1>5, <2>3, <2>4, SitesAppended DEF u
  <2>6. c \in SiteIds(u.core)
    BY <1>8, <1>11
  <2>7. y \in Range(AllSites(u.core)) /\ y.id = c
    BY <2>5, <2>6, SiteFound DEF Sound
  <2>8. IsSite(C, y)
    BY <2>5, <2>7, SitesTyped DEF Sound
  <2> HIDE DEF y
  <2>9. y \notin old
    <3>1. \A z \in old : z.id \in Below(nextId).ids
      <4>1. \A z \in old : IsSite(Below(nextId), z)
        BY SitesTyped DEF old, SettledInv, Sound
      <4>2. Below(nextId).sites = {}
        BY DEF Below, Only
      <4> QED BY <4>1, <4>2 DEF IsSite
    <3> QED BY <1>2, <2>7, <3>1
  <2>10. y \in Range(clones)
    BY <2>1, <2>8, <2>9 DEF IsSite
  <2>11. y.f = orig.f
    BY <1>5, <2>10 DEF Range
  <2> QED BY <1>8, <2>11 DEF y
<1> QED BY <1>9, <1>10, <1>11 DEF ids, v, orig

LEMMA CloneLeaves ==
  ASSUME SettledInv, TypedInv, UniqueSites(s), NEW id \in SiteIds(s.core)
  PROVE  \A e \in ClonePopover(id) : LeavesTyped(e)
<1> SUFFICES ASSUME NEW e \in ClonePopover(id) PROVE LeavesTyped(e)
  OBVIOUS
<1>1. PICK n \in 0..(MaxClones + 1) :
             e = [edit |-> Outcome(CloneSite(s, id, n, nextId), CloneCount(n)),
                  typed |-> TypedForClones(id, nextId..(nextId + CloneCount(n) - 1))]
  BY DEF ClonePopover
<1> DEFINE count == CloneCount(n)
           ids == NewIds(nextId, count)
           v == CloneSite(s, id, n, nextId)
           new == TypedForClones(id, ids)
           fields == {k[2] : k \in {k \in DOMAIN typed : k[1] = id}}
           after == nextId + count
<1>2. e.edit.to = v /\ e.edit.used = count /\ e.typed = new
  BY <1>1 DEF Outcome, NewIds
<1>3. n \in Int
  BY ClonesAssumption
<1>4. nextId \in Nat /\ count \in Nat
  BY <1>3, ClonesAssumption DEF SettledInv, CloneCount
<1>5. ids \subseteq Below(after).ids
  BY <1>4 DEF NewIds, Below, Only
<1>6. /\ \A i \in Below(nextId).ids : \A x : SameField(v, i, x)
      /\ \A c \in ids : /\ OverridesOf(s, id) \subseteq OverridesOf(v, c)
                        /\ c \in SiteIds(v.core) => FindSite(v.core, c).f = FindSite(s.core, id).f
  BY <1>3, CloneTyped
<1>7. new = [k \in ids \X fields |-> typed[<<id, k[2]>>]]
  BY DEF TypedForClones
<1> HIDE DEF count, ids, v, new, after
<1>8. \A x \in fields : <<id, x>> \in DOMAIN typed
  BY DEF TypedInv, HasTyped
<1>9. \A x \in fields : HasTyped(s, nextId, <<id, x>>, typed[<<id, x>>])
  BY <1>8 DEF TypedInv
<1>10. ASSUME NEW x \in fields
       PROVE  /\ x \in DeriveFields => x \in OverridesOf(s, id)
              /\ x \in Overridable => FindSite(s.core, id).f[x] = typed[<<id, x>>]
  <2> DEFINE key == <<id, x>>
  <2>1. key[1] = id /\ key[2] = x /\ HasTyped(s, nextId, key, typed[key])
    BY <1>9
  <2> HIDE DEF key
  <2>2. /\ x \in DeriveFields => x \in OverridesOf(s, id)
        /\ x \in Overridable => FindSite(s.core, id).f[x] = typed[key]
    BY <2>1 DEF HasTyped
  <2> QED BY <2>2 DEF key
<1> HIDE DEF fields
<1>11. ASSUME NEW k \in DOMAIN new PROVE HasTyped(v, after, k, new[k])
  <2>1. k \in ids \X fields
    BY <1>7, <1>11
  <2>2. k = <<k[1], k[2]>> /\ k[1] \in ids /\ k[2] \in fields
    BY <2>1
  <2>3. new[k] = typed[<<id, k[2]>>]
    BY <1>7, <2>1
  <2> DEFINE c == k[1]
             x == k[2]
             val == typed[<<id, x>>]
  <2>4. new[k] = val /\ c \in Below(after).ids
    BY <1>5, <2>2, <2>3
  <2>5. /\ x \in DeriveFields => x \in OverridesOf(s, id)
        /\ x \in Overridable => FindSite(s.core, id).f[x] = val
    BY <1>10, <2>2
  <2> HIDE DEF val
  <2> QED BY <1>6, <2>2, <2>4, <2>5 DEF HasTyped
<1>12. \A k \in DOMAIN typed : SameField(v, k[1], k[2])
  BY <1>6 DEF TypedInv, HasTyped
<1> QED BY <1>2, <1>11, <1>12 DEF LeavesTyped, after

LEMMA FormLeaves ==
  ASSUME SettledInv, TypedInv, UniqueSites(s), NEW t, t.id \in SiteIds(s.core)
  PROVE  \A e \in FormEdits(t) : LeavesTyped(e)
<1>1. \A e \in Untyped(SiteForm(t.id)) : LeavesTyped(e)
  BY SiteFormSame, UntypedLeaves
<1>2. \A e \in UsersField(t.id) \union OnFieldEdit(t.id) : LeavesTyped(e)
  BY FieldEditsLeave
<1>3. \A e \in ClonePopover(t.id) : LeavesTyped(e)
  BY CloneLeaves
<1> QED BY <1>1, <1>2, <1>3 DEF FormEdits, When

LEMMA OfferedLeaves ==
  ASSUME SettledInv, TypedInv, UniqueSites(s)
  PROVE  \A e \in Offered : LeavesTyped(e)
<1>1. Shaped(s)
  BY DEF SettledInv, Sound, Planted
<1>2. \A outcomes : AllUntouched(outcomes) => \A e \in Untyped(outcomes) : LeavesTyped(e)
  BY UntouchedSame, UntypedLeaves
<1>3. AllUntouched(PickSite \union RegionPill) /\ AllUntouched(SizerStepSettings)
  BY <1>1, PicksUntouched, SettingsFormUntouched
<1>4. AllUntouched(When(tab = "niosx", UNION {NiosXRow(n) : n \in Range(s.core.niosx)})
                   \union When(tab = "xaas", XaasCard))
  BY <1>1, RowsUntouched DEF AllUntouched, When
<1>5. \A e \in OnSiteEdit : LeavesTyped(e)
  <2>1. {"activeIPs", "users", "qps", "lps"} \subseteq NumberFields
    BY DEF NumberFields, DeriveFields
  <2>2. OnSiteEdit = {ReportEdit(id, x, v) : id \in SiteIds(s.core),
                        x \in {"activeIPs", "users", "qps", "lps"}, v \in Values}
    BY DEF OnSiteEdit, ReportEdit
  <2>3. SUFFICES ASSUME NEW e \in OnSiteEdit PROVE LeavesTyped(e)
    OBVIOUS
  <2>4. \E id \in SiteIds(s.core), x \in NumberFields, v \in Values : e = ReportEdit(id, x, v)
    BY <2>1, <2>2, <2>3
  <2> QED BY <2>4, ReportLeaves
<1>6. \A e \in UNION {FormEdits(t) : t \in When(FormShown, {FormSite})} : LeavesTyped(e)
  <2> SUFFICES ASSUME FormShown PROVE \A e \in FormEdits(FormSite) : LeavesTyped(e)
    BY DEF When
  <2>1. FormNow # 0 /\ FormSite = FindSite(s.core, FormNow)
    BY DEF FormShown, FormSite, StepShown, FormNow, FormIn
  <2>2. FormSite.id \in SiteIds(s.core)
    BY <2>1, FormIsSite
  <2> HIDE DEF FormShown
  <2> QED BY <2>2, FormLeaves
<1> QED
  BY <1>2, <1>3, <1>4, <1>5, <1>6 DEF Offered

-----------------------------------------------------------------------------
(* The tree and the rows: sites move, go and come, and no mark changes.    *)

MarksKept(u) == u.ui.siteOverrides = s.ui.siteOverrides

AllKeepMarks(outcomes) == \A e \in outcomes : MarksKept(e.to)

LEMMA TreeBesideUI ==
  ASSUME NEW t, Shaped(t), NEW id, NEW new, NEW patch
  PROVE  /\ UpdateRegion(t, id, patch).ui = t.ui /\ UpdateCountry(t, id, patch).ui = t.ui
         /\ UpdateCity(t, id, patch).ui = t.ui
         /\ AddCountry(t, id, new).ui = t.ui /\ AddCity(t, id, new).ui = t.ui
         /\ AddSiteToRegion(t, id, new).ui = t.ui /\ AddSiteToCity(t, id, new).ui = t.ui
         /\ DeleteRegion(t, id).ui = t.ui /\ DeleteCountry(t, id).ui = t.ui
         /\ DeleteCity(t, id).ui = t.ui /\ DeleteSite(t, id).ui = t.ui
<1>1. \A q : WithRegions(t, q).ui = t.ui
  BY DEF WithRegions, Shaped, IsStateAt
<1>2. \A q, u : u = WithRegions(t, q) => u.ui = t.ui
  BY <1>1
<1>3. UpdateRegion(t, id, patch).ui = t.ui /\ UpdateCountry(t, id, patch).ui = t.ui
  BY <1>2 DEF UpdateRegion, UpdateCountry, InRegion, InCountry, EditCountries, MapRegions
<1>4. UpdateCity(t, id, patch).ui = t.ui
  BY <1>2 DEF UpdateCity, InCity, EditCities, EditCountries, MapRegions
<1>5. AddCountry(t, id, new).ui = t.ui /\ AddCity(t, id, new).ui = t.ui
  BY <1>2 DEF AddCountry, AddCity, InRegion, InCountry, EditCountries, MapRegions
<1>6. AddSiteToRegion(t, id, new).ui = t.ui
  BY <1>2 DEF AddSiteToRegion, InRegion, MapRegions
<1>7. AddSiteToCity(t, id, new).ui = t.ui
  BY <1>2 DEF AddSiteToCity, AddSites, InCity, EditCities, EditCountries, MapRegions
<1>8. DeleteRegion(t, id).ui = t.ui /\ DeleteCountry(t, id).ui = t.ui
  BY <1>2 DEF DeleteRegion, DeleteCountry, MapRegions
<1>9. DeleteCity(t, id).ui = t.ui /\ DeleteSite(t, id).ui = t.ui
  BY <1>2 DEF DeleteCity, DeleteSite, EditCities, EditCountries, MapRegions
<1> QED BY <1>3, <1>4, <1>5, <1>6, <1>7, <1>8, <1>9

LEMMA RowKeepsMarks ==
  ASSUME SettledInv, NEW row
  PROVE  AllKeepMarks(RowEdits(row))
<1>1. Shaped(s) /\ Sound(Below(nextId), s) /\ Below(nextId).sites = {}
  BY DEF SettledInv, Sound, Planted, Below, Only
<1>2. \A path : MarksKept(SetSelectedPath(s, path))
  BY <1>1, UntouchedBy DEF Untouched, MarksKept
<1>3. AllKeepMarks(SelectRow(row))
  BY <1>2 DEF SelectRow, AllKeepMarks, Edit, Outcome
<1>4. AllKeepMarks(ToggleRow(row))
  <2>1. \A t : Shaped(t) => Untouched(t, ToggleNodeExpanded(t, row.id)) /\ Shaped(ToggleNodeExpanded(t, row.id))
    BY SettingsUntouched, InterfaceActions DEF Aside
  <2>2. MarksKept(ToggleExpanded(row.id))
    BY <1>1, <2>1 DEF ToggleExpanded, Untouched, MarksKept
  <2> QED BY <2>2 DEF ToggleRow, AllKeepMarks, When, Edit, Outcome
<1>5. AllKeepMarks(RegionRow(row))
  BY <1>1, TreeBesideUI DEF RegionRow, AllKeepMarks, MarksKept, When, Edit, Outcome
<1>6. AllKeepMarks(CountryRow(row)) /\ AllKeepMarks(CityRow(row))
  BY <1>1, TreeBesideUI DEF CountryRow, CityRow, AllKeepMarks, MarksKept, When, Edit, Outcome
<1>7. ASSUME NEW name PROVE AllKeepMarks(UnassignedLabel(row, name))
  <2>1. /\ MarksKept(UpdateCountry(s, row.id, [name |-> name]))
        /\ MarksKept(UpdateCity(s, row.id, [name |-> name]))
    BY <1>1, TreeBesideUI DEF MarksKept
  <2> QED BY <2>1 DEF UnassignedLabel, AllKeepMarks, When, Edit, Outcome
<1>8. AllKeepMarks(DeleteDialog(row))
  <2> DEFINE u == CASE row.kind = "region" -> DeleteRegion(s, row.id)
                    [] row.kind = "country" -> DeleteCountry(s, row.id)
                    [] row.kind = "city" -> DeleteCity(s, row.id)
                    [] OTHER -> DeleteSite(s, row.id)
  <2>1. u.ui = s.ui
    BY <1>1, TreeBesideUI
  <2>2. DeleteNode(row.kind, row.id) = SetSelectedPath(u, NoSelection)
    BY DEF DeleteNode
  <2> HIDE DEF u
  <2>3. MarksKept(SetSelectedPath(u, NoSelection))
    <3>1. u.ui = s.ui /\ "siteOverrides" \in DOMAIN s.ui
      BY <1>1, <2>1 DEF Shaped, IsStateAt, UIFields
    <3> QED BY <3>1 DEF SetSelectedPath, MarksKept
  <2> QED BY <2>2, <2>3 DEF DeleteDialog, AllKeepMarks, Edit, Outcome
<1> QED
  BY <1>3, <1>4, <1>5, <1>6, <1>7, <1>8 DEF RowEdits, AllKeepMarks

LEMMA RegionsKeepMarks ==
  ASSUME SettledInv
  PROVE  AllKeepMarks(SizerStepRegions)
<1>1. Shaped(s)
  BY DEF SettledInv, Sound, Planted
<1>2. AllKeepMarks(HandleAddRegion)
  <2>1. MarksKept(AddRegion(s, nextId))
    BY <1>1 DEF AddRegion, MarksKept, Shaped, IsStateAt, UIFields, CoreFields
  <2> QED BY <2>1 DEF HandleAddRegion, AllKeepMarks, Edit, Outcome
<1>3. \A id, patch : MarksKept(UpdateRegion(s, id, patch))
  BY <1>1, TreeBesideUI DEF MarksKept
<1>4. ASSUME NEW id PROVE AllKeepMarks(RegionForm(id))
  <2> DEFINE Renamed(name) == UpdateRegion(s, id, [name |-> name])
             Native(flag) == UpdateRegion(s, id, [cloudNativeDns |-> flag])
  <2>1. \A x : MarksKept(Renamed(x)) /\ MarksKept(Native(x))
    BY <1>3
  <2>2. RegionForm(id) = {Outcome(Renamed(name), 0) : name \in NewNames}
                         \union {Outcome(Native(~r.cloudNativeDns), 0) :
                                  r \in {x \in Range(s.core.regions) :
                                          x.id = id /\ x.type # "on-premises"}}
    BY DEF RegionForm
  <2> HIDE DEF Renamed, Native
  <2> QED BY <2>1, <2>2 DEF AllKeepMarks, Outcome
<1>5. AllKeepMarks(RegionTypePill)
  <2> DEFINE Retyped(id, type) == UpdateRegion(s, id, [type |-> type])
  <2>1. \A id, type : MarksKept(Retyped(id, type))
    BY <1>3
  <2>2. RegionTypePill = {Outcome(Retyped(r.id, type), 0) :
                            r \in Range(s.core.regions), type \in RegionTypes}
    BY DEF RegionTypePill
  <2> HIDE DEF Retyped
  <2> QED BY <2>1, <2>2 DEF AllKeepMarks, Outcome
<1>6. \A row : AllKeepMarks(RowEdits(row))
  BY RowKeepsMarks
<1>7. \A row : AllKeepMarks(SelectRow(row))
  BY <1>6 DEF RowEdits, AllKeepMarks
<1>8. \A id : AllKeepMarks(Edit(ToggleExpanded(id), 0))
  <2>1. \A t, id : Shaped(t) => Untouched(t, ToggleNodeExpanded(t, id)) /\ Shaped(ToggleNodeExpanded(t, id))
    BY SettingsUntouched, InterfaceActions DEF Aside
  <2>2. \A id : MarksKept(ToggleExpanded(id))
    BY <1>1, <2>1 DEF ToggleExpanded, Untouched, MarksKept
  <2> QED BY <2>2 DEF AllKeepMarks, Edit, Outcome
<1>9. AllKeepMarks(TreeEdits(FlattenVisible))
  <2>1. \A rows, here : AllKeepMarks(Keys(rows, here))
    BY <1>7, <1>8 DEF Keys, AllKeepMarks, When
  <2> QED BY <1>6, <2>1 DEF TreeEdits, OnTreeKeyDown, AllKeepMarks
<1> QED
  BY <1>2, <1>4, <1>5, <1>9 DEF SizerStepRegions, AllKeepMarks, When

LEMMA InfraKeepsMarks ==
  ASSUME SettledInv
  PROVE  AllKeepMarks(SizerStepInfra)
<1>1. Shaped(s)
  BY DEF SettledInv, Sound, Planted
<1>2. \A id, new, patch : /\ MarksKept(AddNiosx(s, id)) /\ MarksKept(DeleteNiosx(s, id))
                          /\ MarksKept(UpdateNiosx(s, id, patch))
                          /\ MarksKept(AddXaas(s, id, new)) /\ MarksKept(DeleteXaas(s, id))
  BY <1>1, AppliancesUntouched DEF Untouched, MarksKept
<1>3. AllKeepMarks(InfraTabs)
  BY DEF InfraTabs, Look, AllKeepMarks, MarksKept
<1>4. AllKeepMarks(NiosXPanel)
  <2> DEFINE Renamed(id, name) == UpdateNiosx(s, id, [name |-> name])
             At(id, site) == UpdateNiosx(s, id, [siteId |-> site])
             renamed == {Outcome(Renamed(id, name), 0) :
                           id \in IdsOf(s.core.niosx), name \in NewNames}
             moved == {Outcome(At(id, site), 0) :
                         id \in IdsOf(s.core.niosx), site \in SiteIds(s.core)}
             others == Edit(AddNiosx(s, nextId), 1)
                       \union {Outcome(DeleteNiosx(s, id), 0) : id \in IdsOf(s.core.niosx)}
  <2>1. NiosXPanel = others \union renamed \union moved
    BY DEF NiosXPanel
  <2>2. \A id, x : MarksKept(Renamed(id, x)) /\ MarksKept(At(id, x))
    BY <1>2
  <2> HIDE DEF Renamed, At
  <2>3. AllKeepMarks(renamed) /\ AllKeepMarks(moved)
    BY <2>2 DEF AllKeepMarks, Outcome
  <2>4. AllKeepMarks(others)
    BY <1>2 DEF AllKeepMarks, Edit, Outcome
  <2> HIDE DEF renamed, moved, others
  <2> QED BY <2>1, <2>3, <2>4 DEF AllKeepMarks
<1>5. AllKeepMarks(XaasPanel)
  BY <1>2 DEF XaasPanel, AllKeepMarks, Outcome
<1> QED BY <1>3, <1>4, <1>5 DEF SizerStepInfra, AllKeepMarks, When

LEMMA BannerKeepsMarks ==
  ASSUME SettledInv
  PROVE  AllKeepMarks(Banner) /\ AllKeepMarks(JumpTo)
<1>1. Shaped(s)
  BY DEF SettledInv, Sound, Planted
<1>2. \A n : MarksKept(SetActiveStep(s, n))
  BY <1>1, UntouchedBy DEF Untouched, MarksKept
<1>3. \A issue : AllKeepMarks(GoTo(issue))
  <2> SUFFICES ASSUME NEW issue
               PROVE  MarksKept(SetSelectedPath(SetActiveStep(s, StepForIssue(issue)),
                                                Selected("issue", issue.index)))
    BY DEF GoTo, Edit, Outcome, AllKeepMarks
  <2> DEFINE u == SetActiveStep(s, StepForIssue(issue))
  <2>1. Shaped(u) /\ MarksKept(u)
    <3>1. StepForIssue(issue) \in Steps
      BY DEF StepForIssue, Steps
    <3> QED BY <1>1, <1>2, <3>1, InterfaceActions DEF Aside
  <2> HIDE DEF u
  <2>2. \A path : MarksKept(SetSelectedPath(u, path))
    BY <2>1, UntouchedBy DEF Untouched, MarksKept
  <2> QED BY <2>2 DEF u
<1>4. \A issue : AllKeepMarks(Dismiss(issue))
  <2>1. \A code : MarksKept(DismissIssue(s, code))
    BY <1>1, UntouchedBy DEF Untouched, MarksKept
  <2> QED BY <2>1 DEF Dismiss, Edit, Outcome, AllKeepMarks
<1>5. AllKeepMarks(Banner)
  BY <1>3, <1>4 DEF Banner, AllKeepMarks
<1>6. AllKeepMarks(JumpTo)
  BY <1>2 DEF JumpTo, Outcome, AllKeepMarks
<1> QED BY <1>5, <1>6

(* A change of the tree or the rows changes no site there was. *)
LEMMA EditLeaves ==
  ASSUME SettledInv, TypedInv, UniqueSites(s), NEW e,
         \A B : Sound(B, s) => Allowed(B, e), MarksKept(e.to)
  PROVE  \A k \in DOMAIN typed : SameField(e.to, k[1], k[2])
<1> DEFINE ids == NewIds(nextId, e.used)
           C == Since(ids)
           old == Below(nextId).ids
           u == e.to
<1>1. Sound(C, s) /\ C.ids = ids
  BY SinceNow DEF Since
<1>2. e.used \in Nat /\ nextId \in Nat
  BY <1>1 DEF SettledInv, Allowed
<1>3. ids \intersect old = {}
  <2> DEFINE n == nextId
             m == e.used
  <2>1. n \in Nat /\ m \in Nat
    BY <1>2
  <2> HIDE DEF n, m
  <2>2. \A i \in n..(n + m - 1) : i \notin 0..(n - 1)
    BY <2>1
  <2> QED BY <2>2 DEF NewIds, Below, Only, n, m
<1>4. Sound(C, u)
  BY <1>1 DEF Allowed
<1>5. \A id : OverridesOf(s, id) \subseteq OverridesOf(u, id)
  BY DEF MarksKept, OverridesOf
<1>6. \A k \in DOMAIN typed : k[1] \in old
  BY DEF TypedInv, HasTyped
<1> HIDE DEF ids, u
<1>7. ASSUME NEW k \in DOMAIN typed PROVE SameField(u, k[1], k[2])
  <2>1. Planted(Since(ids), u)
    BY <1>4 DEF Sound
  <2> DEFINE id == k[1]
             x == k[2]
  <2>2. id \in Below(nextId).ids
    BY <1>6
  <2> HIDE DEF id, x
  <2>3. SameField(u, id, x)
    BY <1>3, <1>5, <2>1, <2>2, TreeField
  <2> QED BY <2>3 DEF id, x
<1> QED BY <1>7 DEF u

(* What was typed holds after a commit of a state in which it holds. *)
LEMMA FieldThen ==
  ASSUME nextId \in Nat, NEW u, NEW k, NEW v, HasTyped(s, nextId, k, v),
         SameField(u, k[1], k[2]), NEW n \in Nat, nextId <= n
  PROVE  HasTyped(u, n, k, v)
<1> DEFINE m == nextId
           i == k[1]
           x == k[2]
<1>1. m \in Nat /\ m <= n
  OBVIOUS
<1>2. k = <<i, x>> /\ i \in Below(m).ids
  BY DEF HasTyped
<1> HIDE DEF m
<1>3. i \in Below(n).ids
  <2>1. \A j \in 0..(m - 1) : j \in 0..(n - 1)
    BY <1>1
  <2> QED BY <1>2, <2>1 DEF Below, Only
<1> HIDE DEF i, x
<1>4. SameField(u, i, x)
  BY DEF i, x
<1>5. i \in SiteIds(s.core) => /\ x \in DeriveFields => x \in OverridesOf(s, i)
                               /\ x \in Overridable => FindSite(s.core, i).f[x] = v
  BY DEF HasTyped, i, x
<1>6. i \in SiteIds(u.core) => /\ x \in DeriveFields => x \in OverridesOf(u, i)
                               /\ x \in Overridable => FindSite(u.core, i).f[x] = v
  BY <1>4, <1>5 DEF SameField
<1> QED BY <1>2, <1>3, <1>6 DEF HasTyped, i, x

(* What holds of the state a commit is given holds of the one it makes. *)
LEMMA CommitTyped ==
  ASSUME NEW t, Shaped(t), NEW pg, NEW chosen, NEW tb, NEW renewed, Commit(t, pg, chosen, tb, renewed)
  PROVE  \A n, k, v : HasTyped(t, n, k, v) => HasTyped(s', n, k, v)
<1> DEFINE u == s'
<1>1. Untouched(t, u)
  BY CommitForm
<1> HIDE DEF u
<1>2. \A n, k, v : HasTyped(t, n, k, v) => HasTyped(u, n, k, v)
  BY <1>1, UntouchedTyped
<1> QED BY <1>2 DEF u

(* What the invariant says of the next state. *)
LEMMA TypedNext ==
  ASSUME \A k \in DOMAIN typed' : HasTyped(s', nextId', k, typed'[k])
  PROVE  TypedInv'
  BY DEF TypedInv

(* The state an outcome leads to. *)
LEMMA OutcomeShaped ==
  ASSUME SettledInv, NEW e, \A B : B.sites = {} /\ Sound(B, s) => Allowed(B, e)
  PROVE  Shaped(e.to) /\ e.used \in Nat
<1>1. /\ Below(nextId).ids \subseteq AnyId.ids /\ Below(nextId).sites \subseteq AnyId.sites
      /\ AnyId.sites = {} /\ AnyId.ids = Nat /\ nextId \in Nat
  BY DEF Below, AnyId, Only, SettledInv
<1>2. Sound(AnyId, s)
  BY <1>1, SoundMore DEF SettledInv
<1>3. e.used \in Nat /\ Allowed(AnyId, e)
  BY <1>1, <1>2 DEF Allowed
<1>4. NewIds(nextId, e.used) \subseteq AnyId.ids
  BY <1>1, <1>3 DEF NewIds
<1> QED BY <1>2, <1>3, <1>4 DEF Allowed, Sound, Planted

LEMMA EditSizerTyped ==
  SettledInv /\ UniqueSites(s) /\ TypedInv /\ EditSizer /\ typed' = typed => TypedInv'
<1> SUFFICES ASSUME SettledInv, UniqueSites(s), TypedInv, EditSizer, typed' = typed PROVE TypedInv'
  OBVIOUS
<1>1. nextId \in Nat
  BY DEF SettledInv
<1>2. PICK e \in When(s.ui.activeStep = 1, SizerStepRegions)
                 \union When(s.ui.activeStep = 3, SizerStepInfra) \union Banner \union JumpTo : Do(e)
  BY DEF EditSizer
<1>3. \A B : Sound(B, s) => Allowed(B, e)
  BY <1>1, <1>2, RegionsSound, InfraSound, BannerSound DEF LeadsToSound, When
<1>4. MarksKept(e.to)
  BY <1>2, RegionsKeepMarks, InfraKeepsMarks, BannerKeepsMarks DEF AllKeepMarks, When
<1> DEFINE u == e.to
           n == nextId + e.used
<1>5. \A k \in DOMAIN typed : SameField(u, k[1], k[2])
  BY <1>3, <1>4, EditLeaves
<1>6. Shaped(u) /\ e.used \in Nat
  BY <1>3, OutcomeShaped
<1>7. Commit(u, page, e.region, e.tab, e.acts) /\ nextId' = n
  BY <1>2 DEF Do
<1>8. n \in Nat /\ nextId <= n
  BY <1>1, <1>6
<1> HIDE DEF u, n
<1>9. \A k \in DOMAIN typed : HasTyped(u, n, k, typed[k])
  BY <1>1, <1>5, <1>8, FieldThen DEF TypedInv
<1>10. \A k \in DOMAIN typed : HasTyped(s', n, k, typed[k])
  BY <1>6, <1>7, <1>9, CommitTyped
<1> QED BY <1>7, <1>10, TypedNext

LEMMA EditFormTyped == SettledInv /\ UniqueSites(s) /\ TypedInv /\ EditForm => TypedInv'
<1> SUFFICES ASSUME SettledInv, UniqueSites(s), TypedInv, EditForm PROVE TypedInv'
  OBVIOUS
<1>1. nextId \in Nat
  BY DEF SettledInv
<1>2. PICK e \in Offered : Do(e.edit) /\ typed' = Overlaid(typed, e.typed)
  BY DEF EditForm
<1>3. \A B : B.sites = {} /\ Sound(B, s) => Allowed(B, e.edit)
  BY <1>1, <1>2, FormsSound
<1>4. LeavesTyped(e)
  BY <1>2, OfferedLeaves
<1> DEFINE d == e.edit
           u == d.to
           n == nextId + d.used
<1>5. Shaped(u) /\ d.used \in Nat
  BY <1>3, OutcomeShaped
<1>6. Commit(u, page, d.region, d.tab, d.acts) /\ nextId' = n
  BY <1>2 DEF Do
<1>7. n \in Nat /\ nextId <= n
  BY <1>1, <1>5
<1>8. /\ \A k \in DOMAIN typed \ DOMAIN e.typed : SameField(u, k[1], k[2])
      /\ \A k \in DOMAIN e.typed : HasTyped(u, n, k, e.typed[k])
  BY <1>4 DEF LeavesTyped
<1> HIDE DEF d, u, n
<1>9. \A k \in DOMAIN typed \ DOMAIN e.typed : HasTyped(u, n, k, typed[k])
  BY <1>1, <1>7, <1>8, FieldThen DEF TypedInv
<1>10. \A k \in DOMAIN typed' :
         IF k \in DOMAIN e.typed THEN typed'[k] = e.typed[k]
         ELSE k \in DOMAIN typed /\ typed'[k] = typed[k]
  BY <1>2 DEF Overlaid
<1>11. \A k \in DOMAIN typed' : HasTyped(u, n, k, typed'[k])
  BY <1>8, <1>9, <1>10
<1>12. \A k \in DOMAIN typed' : HasTyped(s', n, k, typed'[k])
  BY <1>5, <1>6, <1>11, CommitTyped
<1> QED BY <1>6, <1>12, TypedNext

LEMMA TurnPageTyped == SettledInv /\ TypedInv /\ TurnPage /\ typed' = typed => TypedInv'
<1> SUFFICES ASSUME SettledInv, TypedInv, TurnPage, typed' = typed PROVE TypedInv'
  OBVIOUS
<1>1. PICK pg : Commit(s, pg, region, tab, FALSE) /\ nextId' = nextId
  BY DEF TurnPage, Turn
<1>2. Shaped(s)
  BY DEF SettledInv, Sound, Planted
<1>3. \A k \in DOMAIN typed : HasTyped(s', nextId, k, typed[k])
  BY <1>1, <1>2, CommitTyped DEF TypedInv
<1> QED BY <1>1, <1>3, TypedNext

(* After a reset there is no site. *)
LEMMA OnResetTyped == SettledInv /\ TypedInv /\ OnReset /\ typed' = typed => TypedInv'
<1> SUFFICES ASSUME SettledInv, TypedInv, OnReset, typed' = typed PROVE TypedInv'
  OBVIOUS
<1> DEFINE t == SetActiveStep(InitialSizerState, 1)
<1>1. Commit(t, "scan", region, tab, TRUE) /\ nextId' = nextId
  BY DEF OnReset
<1>2. Sound(Only({}), t)
  BY InitialSound, InterfaceActions, AsideSound DEF Steps, Sound, Planted
<1> HIDE DEF t
<1>3. Shaped(t)
  BY <1>2 DEF Sound, Planted
<1>4. SiteIds(t.core) = {}
  <2> SUFFICES ASSUME NEW id \in SiteIds(t.core) PROVE FALSE
    OBVIOUS
  <2>1. IsSite(Only({}), FindSite(t.core, id))
    BY <1>2, SiteFound, SitesTyped DEF Sound
  <2> QED BY <2>1 DEF IsSite, Only
<1>5. \A k \in DOMAIN typed : HasTyped(t, nextId, k, typed[k])
  BY <1>4 DEF TypedInv, HasTyped
<1>6. \A k \in DOMAIN typed : HasTyped(s', nextId, k, typed[k])
  BY <1>1, <1>3, <1>5, CommitTyped
<1> QED BY <1>1, <1>6, TypedNext

(* The timer writes the fields it derives, but for the marked ones.        *)
LEMMA DeriveTyped == SettledInv /\ FreshForm /\ TypedInv /\ Derive /\ typed' = typed => TypedInv'
<1> SUFFICES ASSUME SettledInv, FreshForm, TypedInv, Derive, typed' = typed PROVE TypedInv'
  OBVIOUS
<1> DEFINE g == FormNow
           t == FindSite(s.core, g)
           marks == OverridesOf(s, g)
           values == Derived(s, t)
           patch == [x \in DOMAIN values \ marks |-> values[x]]
           d == UpdateSite(s, g, patch)
           B == Below(nextId)
<1>1. g # 0
  BY DEF Derive, FreshForm
<1>2. g = FormSiteId(s, region) /\ g \in SiteIds(s.core) /\ t.id = g
  BY <1>1, FormIsSite DEF FormSiteId
<1>3. s' = EndDismissals(SiteDerive(s, t.id, values), LastMessages(s.core)) /\ nextId' = nextId
  BY <1>2 DEF Derive
<1>4. SiteDerive(s, t.id, values) = d
  BY <1>2 DEF SiteDerive
<1>5. DOMAIN values = DeriveFields \union SplitFields
  BY DEF Derived, DeriveFromUsers, Complete
<1>6. DOMAIN patch = (DeriveFields \union SplitFields) \ marks
  BY <1>5
<1>7. /\ "id" \notin DOMAIN patch /\ Overridable \subseteq NumberFields
      /\ \A x \in Overridable : x \in DOMAIN patch => x \in DeriveFields \ marks
  BY <1>6 DEF DeriveFields, SplitFields, NumberFields, Overridable
<1>8. Sound(B, s) /\ Shaped(s) /\ B.sites = {}
  BY DEF SettledInv, Sound, Planted, Below, Only
<1>9. Sound(B, d)
  BY <1>7, <1>8, SiteEdited
<1> HIDE DEF patch, values, B
<1>10. SiteIds(d.core) \subseteq SiteIds(s.core)
  BY <1>7, <1>8, UpdateIds
<1>11. \A i : OverridesOf(d, i) = OverridesOf(s, i)
  <2>1. d.ui = s.ui
    BY <1>8, FieldsBesideUI
  <2> QED BY <2>1 DEF OverridesOf
<1>12. ASSUME NEW i \in SiteIds(s.core), NEW x \in NumberFields, x \notin DOMAIN patch \/ i # g
       PROVE  FindSite(d.core, i).f[x] = FindSite(s.core, i).f[x]
  <2> DEFINE r == s
             id == g
             w == UpdateSite(r, id, patch)
  <2>1. Sound(B, r) /\ i \in SiteIds(r.core)
    BY <1>8
  <2> HIDE DEF r, id
  <2>2. \A y \in NumberFields : y \notin DOMAIN patch \/ i # id =>
          FindSite(w.core, i).f[y] = FindSite(r.core, i).f[y]
    BY <1>7, <1>8, <2>1, FieldsStay
  <2> QED BY <1>12, <2>2 DEF r, id
<1> HIDE DEF d
<1>13. ASSUME NEW k \in DOMAIN typed PROVE HasTyped(d, nextId, k, typed[k])
  <2> DEFINE i == k[1]
             x == k[2]
             v == typed[k]
             m == nextId
  <2>1. HasTyped(s, m, k, v)
    BY DEF TypedInv
  <2> HIDE DEF v, m
  <2>2. k = <<i, x>> /\ i \in Below(m).ids
    BY <2>1 DEF HasTyped
  <2>3. i \in SiteIds(s.core) => /\ x \in DeriveFields => x \in OverridesOf(s, i)
                                 /\ x \in Overridable => FindSite(s.core, i).f[x] = v
    BY <2>1 DEF HasTyped
  <2> HIDE DEF i, x
  <2>4. ASSUME i \in SiteIds(s.core), x \in Overridable
        PROVE  FindSite(d.core, i).f[x] = v
    <3>1. x \notin DOMAIN patch \/ i # g
      BY <1>7, <2>3, <2>4 DEF marks
    <3>2. FindSite(d.core, i).f[x] = FindSite(s.core, i).f[x]
      BY <1>7, <1>12, <2>4, <3>1
    <3> QED BY <2>3, <2>4, <3>2
  <2>5. i \in SiteIds(d.core) => /\ x \in DeriveFields => x \in OverridesOf(d, i)
                                 /\ x \in Overridable => FindSite(d.core, i).f[x] = v
    BY <1>10, <1>11, <2>3, <2>4
  <2> QED BY <2>2, <2>5 DEF HasTyped, i, x, v, m
<1>14. Untouched(d, s')
  <2>1. s' = EndDismissals(d, LastMessages(s.core)) /\ Shaped(d)
    BY <1>3, <1>4, <1>9 DEF Sound, Planted
  <2> QED BY <2>1, UntouchedBy
<1> DEFINE u == s'
<1> HIDE DEF u
<1>15. \A k \in DOMAIN typed : HasTyped(u, nextId, k, typed[k])
  <2>1. Untouched(d, u)
    BY <1>14 DEF u
  <2> QED BY <1>13, <2>1, UntouchedTyped
<1> QED BY <1>3, <1>15, TypedNext DEF u

(* An import leaves the marks, and moves the sites there were at most.     *)
LEMMA ImportLeaves ==
  ASSUME SettledInv, TypedInv, UniqueSites(s), NEW scan \in Scans
  PROVE  LET inApp == ImportScan(s, Incoming(scan), MergeId(scan))
         IN /\ Shaped(inApp)
            /\ \A k \in DOMAIN typed : SameField(inApp, k[1], k[2])
<1> DEFINE span == ImportSpan(scan)
           ids == NewIds(nextId, span)
           C == Since(ids)
           old == Below(nextId).ids
           in == Incoming(scan)
           next == MergeId(scan)
           u == ImportScan(s, in, next)
<1>1. nextId \in Nat
  BY DEF SettledInv
<1>2. ids \intersect old = {}
  <2> DEFINE n == nextId
             m == span
  <2>1. n \in Nat
    BY <1>1
  <2> HIDE DEF n, m
  <2>2. \A i \in n..(n + m - 1) : i \notin 0..(n - 1)
    BY <2>1
  <2> QED BY <2>2 DEF NewIds, Below, Only, n, m
<1>3. IsTree(C, in.regions) /\ Rows(in.niosx)
  <2>1. Only(ids).ids \subseteq C.ids /\ Only(ids).sites \subseteq C.sites /\ Only(ids).ids = ids
    BY DEF Only, Since
  <2>2. IsTree(Only(ids), in.regions) /\ Rows(in.niosx)
    BY <1>1, <2>1, ImportedTree DEF Incoming
  <2> HIDE DEF in, C, ids
  <2> QED BY <2>1, <2>2, SoundMore
<1>4. Sound(C, s)
  BY SinceNow
<1> HIDE DEF C, in, next
<1>5. Sound(C, u)
  BY <1>3, <1>4, MergeSound
<1>6. \A id : OverridesOf(u, id) = OverridesOf(s, id)
  <2> DEFINE q == MergeRegions(s.core.regions, in.regions, next)
             rows == MergeNiosx(s.core.niosx, in.niosx)
  <2>1. u = [s EXCEPT !.core.regions = q, !.core.niosx = rows]
    BY DEF ImportScan, MergeFullState
  <2>2. Shaped(s)
    BY <1>4 DEF Sound, Planted
  <2> HIDE DEF q, rows, u
  <2>3. u.ui = s.ui
    BY <2>1, <2>2 DEF Shaped, IsStateAt
  <2> QED BY <2>3 DEF OverridesOf
<1>7. \A k \in DOMAIN typed : k[1] \in old
  BY DEF TypedInv, HasTyped
<1> HIDE DEF ids, u
<1>8. ASSUME NEW k \in DOMAIN typed PROVE SameField(u, k[1], k[2])
  <2>1. Planted(Since(ids), u)
    BY <1>5 DEF Sound, C
  <2> DEFINE id == k[1]
             x == k[2]
  <2>2. id \in Below(nextId).ids /\ OverridesOf(s, id) \subseteq OverridesOf(u, id)
    BY <1>6, <1>7
  <2> HIDE DEF id, x
  <2>3. SameField(u, id, x)
    BY <1>2, <2>1, <2>2, TreeField
  <2> QED BY <2>3 DEF id, x
<1>9. Shaped(u)
  BY <1>5 DEF Sound, Planted
<1> QED BY <1>8, <1>9 DEF u, in, next

LEMMA ImportTyped ==
  SettledInv /\ UniqueSites(s) /\ TypedInv /\ HandleSizerImportConfirm /\ typed' = typed => TypedInv'
<1> SUFFICES ASSUME SettledInv, UniqueSites(s), TypedInv, HandleSizerImportConfirm, typed' = typed
             PROVE  TypedInv'
  OBVIOUS
<1>1. PICK scan \in Scans :
           /\ nextId' = MergeId(scan) + 2 * (Len(s.core.regions) + Len(scan.findings) + 1)
           /\ LET merged == ImportScan(Loaded(stored), Incoming(scan), MergeId(scan))
              IN \/ ImportDone(Loaded(stored), merged, ImportScan(s, Incoming(scan), MergeId(scan)))
                 \/ ImportFailed(merged)
  BY ImportCases
<1> DEFINE merged == ImportScan(Loaded(stored), Incoming(scan), MergeId(scan))
           inApp == ImportScan(s, Incoming(scan), MergeId(scan))
           landed == SetActiveStep(inApp, LandingStep(merged))
           n == nextId'
<1>2. n \in Nat /\ nextId <= n /\ nextId \in Nat
  BY <1>1, ImportIds DEF SettledInv
<1>3. Shaped(inApp) /\ \A k \in DOMAIN typed : SameField(inApp, k[1], k[2])
  BY ImportLeaves
<1> HIDE DEF merged, inApp, n
<1>4. Shaped(landed) /\ Untouched(inApp, landed)
  BY <1>3, LandingSteps, InterfaceActions, UntouchedBy DEF Steps, Aside
<1> HIDE DEF landed
<1>5. \A k \in DOMAIN typed : HasTyped(landed, n, k, typed[k])
  <2>1. \A k \in DOMAIN typed : HasTyped(inApp, n, k, typed[k])
    BY <1>2, <1>3, FieldThen DEF TypedInv
  <2> QED BY <1>4, <2>1, UntouchedTyped
<1>6. CASE ImportDone(Loaded(stored), merged, inApp)
  <2>1. Commit(landed, "sizer", region, tab, TRUE)
    BY <1>6 DEF ImportDone, landed
  <2>2. \A k \in DOMAIN typed : HasTyped(s', n, k, typed[k])
    BY <1>4, <1>5, <2>1, CommitTyped
  <2> QED BY <2>2, TypedNext DEF n
<1>7. CASE ImportFailed(merged)
  <2>1. s' = s
    BY <1>7 DEF ImportFailed, live
  <2>2. \A k \in DOMAIN typed : SameField(s, k[1], k[2])
    BY DEF SameField
  <2>3. \A k \in DOMAIN typed : HasTyped(s, n, k, typed[k])
    BY <1>2, <2>2, FieldThen DEF TypedInv
  <2> QED BY <2>1, <2>3, TypedNext DEF n
<1> QED BY <1>1, <1>6, <1>7 DEF merged, inApp

LEMMA TypedStep ==
  SettledInv /\ FreshForm /\ UniqueSites(s) /\ TypedInv /\ [FormNext]_formVars => TypedInv'
<1> SUFFICES ASSUME SettledInv, FreshForm, UniqueSites(s), TypedInv, [FormNext]_formVars
             PROVE  TypedInv'
  OBVIOUS
<1>1. CASE EditForm
  BY <1>1, EditFormTyped
<1>2. CASE Elsewhere /\ open
  <2>1. Next /\ typed' = typed
    BY <1>2 DEF Elsewhere
  <2>2. CASE EditSizer \/ Derive \/ TurnPage \/ OnReset \/ HandleSizerImportConfirm
    BY <2>1, <2>2, EditSizerTyped, DeriveTyped, TurnPageTyped, OnResetTyped, ImportTyped
  <2>3. CASE PersistTimer \/ PageHide \/ Kill \/ ShowBadge
    BY <2>1, <2>3 DEF PersistTimer, PageHide, Kill, ShowBadge, live, TypedInv
  <2>4. ~Reopen
    BY <1>2 DEF Reopen
  <2> QED BY <2>1, <2>2, <2>3, <2>4 DEF Next
<1>3. CASE Elsewhere /\ ~open
  <2>1. typed' = <<>> /\ DOMAIN <<>> = {}
    BY <1>3 DEF Elsewhere
  <2> QED BY <2>1 DEF TypedInv
<1>4. CASE UNCHANGED formVars
  BY <1>4 DEF formVars, vars, live, TypedInv
<1> QED BY <1>1, <1>2, <1>3, <1>4 DEF FormNext

LEMMA TypedInit == FormInit => TypedInv
<1>1. DOMAIN <<>> = {}
  OBVIOUS
<1> QED BY <1>1 DEF FormInit, TypedInv

(* What the user typed into a site stays: the derive timer, the clones,    *)
(* the change of mode, an import, the moves between sites, steps and pages *)
(* never replace it, as long as every site has an identifier of its own.   *)
THEOREM TypedValuesKept == FormSpec /\ []UniqueSites(s) => []TypedValuesStay
<1>1. TypedInv => TypedValuesStay
  BY DEF TypedInv, HasTyped, TypedValuesStay
<1> DEFINE unique == UniqueSites(s)
<1>2. SettledInv /\ FreshForm /\ unique /\ TypedInv /\ [FormNext]_formVars => TypedInv'
  BY TypedStep
<1> HIDE DEF unique
<1>3. FormSpec /\ []unique => []TypedInv
  BY <1>2, TypedInit, SettledInvariant, FreshInvariant, PTL DEF FormSpec
<1>4. FormSpec /\ []unique => []TypedValuesStay
  BY <1>1, <1>3, PTL
<1> QED BY <1>4 DEF unique
=============================================================================
