----------------------------- MODULE SizerProofs -----------------------------
(***************************************************************************)
(* Proofs about the Sizer: what is selected is a node of the tree, the     *)
(* copy in sessionStorage keeps up with the screen, and an import writes   *)
(* what it shows and only adds to what is there.                           *)
(*                                                                         *)
(* The invariant of all four is Sound: the state is a record of the shape  *)
(* the provider holds, its regions are a tree, and the selection resolves. *)
(* Every reducer action is shown to keep the nodes there are (RegionKept)  *)
(* or to clear the selection.                                              *)
(*                                                                         *)
(* That an import only adds has two halves.  A merge changes nothing of a  *)
(* region but the sites it holds, and loses none of these (Adds); and no   *)
(* identifier comes twice (OnceIn), as what is merged in is numbered from  *)
(* nextId on and each incoming site is picked for one region at most.      *)
(***************************************************************************)
EXTENDS SizerSites, Induction, FiniteSetTheorems

-----------------------------------------------------------------------------
(* Lists: what the operators that make them give is a list again. *)

Listed(q) == q \in Seq(Range(q))

(* The empty list, lists of one element, and sequences over a set. *)
LEMMA ListBasics ==
  /\ Listed(<<>>)
  /\ \A x : Listed(<<x>>) /\ DOMAIN <<x>> = {1} /\ <<x>>[1] = x
  /\ \A q : Listed(q) => Len(q) \in Nat /\ DOMAIN q = 1..Len(q) /\ (q # <<>> => 1 \in DOMAIN q)
  /\ \A S : \A q \in Seq(S) : Listed(q) /\ \A i \in DOMAIN q : q[i] \in S
  BY DEF Listed, Range

(* A function on 1..n is a list. *)
LEMMA ListCounted ==
  ASSUME NEW n \in Nat, NEW q, q = [i \in 1..n |-> q[i]]
  PROVE  Listed(q) /\ DOMAIN q = 1..n
<1>1. q \in [1..n -> Range(q)]
  BY DEF Range
<1>2. q \in Seq(Range(q))
  BY <1>1
<1> QED BY <1>2 DEF Listed

(* Array.map: a function on the places of a list is a list. *)
LEMMA ListMade ==
  ASSUME NEW p, Listed(p), NEW q, q = [i \in DOMAIN p |-> q[i]]
  PROVE  Listed(q) /\ DOMAIN q = DOMAIN p
<1>1. DOMAIN p = 1..Len(p) /\ Len(p) \in Nat
  BY ListBasics
<1> QED BY <1>1, ListCounted

(* Concatenation. *)
LEMMA ListJoined ==
  ASSUME NEW p, Listed(p), NEW q, Listed(q)
  PROVE  /\ Listed(p \o q) /\ Range(p \o q) = Range(p) \union Range(q)
         /\ \A i \in DOMAIN p : i \in DOMAIN (p \o q) /\ (p \o q)[i] = p[i]
<1> DEFINE S == Range(p) \union Range(q)
           r == p \o q
<1>1. p \in Seq(S) /\ q \in Seq(S)
  BY DEF Listed
<1> HIDE DEF S
<1>2. /\ r \in Seq(S) /\ Len(r) = Len(p) + Len(q)
      /\ \A i \in 1..Len(p) : r[i] = p[i]
      /\ \A i \in 1..Len(q) : r[Len(p) + i] = q[i]
  BY <1>1
<1>3. /\ Len(p) \in Nat /\ Len(q) \in Nat
      /\ DOMAIN p = 1..Len(p) /\ DOMAIN q = 1..Len(q) /\ DOMAIN r = 1..(Len(p) + Len(q))
  BY <1>1, <1>2
<1> HIDE DEF r
<1>4. Listed(r)
  BY <1>2, ListBasics
<1>5. Range(r) \subseteq Range(p) \union Range(q)
  <2> SUFFICES ASSUME NEW i \in DOMAIN r PROVE r[i] \in Range(p) \union Range(q)
    BY DEF Range
  <2>1. CASE i <= Len(p)
    BY <2>1, <1>2, <1>3 DEF Range
  <2>2. CASE i > Len(p)
    <3>1. i - Len(p) \in 1..Len(q) /\ r[Len(p) + (i - Len(p))] = q[i - Len(p)]
      BY <2>2, <1>2, <1>3
    <3> QED BY <3>1, <1>3 DEF Range
  <2> QED BY <2>1, <2>2, <1>3
<1>6. Range(p) \union Range(q) \subseteq Range(r)
  <2>1. \A i \in 1..Len(q) : Len(p) + i \in DOMAIN r
    BY <1>3
  <2>2. \A i \in DOMAIN q : q[i] \in Range(r)
    BY <2>1, <1>2, <1>3 DEF Range
  <2>3. \A i \in DOMAIN p : p[i] \in Range(r)
    BY <1>2, <1>3 DEF Range
  <2> QED BY <2>2, <2>3 DEF Range
<1>7. \A i \in DOMAIN p : i \in DOMAIN r /\ r[i] = p[i]
  BY <1>2, <1>3
<1> QED BY <1>4, <1>5, <1>6, <1>7 DEF r

(* One more element. *)
LEMMA ListAppended ==
  ASSUME NEW p, Listed(p), NEW x
  PROVE  /\ Listed(Append(p, x)) /\ Range(Append(p, x)) = Range(p) \union {x}
         /\ \A i \in DOMAIN p : i \in DOMAIN Append(p, x) /\ Append(p, x)[i] = p[i]
<1> DEFINE S == Range(p) \union {x}
           r == Append(p, x)
<1>1. p \in Seq(S)
  BY DEF Listed
<1> HIDE DEF S
<1>2. x \in S
  BY DEF S
<1>3. /\ r \in Seq(S) /\ DOMAIN r = 1..(Len(p) + 1) /\ Len(p) \in Nat /\ DOMAIN p = 1..Len(p)
      /\ \A i \in 1..Len(p) : r[i] = p[i]
      /\ r[Len(p) + 1] = x
  BY <1>1, <1>2
<1> HIDE DEF r
<1>4. Listed(r)
  BY <1>3, ListBasics
<1>5. Range(r) = Range(p) \union {x}
  BY <1>3 DEF Range
<1>6. \A i \in DOMAIN p : i \in DOMAIN r /\ r[i] = p[i]
  BY <1>3
<1> QED BY <1>4, <1>5, <1>6 DEF r

(* Array.filter: f[n] is what is kept of the first n elements. *)
Picks(f, q, I) ==
  /\ f[0] = <<>>
  /\ \A n \in 1..Len(q) : f[n] = IF n \in I THEN Append(f[n - 1], q[n]) ELSE f[n - 1]
  /\ Picked(q, I) = f[Len(q)]

LEMMA Picking ==
  ASSUME NEW q, Listed(q), NEW I
  PROVE  \E f : Picks(f, q, I)
<1> DEFINE N == Len(q)
           V == Seq(Range(q))
           step == [a \in (1..N) \X V |-> IF a[1] \in I THEN Append(a[2], q[a[1]]) ELSE a[2]]
           picked == CHOOSE f : f = [n \in 0..N |-> IF n = 0 THEN <<>>
                                       ELSE IF n \in I THEN Append(f[n - 1], q[n]) ELSE f[n - 1]]
           IsPicked(f) == f = [n \in 0..N |-> IF n = 0 THEN <<>>
                                       ELSE IF n \in I THEN Append(f[n - 1], q[n]) ELSE f[n - 1]]
<1>1. N \in Nat /\ \A n \in 1..N : q[n] \in Range(q)
  BY DEF Listed, Range
<1>2. <<>> \in V /\ step \in [(1..N) \X V -> V]
  BY <1>1
<1>3. PICK g \in [0..N -> V] : Solves(g, N, <<>>, step)
  <2> HIDE DEF V, step
  <2> QED BY <1>1, <1>2, Recursion DEF Solvable
<1>4. IsPicked(g)
  <2>1. ASSUME NEW n \in 0..N
        PROVE g[n] = IF n = 0 THEN <<>> ELSE IF n \in I THEN Append(g[n - 1], q[n]) ELSE g[n - 1]
    <3>1. CASE n = 0
      BY <3>1, <1>3 DEF Solves
    <3>2. CASE n # 0
      <4>1. n \in 1..N /\ n - 1 \in 0..N
        BY <1>1, <3>2
      <4>2. g[n] = step[<<n, g[n - 1]>>] /\ <<n, g[n - 1]>> \in (1..N) \X V
        BY <4>1, <1>3 DEF Solves
      <4> QED BY <4>2, <3>2
    <3> QED BY <3>1, <3>2
  <2> QED BY <2>1, <1>3
<1>5. IsPicked(picked)
  <2> HIDE DEF IsPicked
  <2>1. picked = CHOOSE f : IsPicked(f)
    BY DEF IsPicked
  <2> QED BY <1>4, <2>1
<1>6. Picked(q, I) = picked[N]
  BY DEF Picked
<1> HIDE DEF picked
<1>7. picked[0] = <<>>
  BY <1>1, <1>5
<1>8. ASSUME NEW n \in 1..N
      PROVE  picked[n] = IF n \in I THEN Append(picked[n - 1], q[n]) ELSE picked[n - 1]
  <2>1. n \in 0..N /\ n # 0
    BY <1>1
  <2> QED BY <2>1, <1>5
<1> QED BY <1>6, <1>7, <1>8 DEF Picks

(* What Picked keeps are elements of the list. *)
LEMMA ListPicked ==
  ASSUME NEW q, Listed(q), NEW I
  PROVE  /\ Listed(Picked(q, I)) /\ Range(Picked(q, I)) \subseteq Range(q)
         /\ Len(Picked(q, I)) <= Len(q)
<1> DEFINE N == Len(q)
           V == Seq(Range(q))
<1>1. N \in Nat /\ \A n \in 1..N : q[n] \in Range(q)
  BY DEF Listed, Range
<1>2. PICK picked : Picks(picked, q, I)
  BY Picking
<1>3. picked[N] \in V /\ Len(picked[N]) <= N
  <2> DEFINE T == {n \in Nat : n <= N => picked[n] \in V /\ Len(picked[n]) <= n}
  <2>0. <<>> \in V /\ Len(<<>>) <= 0
    OBVIOUS
  <2>1. 0 \in T
    BY <1>2, <2>0 DEF Picks
  <2>2. ASSUME NEW n \in Nat, n \in T PROVE n + 1 \in T
    <3> SUFFICES ASSUME n + 1 <= N
                 PROVE  picked[n + 1] \in V /\ Len(picked[n + 1]) <= n + 1
      OBVIOUS
    <3>1. n + 1 \in 1..N /\ (n + 1) - 1 = n
      BY <1>1
    <3>2. picked[n + 1] = IF n + 1 \in I THEN Append(picked[n], q[n + 1]) ELSE picked[n]
      BY <1>2, <3>1 DEF Picks
    <3>3. picked[n] \in V /\ Len(picked[n]) <= n /\ q[n + 1] \in Range(q)
      BY <1>1, <2>2
    <3> QED BY <3>2, <3>3
  <2> HIDE DEF T
  <2>3. N \in T
    BY <1>1, <2>1, <2>2, Induction
  <2> QED BY <1>1, <2>3 DEF T
<1>4. Listed(picked[N]) /\ \A i \in DOMAIN picked[N] : picked[N][i] \in Range(q)
  BY <1>3, ListBasics
<1> QED BY <1>2, <1>3, <1>4 DEF Picks, Range

(* Array.flatMap: f[n] is the first n parts put together. *)
Flattens(f, qs) ==
  /\ f[1] = qs[1] /\ \A i \in 1..Len(qs) : i # 1 => f[i] = f[i - 1] \o qs[i]
  /\ FlattenSeq(qs) = f[Len(qs)]

LEMMA Flattening ==
  ASSUME NEW qs, Listed(qs), Len(qs) # 0, \A i \in DOMAIN qs : Listed(qs[i])
  PROVE  \E f : Flattens(f, qs)
<1> DEFINE N == Len(qs)
           S == UNION {Range(qs[i]) : i \in DOMAIN qs}
           V == Seq(S)
           Is(f) == f = [i \in 1..N |-> IF i = 1 THEN qs[i] ELSE f[i - 1] \o qs[i]]
           flatten == CHOOSE f : Is(f)
           step == [a \in (1..N) \X V |-> a[2] \o qs[a[1]]]
<1>1. N \in Nat /\ DOMAIN qs = 1..N
  BY ListBasics
<1>2. \A i \in 1..N : qs[i] \in V
  <2> SUFFICES ASSUME NEW i \in 1..N PROVE qs[i] \in V
    OBVIOUS
  <2>1. qs[i] \in Seq(Range(qs[i])) /\ Range(qs[i]) \subseteq S
    BY <1>1 DEF Listed
  <2> HIDE DEF S
  <2> QED BY <2>1
<1>3. <<>> \in V /\ step \in [(1..N) \X V -> V]
  <2> HIDE DEF V
  <2>1. <<>> \in V /\ \A v \in V : \A i \in 1..N : v \o qs[i] \in V
    <3> HIDE DEF S
    <3> QED BY <1>2 DEF V
  <2> QED BY <2>1
<1>4. PICK g \in [0..N -> V] : Solves(g, N, <<>>, step)
  <2> HIDE DEF V, step
  <2> QED BY <1>1, <1>3, Recursion DEF Solvable
<1> DEFINE h == [i \in 1..N |-> g[i]]
<1>5. \A i \in 1..N : g[i] = g[i - 1] \o qs[i]
  <2> SUFFICES ASSUME NEW i \in 1..N PROVE g[i] = g[i - 1] \o qs[i]
    OBVIOUS
  <2>1. g[i] = step[<<i, g[i - 1]>>] /\ <<i, g[i - 1]>> \in (1..N) \X V
    <3> HIDE DEF V
    <3>1. i - 1 \in 0..N
      BY <1>1
    <3> QED BY <3>1, <1>4 DEF Solves
  <2> QED BY <2>1
<1>6. 1 \in 1..N /\ g[0] = <<>> /\ g[1] = g[0] \o qs[1]
  <2>1. 1 \in 1..N
    BY <1>1
  <2>2. g[0] = <<>>
    <3> HIDE DEF V, step
    <3> QED BY <1>4 DEF Solves
  <2>3. g[1] = g[1 - 1] \o qs[1]
    <3> HIDE DEF V, N
    <3> QED BY <2>1, <1>5
  <2>4. g[1] = g[0] \o qs[1]
    <3> HIDE DEF V, N, S
    <3> QED BY <2>3
  <2> QED BY <2>1, <2>2, <2>4
<1>7. Is(h)
  <2>1. g[1] = qs[1]
    <3> HIDE DEF S
    <3> QED BY <1>6, <1>2
  <2>2. \A i \in 1..N : i # 1 => i - 1 \in 1..N
    BY <1>1
  <2> QED BY <1>5, <2>1, <2>2
<1>8. Is(flatten)
  <2> HIDE DEF Is
  <2> QED BY <1>7
<1>9. FlattenSeq(qs) = flatten[N]
  BY DEF FlattenSeq
<1> HIDE DEF flatten
<1>10. flatten[1] = qs[1] /\ \A i \in 1..N : i # 1 => flatten[i] = flatten[i - 1] \o qs[i]
  BY <1>6, <1>8
<1> QED BY <1>9, <1>10 DEF Flattens

(* The elements of the parts, and no others. *)
LEMMA ListFlattened ==
  ASSUME NEW qs, Listed(qs), \A i \in DOMAIN qs : Listed(qs[i])
  PROVE  /\ Listed(FlattenSeq(qs))
         /\ Range(FlattenSeq(qs)) = UNION {Range(qs[i]) : i \in DOMAIN qs}
<1> DEFINE N == Len(qs)
<1>1. N \in Nat /\ DOMAIN qs = 1..N
  BY ListBasics
<1>2. CASE N = 0
  <2>1. FlattenSeq(qs) = qs /\ DOMAIN qs = {}
    BY <1>1, <1>2 DEF FlattenSeq
  <2> QED BY <2>1 DEF Range
<1>3. CASE N # 0
  <2>1. PICK flatten : Flattens(flatten, qs)
    BY <1>3, Flattening
  <2> DEFINE Joined(n) == UNION {Range(qs[i]) : i \in 1..n}
             T == {n \in Nat : n < N => Listed(flatten[n + 1]) /\ Range(flatten[n + 1]) = Joined(n + 1)}
  <2>2. 0 \in T
    <3>1. flatten[1] = qs[1]
      BY <2>1 DEF Flattens
    <3>2. Joined(0 + 1) = Range(qs[1])
      OBVIOUS
    <3>3. Listed(qs[1])
      BY <1>1, <1>3
    <3> HIDE DEF Joined
    <3> QED BY <3>1, <3>2, <3>3
  <2>3. ASSUME NEW n \in Nat, n \in T PROVE n + 1 \in T
    <3> SUFFICES ASSUME n + 1 < N
                 PROVE Listed(flatten[n + 1 + 1]) /\ Range(flatten[n + 1 + 1]) = Joined(n + 1 + 1)
      OBVIOUS
    <3>1. n + 1 + 1 \in 1..N /\ n + 1 + 1 # 1 /\ (n + 1 + 1) - 1 = n + 1
      BY <1>1
    <3>2. flatten[n + 1 + 1] = flatten[n + 1] \o qs[n + 1 + 1]
      BY <3>1, <2>1 DEF Flattens
    <3>3. Listed(flatten[n + 1]) /\ Range(flatten[n + 1]) = Joined(n + 1) /\ Listed(qs[n + 1 + 1])
      BY <2>3, <1>1, <3>1
    <3>4. Joined(n + 1 + 1) = Joined(n + 1) \union Range(qs[n + 1 + 1])
      <4>1. 1..(n + 1 + 1) = (1..(n + 1)) \union {n + 1 + 1}
        OBVIOUS
      <4> QED BY <4>1
    <3> HIDE DEF Joined
    <3>5. LET r == flatten[n + 1] \o qs[n + 1 + 1]
          IN Listed(r) /\ Range(r) = Range(flatten[n + 1]) \union Range(qs[n + 1 + 1])
      BY <3>3, ListJoined
    <3> QED BY <3>2, <3>3, <3>4, <3>5
  <2>4. N - 1 \in T
    <3> HIDE DEF T
    <3> QED BY <1>1, <1>3, <2>2, <2>3, Induction
  <2>5. Listed(flatten[N]) /\ Range(flatten[N]) = Joined(N)
    <3>1. N - 1 \in Nat /\ N - 1 < N /\ (N - 1) + 1 = N
      BY <1>1, <1>3
    <3> HIDE DEF Joined
    <3> QED BY <2>4, <3>1
  <2> QED BY <2>1, <2>5, <1>1 DEF Flattens
<1> QED BY <1>2, <1>3

(* The same for parts made from the elements of a list. *)
LEMMA ListSpread ==
  ASSUME NEW p, Listed(p), NEW q, q = [i \in DOMAIN p |-> q[i]], \A i \in DOMAIN p : Listed(q[i])
  PROVE  /\ Listed(FlattenSeq(q))
         /\ Range(FlattenSeq(q)) = UNION {Range(q[i]) : i \in DOMAIN p}
<1>1. Listed(q) /\ DOMAIN q = DOMAIN p
  BY ListMade
<1> QED BY <1>1, ListFlattened

-----------------------------------------------------------------------------
(* Trees: what makes the walks over them lists, and when one holds every   *)
(* node of another.                                                        *)

(* A site is one of B.sites, or has one of the identifiers in B.ids. *)
IsSite(B, t) == /\ {"id", "f"} \subseteq DOMAIN t /\ NumberFields \subseteq DOMAIN t.f
                /\ t.id \in B.ids \/ t \in B.sites

(* The identifiers of all sites are in ids. *)
Only(ids) == [ids |-> ids, sites |-> {}]

AnyId == Only(Nat)

IsCity(B, ct) == /\ {"id", "sites"} \subseteq DOMAIN ct /\ Listed(ct.sites)
              /\ \A i \in DOMAIN ct.sites : IsSite(B, ct.sites[i])

IsCountry(B, c) == /\ {"id", "cities"} \subseteq DOMAIN c /\ Listed(c.cities)
                /\ \A i \in DOMAIN c.cities : IsCity(B, c.cities[i])

IsRegion(B, r) == /\ {"id", "name", "type", "countries"} \subseteq DOMAIN r /\ Listed(r.countries)
               /\ \A i \in DOMAIN r.countries : IsCountry(B, r.countries[i])

IsTree(B, q) == Listed(q) /\ \A i \in DOMAIN q : IsRegion(B, q[i])

SitesKept(p, q) == \A i \in DOMAIN p : i \in DOMAIN q /\ q[i].id = p[i].id

CityKept(a, b) == b.id = a.id /\ SitesKept(a.sites, b.sites)

CitiesKept(p, q) == \A i \in DOMAIN p : i \in DOMAIN q /\ CityKept(p[i], q[i])

CountryKept(a, b) == b.id = a.id /\ CitiesKept(a.cities, b.cities)

CountriesKept(p, q) == \A i \in DOMAIN p : i \in DOMAIN q /\ CountryKept(p[i], q[i])

RegionKept(a, b) == b.id = a.id /\ CountriesKept(a.countries, b.countries)

TreeKept(p, q) == \A i \in DOMAIN p : i \in DOMAIN q /\ RegionKept(p[i], q[i])

(* A node keeps itself, and what is kept twice is kept. *)
LEMMA KeptAll ==
  /\ \A a : CityKept(a, a) /\ CountryKept(a, a) /\ RegionKept(a, a) /\ TreeKept(a, a)
  /\ \A a, b, c : RegionKept(a, b) /\ RegionKept(b, c) => RegionKept(a, c)
<1> USE DEF CityKept, SitesKept, CountryKept, CitiesKept, RegionKept, CountriesKept
<1>1. \A a : CityKept(a, a)
  OBVIOUS
<1>2. \A a : CountryKept(a, a)
  OBVIOUS
<1>3. \A a : RegionKept(a, a)
  OBVIOUS
<1>4. \A a : TreeKept(a, a)
  BY <1>3 DEF TreeKept
<1>5. \A a, b, c : CityKept(a, b) /\ CityKept(b, c) => CityKept(a, c)
  OBVIOUS
<1>6. \A a, b, c : CountryKept(a, b) /\ CountryKept(b, c) => CountryKept(a, c)
  <2> HIDE DEF CityKept
  <2> QED BY <1>5
<1>7. \A a, b, c : RegionKept(a, b) /\ RegionKept(b, c) => RegionKept(a, c)
  <2> HIDE DEF CountryKept
  <2> QED BY <1>6
<1> QED BY <1>1, <1>2, <1>3, <1>4, <1>7

(* The walks over a tree. *)
LEMMA CityWalk ==
  ASSUME NEW B, NEW c, IsCountry(B, c)
  PROVE  /\ Listed(CitySites(c))
         /\ \A x : x \in Range(CitySites(c))
                   <=> \E k \in DOMAIN c.cities : x \in Range(c.cities[k].sites)
<1> DEFINE q == [k \in DOMAIN c.cities |-> c.cities[k].sites]
<1>1. CitySites(c) = FlattenSeq(q)
  BY DEF CitySites, Map
<1>2. Listed(c.cities) /\ \A k \in DOMAIN c.cities : Listed(q[k])
  BY DEF IsCountry, IsCity
<1>3. q = [k \in DOMAIN c.cities |-> q[k]]
  OBVIOUS
<1>4. Listed(FlattenSeq(q)) /\ Range(FlattenSeq(q)) = UNION {Range(q[k]) : k \in DOMAIN c.cities}
  <2> HIDE DEF q
  <2> QED BY <1>2, <1>3, ListSpread
<1> QED BY <1>1, <1>4

(* The sites of a region are those of its cities. *)
LEMMA RegionWalk ==
  ASSUME NEW B, NEW r, IsRegion(B, r)
  PROVE  /\ Listed(RegionSites(r))
         /\ \A x : x \in Range(RegionSites(r))
                   <=> \E j \in DOMAIN r.countries :
                         \E k \in DOMAIN r.countries[j].cities :
                           x \in Range(r.countries[j].cities[k].sites)
<1> DEFINE q == [j \in DOMAIN r.countries |-> CitySites(r.countries[j])]
<1>1. RegionSites(r) = FlattenSeq(q)
  BY DEF RegionSites, Map
<1>2. Listed(r.countries) /\ \A j \in DOMAIN r.countries : IsCountry(B, r.countries[j])
  BY DEF IsRegion
<1>3. q = [j \in DOMAIN r.countries |-> q[j]] /\ \A j \in DOMAIN r.countries : Listed(q[j])
  BY <1>2, CityWalk
<1>4. Listed(FlattenSeq(q)) /\ Range(FlattenSeq(q)) = UNION {Range(q[j]) : j \in DOMAIN r.countries}
  <2> HIDE DEF q
  <2> QED BY <1>2, <1>3, ListSpread
<1>5. ASSUME NEW x
      PROVE x \in Range(RegionSites(r))
              <=> \E j \in DOMAIN r.countries : x \in Range(CitySites(r.countries[j]))
  BY <1>1, <1>4
<1> QED BY <1>1, <1>2, <1>4, <1>5, CityWalk

(* All countries are those of the regions. *)
LEMMA CountryWalk ==
  ASSUME NEW B, NEW core, IsTree(B, core.regions)
  PROVE  /\ Listed(AllCountries(core))
         /\ \A x : x \in Range(AllCountries(core))
                   <=> \E i \in DOMAIN core.regions : x \in Range(core.regions[i].countries)
<1> DEFINE q == [i \in DOMAIN core.regions |-> core.regions[i].countries]
<1>1. AllCountries(core) = FlattenSeq(q)
  BY DEF AllCountries, Map
<1>2. Listed(core.regions) /\ \A i \in DOMAIN core.regions : Listed(q[i])
  BY DEF IsTree, IsRegion
<1>3. q = [i \in DOMAIN core.regions |-> q[i]]
  OBVIOUS
<1>4. Listed(FlattenSeq(q)) /\ Range(FlattenSeq(q)) = UNION {Range(q[i]) : i \in DOMAIN core.regions}
  <2> HIDE DEF q
  <2> QED BY <1>2, <1>3, ListSpread
<1> QED BY <1>1, <1>4

(* All cities are those of the countries of the regions. *)
LEMMA CitiesWalk ==
  ASSUME NEW B, NEW core, IsTree(B, core.regions)
  PROVE  /\ Listed(AllCities(core))
         /\ \A x : x \in Range(AllCities(core))
                   <=> \E i \in DOMAIN core.regions : \E j \in DOMAIN core.regions[i].countries :
                         x \in Range(core.regions[i].countries[j].cities)
<1> DEFINE p == AllCountries(core)
           q == [i \in DOMAIN p |-> p[i].cities]
<1>1. AllCities(core) = FlattenSeq(q)
  BY DEF AllCities, Map, CitiesOf
<1>2. \A i \in DOMAIN p : IsCountry(B, p[i])
  <2>1. \A x \in Range(p) : IsCountry(B, x)
    <3> SUFFICES ASSUME NEW x \in Range(p) PROVE IsCountry(B, x)
      OBVIOUS
    <3>1. PICK i \in DOMAIN core.regions : x \in Range(core.regions[i].countries)
      BY CountryWalk
    <3> QED BY <3>1 DEF IsTree, IsRegion, Range
  <2> QED BY <2>1 DEF Range
<1>3. Listed(p) /\ q = [i \in DOMAIN p |-> q[i]] /\ \A i \in DOMAIN p : Listed(q[i])
  BY <1>2, CountryWalk DEF IsCountry
<1>4. Listed(FlattenSeq(q)) /\ Range(FlattenSeq(q)) = UNION {Range(q[i]) : i \in DOMAIN p}
  <2> HIDE DEF p, q
  <2> QED BY <1>3, ListSpread
<1>5. ASSUME NEW x
      PROVE x \in Range(AllCities(core)) <=> \E y \in Range(p) : x \in Range(y.cities)
  BY <1>1, <1>4 DEF Range
<1>6. ASSUME NEW y
      PROVE y \in Range(p)
              <=> \E i \in DOMAIN core.regions : \E j \in DOMAIN core.regions[i].countries :
                    y = core.regions[i].countries[j]
  <2>1. y \in Range(p) <=> \E i \in DOMAIN core.regions : y \in Range(core.regions[i].countries)
    BY CountryWalk
  <2> HIDE DEF p
  <2> QED BY <2>1 DEF Range
<1> HIDE DEF p, q
<1> QED BY <1>1, <1>4, <1>5, <1>6

(* All sites are those of the regions. *)
LEMMA SiteWalk ==
  ASSUME NEW B, NEW core, IsTree(B, core.regions)
  PROVE  /\ Listed(AllSites(core))
         /\ \A x : x \in Range(AllSites(core))
                   <=> \E i \in DOMAIN core.regions : x \in Range(RegionSites(core.regions[i]))
<1> DEFINE q == [i \in DOMAIN core.regions |-> RegionSites(core.regions[i])]
<1>1. AllSites(core) = FlattenSeq(q)
  BY DEF AllSites, Map
<1>2. Listed(core.regions) /\ \A i \in DOMAIN core.regions : Listed(q[i])
  BY RegionWalk DEF IsTree
<1>3. q = [i \in DOMAIN core.regions |-> q[i]]
  OBVIOUS
<1>4. Listed(FlattenSeq(q)) /\ Range(FlattenSeq(q)) = UNION {Range(q[i]) : i \in DOMAIN core.regions}
  <2> HIDE DEF q
  <2> QED BY <1>2, <1>3, ListSpread
<1> QED BY <1>1, <1>4

(* Who is a node. *)
Has(q, id) == \E i \in DOMAIN q : id = q[i].id

HasCountry(q, id) == \E i \in DOMAIN q : Has(q[i].countries, id)

HasCity(q, id) ==
  \E i \in DOMAIN q : \E j \in DOMAIN q[i].countries : Has(q[i].countries[j].cities, id)

HasSite(q, id) ==
  \E i \in DOMAIN q : \E j \in DOMAIN q[i].countries :
    \E k \in DOMAIN q[i].countries[j].cities : Has(q[i].countries[j].cities[k].sites, id)

(* The identifiers of a kind are those found on the way down the tree. *)
LEMMA Nodes ==
  ASSUME NEW B, NEW core, IsTree(B, core.regions), NEW id
  PROVE  /\ id \in NodeIds(core).region <=> Has(core.regions, id)
         /\ id \in NodeIds(core).country <=> HasCountry(core.regions, id)
         /\ id \in NodeIds(core).city <=> HasCity(core.regions, id)
         /\ id \in NodeIds(core).site <=> HasSite(core.regions, id)
<1>1. /\ NodeIds(core).region = IdsOf(core.regions)
      /\ NodeIds(core).country = IdsOf(AllCountries(core))
      /\ NodeIds(core).city = IdsOf(AllCities(core)) /\ NodeIds(core).site = IdsOf(AllSites(core))
  BY DEF NodeIds, SiteIds
<1>2. ASSUME NEW q
      PROVE  /\ id \in IdsOf(q) <=> Has(q, id)
             /\ id \in IdsOf(q) <=> \E x \in Range(q) : id = x.id
  BY DEF IdsOf, Range, Has
<1>3. id \in NodeIds(core).region <=> Has(core.regions, id)
  BY <1>1, <1>2
<1>4. id \in NodeIds(core).country <=> HasCountry(core.regions, id)
  <2>1. \A x : x \in Range(AllCountries(core))
               <=> \E i \in DOMAIN core.regions : x \in Range(core.regions[i].countries)
    BY CountryWalk
  <2>2. id \in NodeIds(core).country <=>
          \E i \in DOMAIN core.regions : \E x \in Range(core.regions[i].countries) : id = x.id
    BY <1>1, <1>2, <2>1
  <2> QED BY <2>2 DEF HasCountry, Has, Range
<1>5. id \in NodeIds(core).city <=> HasCity(core.regions, id)
  <2>1. id \in NodeIds(core).city <=>
          \E i \in DOMAIN core.regions : \E j \in DOMAIN core.regions[i].countries :
            \E x \in Range(core.regions[i].countries[j].cities) : id = x.id
    BY <1>1, <1>2, CitiesWalk
  <2> QED BY <2>1 DEF Range, HasCity, Has
<1>6. id \in NodeIds(core).site <=> HasSite(core.regions, id)
  <2>1. id \in NodeIds(core).site <=>
          \E i \in DOMAIN core.regions : \E x \in Range(RegionSites(core.regions[i])) : id = x.id
    BY <1>1, <1>2, SiteWalk
  <2>2. \A i \in DOMAIN core.regions : IsRegion(B, core.regions[i])
    BY DEF IsTree
  <2>3. id \in NodeIds(core).site <=>
          \E i \in DOMAIN core.regions : \E j \in DOMAIN core.regions[i].countries :
            \E k \in DOMAIN core.regions[i].countries[j].cities :
              \E x \in Range(core.regions[i].countries[j].cities[k].sites) : id = x.id
    BY <2>1, <2>2, RegionWalk
  <2>4. \A q : (\E x \in Range(q) : id = x.id) <=> Has(q, id)
    BY <1>2
  <2> QED BY <2>3, <2>4 DEF HasSite
<1> QED BY <1>3, <1>4, <1>5, <1>6

(* A tree that keeps another holds its nodes. *)
LEMMA NodesKept ==
  ASSUME NEW B, NEW a, NEW b, IsTree(B, a.regions), IsTree(B, b.regions), TreeKept(a.regions, b.regions)
  PROVE  \A kind \in {"region", "country", "city", "site"} :
           NodeIds(a)[kind] \subseteq NodeIds(b)[kind]
<1> USE DEF Has, TreeKept, RegionKept, CountriesKept
<1>1. \A id : Has(a.regions, id) => Has(b.regions, id)
  OBVIOUS
<1>2. \A id : HasCountry(a.regions, id) => HasCountry(b.regions, id)
  BY DEF HasCountry, CountryKept
<1>3. \A id : HasCity(a.regions, id) => HasCity(b.regions, id)
  BY DEF HasCity, CountryKept, CitiesKept, CityKept
<1>4. \A id : HasSite(a.regions, id) => HasSite(b.regions, id)
  <2>1. \A i \in DOMAIN a.regions : \A j \in DOMAIN a.regions[i].countries :
          /\ i \in DOMAIN b.regions /\ j \in DOMAIN b.regions[i].countries
          /\ CountryKept(a.regions[i].countries[j], b.regions[i].countries[j])
    OBVIOUS
  <2>2. \A c, d, id : CountryKept(c, d) =>
          ((\E k \in DOMAIN c.cities : Has(c.cities[k].sites, id))
           => \E k \in DOMAIN d.cities : Has(d.cities[k].sites, id))
    <3> HIDE DEF TreeKept, RegionKept, CountriesKept
    <3>1. \A p, q, id : SitesKept(p, q) /\ Has(p, id) => Has(q, id)
      BY DEF SitesKept
    <3>2. \A c, d : CountryKept(c, d) => \A k \in DOMAIN c.cities :
            k \in DOMAIN d.cities /\ SitesKept(c.cities[k].sites, d.cities[k].sites)
      BY DEF CountryKept, CitiesKept, CityKept
    <3> HIDE DEF Has
    <3> QED BY <3>1, <3>2
  <2> HIDE DEF Has, TreeKept, RegionKept, CountriesKept
  <2> SUFFICES ASSUME NEW id, HasSite(a.regions, id) PROVE HasSite(b.regions, id)
    OBVIOUS
  <2> DEFINE In(c) == \E k \in DOMAIN c.cities : Has(c.cities[k].sites, id)
  <2>3. PICK i \in DOMAIN a.regions : \E j \in DOMAIN a.regions[i].countries :
               In(a.regions[i].countries[j])
    BY DEF HasSite
  <2>4. \A c, d : CountryKept(c, d) => (In(c) => In(d))
    BY <2>2
  <2>6. HasSite(b.regions, id)
          <=> \E m \in DOMAIN b.regions : \E j \in DOMAIN b.regions[m].countries :
                In(b.regions[m].countries[j])
    BY DEF HasSite
  <2> HIDE DEF In
  <2>5. \E j \in DOMAIN b.regions[i].countries : In(b.regions[i].countries[j])
    BY <2>1, <2>3, <2>4
  <2>7. i \in DOMAIN b.regions
    BY <2>1, <2>3
  <2>8. \E m \in DOMAIN b.regions : \E j \in DOMAIN b.regions[m].countries :
          In(b.regions[m].countries[j])
    BY <2>5, <2>7, Zenon
  <2> QED BY <2>6, <2>8
<1> HIDE DEF Has, TreeKept, RegionKept, CountriesKept
<1>5. \A id : /\ id \in NodeIds(a).region => id \in NodeIds(b).region
              /\ id \in NodeIds(a).country => id \in NodeIds(b).country
              /\ id \in NodeIds(a).city => id \in NodeIds(b).city
              /\ id \in NodeIds(a).site => id \in NodeIds(b).site
  BY <1>1, <1>2, <1>3, <1>4, Nodes
<1> QED BY <1>5

-----------------------------------------------------------------------------
(* Sound states. *)

Steps == {1, 2, 3, 4}

(* Rows of systems, each with a name. *)
Rows(q) == Listed(q) /\ \A i \in DOMAIN q : "name" \in DOMAIN q[i]

Shaped(t) == IsStateAt(t, Steps) /\ AreMarks(t.ui.siteOverrides) /\ Rows(t.core.niosx)

(* A state whose tree is one, and what is selected in it is there. *)
Planted(B, t) == Shaped(t) /\ IsTree(B, t.core.regions)

Sound(B, t) == Planted(B, t) /\ Resolves(t)

Kinds == {"region", "country", "city", "site"}

(* A planted state is sound when its selection is a node, or no node at all. *)
LEMMA SoundSelection ==
  ASSUME NEW B, NEW t, Planted(B, t), t.ui.selectedPath.kind \in Kinds =>
                              t.ui.selectedPath.id \in NodeIds(t.core)[t.ui.selectedPath.kind]
  PROVE  Sound(B, t)
  BY DEF Sound, Resolves, Kinds, NodeIds

(* A selection that resolves still does in a tree that keeps the nodes. *)
LEMMA Grows ==
  ASSUME NEW B, NEW t, Sound(B, t), NEW u, Planted(B, u), TreeKept(t.core.regions, u.core.regions),
         u.ui.selectedPath = t.ui.selectedPath
  PROVE  Sound(B, u)
<1>1. \A kind \in Kinds : NodeIds(t.core)[kind] \subseteq NodeIds(u.core)[kind]
  BY NodesKept DEF Kinds, Sound, Planted
<1>2. t.ui.selectedPath.kind \in Kinds =>
        t.ui.selectedPath.id \in NodeIds(t.core)[t.ui.selectedPath.kind]
  BY DEF Sound, Resolves, NodeIds, Kinds
<1> QED BY <1>1, <1>2, SoundSelection

(* A change beside the tree. *)
LEMMA Beside ==
  ASSUME NEW B, NEW t, Sound(B, t), NEW u, Shaped(u), u.core.regions = t.core.regions,
         u.ui.selectedPath = t.ui.selectedPath
  PROVE  Sound(B, u)
  BY KeptAll, Grows DEF Sound, Planted

(* Selecting a node. *)
LEMMA Selects ==
  ASSUME NEW B, NEW t, Planted(B, t), NEW sel, sel.kind \in Kinds => sel.id \in NodeIds(t.core)[sel.kind]
  PROVE  Sound(B, SetSelectedPath(t, sel))
<1> DEFINE u == SetSelectedPath(t, sel)
<1>1. Shaped(u) /\ u.core = t.core /\ u.ui.selectedPath = sel
  BY DEF SetSelectedPath, Planted, Shaped, IsStateAt, UIFields
<1> HIDE DEF u
<1>2. Sound(B, u)
  BY <1>1, SoundSelection DEF Planted
<1> QED BY <1>2 DEF u

(* Clearing the selection is sound on any tree. *)
LEMMA Unselects ==
  ASSUME NEW B, NEW t, Planted(B, t)
  PROVE  Sound(B, SetSelectedPath(t, NoSelection))
  BY Selects DEF NoSelection, Kinds

(* A tree rebuilt from below. *)
LEMMA CityMade ==
  ASSUME NEW B, NEW ct, IsCity(B, ct), NEW q, Listed(q), \A i \in DOMAIN q : IsSite(B, q[i]),
         SitesKept(ct.sites, q)
  PROVE  IsCity(B, [ct EXCEPT !.sites = q]) /\ CityKept(ct, [ct EXCEPT !.sites = q])
  BY DEF IsCity, CityKept

(* A country whose cities are replaced one by one. *)
LEMMA CountryMade ==
  ASSUME NEW B, NEW c, IsCountry(B, c), NEW q, q = [k \in DOMAIN c.cities |-> q[k]],
         \A k \in DOMAIN c.cities : IsCity(B, q[k]) /\ CityKept(c.cities[k], q[k])
  PROVE  IsCountry(B, [c EXCEPT !.cities = q]) /\ CountryKept(c, [c EXCEPT !.cities = q])
<1>1. Listed(q) /\ DOMAIN q = DOMAIN c.cities
  BY ListMade DEF IsCountry
<1> QED BY <1>1 DEF IsCountry, CountryKept, CitiesKept

(* A region whose countries are replaced one by one. *)
LEMMA RegionMade ==
  ASSUME NEW B, NEW r, IsRegion(B, r), NEW q, q = [j \in DOMAIN r.countries |-> q[j]],
         \A j \in DOMAIN r.countries : IsCountry(B, q[j]) /\ CountryKept(r.countries[j], q[j])
  PROVE  IsRegion(B, [r EXCEPT !.countries = q]) /\ RegionKept(r, [r EXCEPT !.countries = q])
<1>1. Listed(q) /\ DOMAIN q = DOMAIN r.countries
  BY ListMade DEF IsRegion
<1> QED BY <1>1 DEF IsRegion, RegionKept, CountriesKept

(* A tree that keeps the nodes of the one before. *)
LEMMA TreeMade ==
  ASSUME NEW B, NEW t, Sound(B, t), NEW q, IsTree(B, q), TreeKept(t.core.regions, q)
  PROVE  Sound(B, WithRegions(t, q))
<1> DEFINE u == WithRegions(t, q)
<1>1. Shaped(u) /\ u.core.regions = q /\ u.ui = t.ui
  BY DEF WithRegions, Sound, Planted, Shaped, IsStateAt, UIFields, CoreFields, Steps
<1> HIDE DEF u
<1>2. Sound(B, u)
  BY <1>1, Grows DEF Planted
<1> QED BY <1>2 DEF u

(* A tree whose regions are replaced one by one. *)
LEMMA RegionsMade ==
  ASSUME NEW B, NEW t, Sound(B, t), NEW q, q = [i \in DOMAIN t.core.regions |-> q[i]],
         \A i \in DOMAIN q : IsRegion(B, q[i]) /\ RegionKept(t.core.regions[i], q[i])
  PROVE  Sound(B, WithRegions(t, q))
<1>1. Listed(q) /\ DOMAIN q = DOMAIN t.core.regions
  BY ListMade DEF Sound, Planted, IsTree
<1> QED BY <1>1, TreeMade DEF IsTree, TreeKept

(* The actions on cities and sites. *)
LEMMA SiteEdited ==
  ASSUME NEW B, B.sites = {}, NEW t, Sound(B, t), NEW id, NEW patch, "id" \notin DOMAIN patch
  PROVE  Sound(B, UpdateSite(t, id, patch))
<1> DEFINE home == SiteCity(t, id)
           One(u) == IF u.id = id THEN PatchSite(u, patch) ELSE u
           F(ct) == IF ct.id = home
                    THEN [ct EXCEPT !.sites = [i \in DOMAIN ct.sites |-> One(ct.sites[i])]] ELSE ct
           C(c) == [c EXCEPT !.cities = [k \in DOMAIN c.cities |-> F(c.cities[k])]]
           G(r) == [r EXCEPT !.countries = [j \in DOMAIN r.countries |-> C(r.countries[j])]]
           q == [i \in DOMAIN t.core.regions |-> G(t.core.regions[i])]
<1>1. UpdateSite(t, id, patch) = IF id \in SiteIds(t.core) THEN WithRegions(t, q) ELSE t
  BY DEF UpdateSite, InCity, EditCities, EditCountries, MapRegions, MapCountries, Map
<1>2. ASSUME NEW u, IsSite(B, u) PROVE IsSite(B, One(u)) /\ One(u).id = u.id
  BY <1>2 DEF IsSite, PatchSite, Patched
<1> HIDE DEF home, One
<1>3. ASSUME NEW ct, IsCity(B, ct) PROVE IsCity(B, F(ct)) /\ CityKept(ct, F(ct))
  <2> DEFINE p == [i \in DOMAIN ct.sites |-> One(ct.sites[i])]
  <2>1. Listed(p)
    BY <1>3, ListMade DEF IsCity
  <2> QED BY <1>2, <1>3, <2>1, CityMade, KeptAll DEF IsCity, SitesKept
<1> HIDE DEF F
<1>4. ASSUME NEW c, IsCountry(B, c) PROVE IsCountry(B, C(c)) /\ CountryKept(c, C(c))
  BY <1>3, <1>4, CountryMade DEF IsCountry
<1> HIDE DEF C
<1>5. ASSUME NEW r, IsRegion(B, r) PROVE IsRegion(B, G(r)) /\ RegionKept(r, G(r))
  BY <1>4, <1>5, RegionMade DEF IsRegion
<1> HIDE DEF G
<1>6. Sound(B, WithRegions(t, q))
  BY <1>5, RegionsMade DEF Sound, Planted, IsTree
<1> QED BY <1>1, <1>6

(* The sites of a city followed by new ones. *)
LEMMA SitesAdded ==
  ASSUME NEW B, NEW ct, IsCity(B, ct), NEW new, Listed(new), \A i \in DOMAIN new : IsSite(B, new[i])
  PROVE  IsCity(B, PutInCity(ct, new)) /\ CityKept(ct, PutInCity(ct, new))
<1> DEFINE q == ct.sites \o new
<1>1. /\ Listed(q) /\ Range(q) = Range(ct.sites) \union Range(new)
      /\ \A i \in DOMAIN ct.sites : i \in DOMAIN q /\ q[i] = ct.sites[i]
  BY ListJoined DEF IsCity
<1> HIDE DEF q
<1>2. \A i \in DOMAIN q : IsSite(B, q[i])
  <2>1. \A x \in Range(ct.sites) \union Range(new) : IsSite(B, x)
    BY DEF IsCity, Range
  <2> QED BY <1>1, <2>1 DEF Range
<1>3. SitesKept(ct.sites, q)
  BY <1>1 DEF SitesKept
<1>4. IsCity(B, [ct EXCEPT !.sites = q]) /\ CityKept(ct, [ct EXCEPT !.sites = q])
  BY <1>1, <1>2, <1>3, CityMade
<1> QED BY <1>4 DEF q, PutInCity

(* Sites go under a city. *)
LEMMA SitesAppended ==
  ASSUME NEW B, NEW t, Sound(B, t), NEW id, NEW new, Listed(new), \A i \in DOMAIN new : IsSite(B, new[i])
  PROVE  Sound(B, AddSites(t, id, new))
<1> DEFINE F(ct) == IF ct.id = id THEN PutInCity(ct, new) ELSE ct
           C(c) == [c EXCEPT !.cities = [k \in DOMAIN c.cities |-> F(c.cities[k])]]
           G(r) == [r EXCEPT !.countries = [j \in DOMAIN r.countries |-> C(r.countries[j])]]
           q == [i \in DOMAIN t.core.regions |-> G(t.core.regions[i])]
<1>1. AddSites(t, id, new) = WithRegions(t, q)
  BY DEF AddSites, InCity, EditCities, EditCountries, MapRegions, MapCountries, Map
<1>2. ASSUME NEW ct, IsCity(B, ct) PROVE IsCity(B, F(ct)) /\ CityKept(ct, F(ct))
  BY <1>2, SitesAdded, KeptAll
<1> HIDE DEF F
<1>3. ASSUME NEW c, IsCountry(B, c) PROVE IsCountry(B, C(c)) /\ CountryKept(c, C(c))
  BY <1>2, <1>3, CountryMade DEF IsCountry
<1> HIDE DEF C
<1>4. ASSUME NEW r, IsRegion(B, r) PROVE IsRegion(B, G(r)) /\ RegionKept(r, G(r))
  BY <1>3, <1>4, RegionMade DEF IsRegion
<1> HIDE DEF G
<1>5. Sound(B, WithRegions(t, q))
  BY <1>4, RegionsMade DEF Sound, Planted, IsTree
<1> QED BY <1>1, <1>5

(* The found site is one of the tree. *)
LEMMA SiteFound ==
  ASSUME NEW B, NEW t, Planted(B, t), NEW id \in SiteIds(t.core)
  PROVE  FindSite(t.core, id) \in Range(AllSites(t.core)) /\ FindSite(t.core, id).id = id
<1> DEFINE p == AllSites(t.core)
           I == {i \in 1..Len(p) : p[i].id = id}
<1>1. Listed(p) /\ DOMAIN p = 1..Len(p)
  BY SiteWalk, ListBasics DEF Planted
<1>2. I # {} /\ I \subseteq Nat
  BY <1>1 DEF SiteIds, IdsOf
<1>3. FindSite(t.core, id) = p[IF I # {} THEN Min(I) ELSE 0]
  BY DEF FindSite, FirstWhere, SelectInSeq
<1>4. Min(I) \in I
  <2> HIDE DEF I
  <2>1. \E n \in I : \A m \in I : n <= m
    BY <1>2, LeastNumber
  <2> QED BY <2>1 DEF Min
<1> QED BY <1>1, <1>2, <1>3, <1>4 DEF Range

(* A walk over the tree yields sites. *)
LEMMA SitesTyped ==
  ASSUME NEW B, NEW t, Planted(B, t), NEW x \in Range(AllSites(t.core))
  PROVE  IsSite(B, x)
<1>1. PICK i \in DOMAIN t.core.regions : x \in Range(RegionSites(t.core.regions[i]))
  BY SiteWalk DEF Planted
<1>2. IsRegion(B, t.core.regions[i])
  BY DEF Planted, IsTree
<1> DEFINE r == t.core.regions[i]
           In(c) == \E k \in DOMAIN c.cities : x \in Range(c.cities[k].sites)
<1> HIDE DEF r
<1>3. IsRegion(B, r) /\ x \in Range(RegionSites(r))
  BY <1>1, <1>2 DEF r
<1>4. PICK j \in DOMAIN r.countries : In(r.countries[j])
  BY <1>3, RegionWalk
<1>5. IsCountry(B, r.countries[j])
  BY <1>3 DEF IsRegion
<1>6. \A c : IsCountry(B, c) /\ In(c) => IsSite(B, x)
  BY DEF IsCountry, IsCity, Range
<1> HIDE DEF In
<1> QED BY <1>4, <1>5, <1>6

(* Marks put over marks. *)
LEMMA MarksOverlaid ==
  ASSUME NEW marks, AreMarks(marks), NEW new, AreMarks(new)
  PROVE  AreMarks(Overlaid(marks, new))
  BY DEF AreMarks, Overlaid

(* The identifiers that creating n nodes uses. *)
NewIds(new, n) == new..(new + n - 1)

(* What cloning does: sites with new identifiers and the fields of the     *)
(* original are added to its city, and get its marks.                      *)
Cloned(B, t, id, ids, clones, marks, u) ==
  /\ Listed(clones) /\ \A i \in DOMAIN clones : IsSite(B, clones[i]) /\ clones[i].id \in ids
  /\ \A i \in DOMAIN clones : clones[i].f = FindSite(t.core, id).f
  /\ AreMarks(marks) /\ DOMAIN marks \subseteq ids
  /\ id \in DOMAIN t.ui.siteOverrides =>
       \A i \in ids : i \in DOMAIN marks /\ marks[i] = t.ui.siteOverrides[id]
  /\ u = [AddSites(t, SiteCity(t, id), clones) EXCEPT !.ui.siteOverrides = Overlaid(@, marks)]

LEMMA CloneMade ==
  ASSUME NEW B, NEW t, Sound(B, t), NEW id \in SiteIds(t.core), NEW n \in Int, NEW new \in Nat,
         NewIds(new, CloneCount(n)) \subseteq B.ids
  PROVE  \E clones, marks :
           Cloned(B, t, id, NewIds(new, CloneCount(n)), clones, marks, CloneSite(t, id, n, new))
<1> DEFINE orig == FindSite(t.core, id)
           count == CloneCount(n)
           ids == NewIds(new, count)
           Clone(i) == [orig EXCEPT !.id = new + i - 1, !.name.copies = Append(@, i + 1)]
           clones == [i \in 1..count |-> Clone(i)]
           marks == IF id \in DOMAIN t.ui.siteOverrides
                    THEN [c \in new..(new + count - 1) |-> t.ui.siteOverrides[id]] ELSE <<>>
<1>1. IsSite(B, orig)
  BY SiteFound, SitesTyped DEF Sound
<1>2. count \in Nat
  BY ClonesAssumption DEF CloneCount
<1>3. CloneSite(t, id, n, new)
        = [AddSites(t, SiteCity(t, id), clones) EXCEPT !.ui.siteOverrides = Overlaid(@, marks)]
  BY DEF CloneSite, Clones
<1>4. AreMarks(marks) /\ DOMAIN marks \subseteq ids
  BY DEF AreMarks, Sound, Planted, Shaped, NewIds
<1>9. id \in DOMAIN t.ui.siteOverrides =>
        \A i \in ids : i \in DOMAIN marks /\ marks[i] = t.ui.siteOverrides[id]
  BY DEF NewIds
<1> HIDE DEF orig, marks, count
<1>5. ASSUME NEW i \in 1..count
      PROVE  Clone(i).id \in ids /\ IsSite(B, Clone(i)) /\ Clone(i).f = orig.f
  <2> DEFINE new_id == new + i - 1
             x == [orig EXCEPT !.id = new_id, !.name.copies = Append(@, i + 1)]
  <2>1. new_id \in ids /\ ids \subseteq B.ids
    BY <1>2 DEF NewIds, count
  <2> HIDE DEF new_id, ids
  <2>2. x.id = new_id /\ DOMAIN x = DOMAIN orig /\ x.f = orig.f
    BY <1>1 DEF IsSite
  <2> HIDE DEF x
  <2>3. IsSite(B, x)
    BY <1>1, <2>1, <2>2 DEF IsSite
  <2> QED BY <2>1, <2>2, <2>3 DEF x, new_id
<1> HIDE DEF Clone
<1>6. Listed(clones) /\ DOMAIN clones = 1..count
  BY <1>2, ListCounted
<1>7. \A i \in DOMAIN clones : /\ IsSite(B, clones[i]) /\ clones[i].id \in ids
                               /\ clones[i].f = FindSite(t.core, id).f
  BY <1>5, <1>6 DEF orig
<1> HIDE DEF clones, ids
<1>8. Cloned(B, t, id, ids, clones, marks, CloneSite(t, id, n, new))
  BY <1>3, <1>4, <1>6, <1>7, <1>9 DEF Cloned
<1> QED BY <1>8 DEF ids, count

(* A new site under a city, and the clones of a site. *)
LEMMA SitesSound ==
  ASSUME NEW B, NEW t, Sound(B, t), NEW id, NEW new
  PROVE  /\ new \in B.ids => Sound(B, AddSiteToCity(t, id, new))
         /\ \A n \in Int : new \in Nat /\ NewIds(new, CloneCount(n)) \subseteq B.ids
                           => Sound(B, CloneSite(t, id, n, new))
<1>1. ASSUME new \in B.ids PROVE Sound(B, AddSiteToCity(t, id, new))
  <2>1. IsSite(B, DefaultSite(t, new))
    BY <1>1 DEF IsSite, DefaultSite, NewSite, NoNumbers
  <2> QED BY <2>1, SitesAppended, ListBasics DEF AddSiteToCity
<1>2. ASSUME NEW n \in Int, new \in Nat, NewIds(new, CloneCount(n)) \subseteq B.ids
      PROVE  Sound(B, CloneSite(t, id, n, new))
  <2>1. CASE id \notin SiteIds(t.core)
    BY <2>1 DEF CloneSite
  <2>2. CASE id \in SiteIds(t.core)
    <3> DEFINE ids == NewIds(new, CloneCount(n))
    <3>1. PICK clones, marks : Cloned(B, t, id, ids, clones, marks, CloneSite(t, id, n, new))
      BY <1>2, <2>2, CloneMade
    <3> DEFINE u == AddSites(t, SiteCity(t, id), clones)
               v == CloneSite(t, id, n, new)
               all == Overlaid(u.ui.siteOverrides, marks)
    <3>2. Sound(B, u)
      BY <3>1, SitesAppended DEF Cloned
    <3>3. v = [u EXCEPT !.ui.siteOverrides = all] /\ AreMarks(marks)
      BY <3>1 DEF Cloned
    <3> HIDE DEF u, v
    <3>4. AreMarks(all)
      BY <3>2, <3>3, MarksOverlaid DEF Sound, Planted, Shaped
    <3> HIDE DEF all
    <3>5. Shaped(v) /\ v.core.regions = u.core.regions /\ v.ui.selectedPath = u.ui.selectedPath
      BY <3>2, <3>3, <3>4 DEF Sound, Planted, Shaped, IsStateAt, UIFields, Steps
    <3>6. Sound(B, v)
      BY <3>2, <3>5, Beside
    <3> QED BY <3>6 DEF v
  <2> QED BY <2>1, <2>2
<1> QED BY <1>1, <1>2

(* New values of the fields of a city, of a country and of a region. *)
LEMMA CityPatched ==
  ASSUME NEW B, NEW t, Sound(B, t), NEW id, NEW patch, DOMAIN patch \intersect {"id", "sites"} = {}
  PROVE  Sound(B, UpdateCity(t, id, patch))
<1> DEFINE F(ct) == IF ct.id = id THEN Patched(ct, patch) ELSE ct
           C(c) == [c EXCEPT !.cities = [k \in DOMAIN c.cities |-> F(c.cities[k])]]
           G(r) == [r EXCEPT !.countries = [j \in DOMAIN r.countries |-> C(r.countries[j])]]
           q == [i \in DOMAIN t.core.regions |-> G(t.core.regions[i])]
<1>1. UpdateCity(t, id, patch) = WithRegions(t, q)
  BY DEF UpdateCity, InCity, EditCities, EditCountries, MapRegions, MapCountries, Map
<1>2. ASSUME NEW ct, IsCity(B, ct) PROVE IsCity(B, F(ct)) /\ CityKept(ct, F(ct))
  <2>1. /\ {"id", "sites"} \subseteq DOMAIN Patched(ct, patch)
        /\ Patched(ct, patch).id = ct.id /\ Patched(ct, patch).sites = ct.sites
    BY <1>2 DEF Patched, IsCity
  <2>2. CityKept(ct, Patched(ct, patch))
    BY <2>1, KeptAll DEF CityKept, SitesKept
  <2> QED BY <1>2, <2>1, <2>2, KeptAll DEF IsCity
<1> HIDE DEF F
<1>3. ASSUME NEW c, IsCountry(B, c) PROVE IsCountry(B, C(c)) /\ CountryKept(c, C(c))
  BY <1>2, <1>3, CountryMade DEF IsCountry
<1> HIDE DEF C
<1>4. ASSUME NEW r, IsRegion(B, r) PROVE IsRegion(B, G(r)) /\ RegionKept(r, G(r))
  BY <1>3, <1>4, RegionMade DEF IsRegion
<1> HIDE DEF G
<1>5. Sound(B, WithRegions(t, q))
  BY <1>4, RegionsMade DEF Sound, Planted, IsTree
<1> QED BY <1>1, <1>5

LEMMA CountryPatched ==
  ASSUME NEW B, NEW t, Sound(B, t), NEW id, NEW patch, DOMAIN patch \intersect {"id", "cities"} = {}
  PROVE  Sound(B, UpdateCountry(t, id, patch))
<1> DEFINE C(c) == IF c.id = id THEN Patched(c, patch) ELSE c
           G(r) == [r EXCEPT !.countries = [j \in DOMAIN r.countries |-> C(r.countries[j])]]
           q == [i \in DOMAIN t.core.regions |-> G(t.core.regions[i])]
<1>1. UpdateCountry(t, id, patch) = WithRegions(t, q)
  BY DEF UpdateCountry, InCountry, EditCountries, MapRegions, MapCountries, Map
<1>2. ASSUME NEW c, IsCountry(B, c) PROVE IsCountry(B, C(c)) /\ CountryKept(c, C(c))
  <2>1. /\ {"id", "cities"} \subseteq DOMAIN Patched(c, patch)
        /\ Patched(c, patch).id = c.id /\ Patched(c, patch).cities = c.cities
    BY <1>2 DEF Patched, IsCountry
  <2>2. CountryKept(c, Patched(c, patch))
    BY <2>1, KeptAll DEF CountryKept
  <2> QED BY <1>2, <2>1, <2>2, KeptAll DEF IsCountry
<1> HIDE DEF C
<1>3. ASSUME NEW r, IsRegion(B, r) PROVE IsRegion(B, G(r)) /\ RegionKept(r, G(r))
  BY <1>2, <1>3, RegionMade DEF IsRegion
<1> HIDE DEF G
<1>4. Sound(B, WithRegions(t, q))
  BY <1>3, RegionsMade DEF Sound, Planted, IsTree
<1> QED BY <1>1, <1>4

LEMMA RegionPatched ==
  ASSUME NEW B, NEW t, Sound(B, t), NEW id, NEW patch, DOMAIN patch \intersect {"id", "countries"} = {}
  PROVE  Sound(B, UpdateRegion(t, id, patch))
<1> DEFINE G(r) == IF r.id = id THEN Patched(r, patch) ELSE r
           q == [i \in DOMAIN t.core.regions |-> G(t.core.regions[i])]
<1>1. UpdateRegion(t, id, patch) = WithRegions(t, q)
  BY DEF UpdateRegion, InRegion, MapRegions, Map
<1>2. ASSUME NEW r, IsRegion(B, r) PROVE IsRegion(B, G(r)) /\ RegionKept(r, G(r))
  <2>1. /\ {"id", "name", "type", "countries"} \subseteq DOMAIN Patched(r, patch)
        /\ Patched(r, patch).id = r.id /\ Patched(r, patch).countries = r.countries
    BY <1>2 DEF Patched, IsRegion
  <2>2. RegionKept(r, Patched(r, patch))
    BY <2>1, KeptAll DEF RegionKept
  <2> QED BY <1>2, <2>1, <2>2, KeptAll DEF IsRegion
<1> HIDE DEF G
<1>3. Sound(B, WithRegions(t, q))
  BY <1>2, RegionsMade DEF Sound, Planted, IsTree
<1> QED BY <1>1, <1>3

(* A new city, country, region and site. *)
LEMMA CityAdded ==
  ASSUME NEW B, NEW t, Sound(B, t), NEW id, NEW new
  PROVE  Sound(B, AddCity(t, id, new))
<1> DEFINE ct == [id |-> new, name |-> NextCityName(t), sites |-> <<>>]
           Put(c) == [c EXCEPT !.cities = Append(c.cities, ct)]
           C(c) == IF c.id = id THEN Put(c) ELSE c
           G(r) == [r EXCEPT !.countries = [j \in DOMAIN r.countries |-> C(r.countries[j])]]
           q == [i \in DOMAIN t.core.regions |-> G(t.core.regions[i])]
<1>1. AddCity(t, id, new) = WithRegions(t, q)
  BY DEF AddCity, InCountry, EditCountries, MapRegions, MapCountries, Map
<1>2. IsCity(B, ct)
  BY ListBasics DEF IsCity
<1> HIDE DEF ct
<1>3. ASSUME NEW c, IsCountry(B, c) PROVE IsCountry(B, Put(c)) /\ CountryKept(c, Put(c))
  <2> DEFINE p == Append(c.cities, ct)
  <2>1. /\ Listed(p) /\ Range(p) = Range(c.cities) \union {ct}
        /\ \A i \in DOMAIN c.cities : i \in DOMAIN p /\ p[i] = c.cities[i]
    BY <1>3, ListAppended DEF IsCountry
  <2>2. Put(c).id = c.id /\ Put(c).cities = p /\ {"id", "cities"} \subseteq DOMAIN Put(c)
    BY <1>3 DEF IsCountry
  <2> HIDE DEF p, Put
  <2>3. \A i \in DOMAIN p : IsCity(B, p[i])
    BY <1>2, <1>3, <2>1 DEF IsCountry, Range
  <2>4. CitiesKept(c.cities, p)
    BY <2>1, KeptAll DEF CitiesKept
  <2> QED BY <2>1, <2>2, <2>3, <2>4 DEF IsCountry, CountryKept
<1> HIDE DEF Put
<1>4. ASSUME NEW c, IsCountry(B, c) PROVE IsCountry(B, C(c)) /\ CountryKept(c, C(c))
  BY <1>3, <1>4, KeptAll
<1> HIDE DEF C
<1>5. ASSUME NEW r, IsRegion(B, r) PROVE IsRegion(B, G(r)) /\ RegionKept(r, G(r))
  BY <1>4, <1>5, RegionMade DEF IsRegion
<1> HIDE DEF G
<1>6. Sound(B, WithRegions(t, q))
  BY <1>5, RegionsMade DEF Sound, Planted, IsTree
<1> QED BY <1>1, <1>6

LEMMA CountryAdded ==
  ASSUME NEW B, NEW t, Sound(B, t), NEW id, NEW new
  PROVE  Sound(B, AddCountry(t, id, new))
<1> DEFINE c == [id |-> new, name |-> NextCountryName(t), cities |-> <<>>]
           Put(r) == [r EXCEPT !.countries = Append(r.countries, c)]
           G(r) == IF r.id = id THEN Put(r) ELSE r
           q == [i \in DOMAIN t.core.regions |-> G(t.core.regions[i])]
<1>1. AddCountry(t, id, new) = WithRegions(t, q)
  BY DEF AddCountry, InRegion, MapRegions, Map
<1>2. IsCountry(B, c)
  BY ListBasics DEF IsCountry
<1> HIDE DEF c
<1>3. ASSUME NEW r, IsRegion(B, r) PROVE IsRegion(B, Put(r)) /\ RegionKept(r, Put(r))
  <2> DEFINE p == Append(r.countries, c)
  <2>1. /\ Listed(p) /\ Range(p) = Range(r.countries) \union {c}
        /\ \A i \in DOMAIN r.countries : i \in DOMAIN p /\ p[i] = r.countries[i]
    BY <1>3, ListAppended DEF IsRegion
  <2>2. /\ Put(r).id = r.id /\ Put(r).countries = p
        /\ {"id", "name", "type", "countries"} \subseteq DOMAIN Put(r)
    BY <1>3 DEF IsRegion
  <2> HIDE DEF p, Put
  <2>3. \A i \in DOMAIN p : IsCountry(B, p[i])
    BY <1>2, <1>3, <2>1 DEF IsRegion, Range
  <2>4. CountriesKept(r.countries, p)
    BY <2>1, KeptAll DEF CountriesKept
  <2> QED BY <2>1, <2>2, <2>3, <2>4 DEF IsRegion, RegionKept
<1> HIDE DEF Put
<1>4. ASSUME NEW r, IsRegion(B, r) PROVE IsRegion(B, G(r)) /\ RegionKept(r, G(r))
  BY <1>3, <1>4, KeptAll
<1> HIDE DEF G
<1>5. Sound(B, WithRegions(t, q))
  BY <1>4, RegionsMade DEF Sound, Planted, IsTree
<1> QED BY <1>1, <1>5

LEMMA RegionAdded ==
  ASSUME NEW B, NEW t, Sound(B, t), NEW new
  PROVE  Sound(B, AddRegion(t, new))
<1> DEFINE r == [id |-> new, name |-> NextRegionName(t), type |-> "on-premises",
                 cloudNativeDns |-> FALSE, countries |-> <<>>]
           p == Append(t.core.regions, r)
           u == WithRegions(t, p)
<1>1. IsRegion(B, r) /\ r.id = new
  BY ListBasics DEF IsRegion
<1>2. AddRegion(t, new) = SetSelectedPath(u, Selected("region", new))
  <2> HIDE DEF r
  <2>1. AddRegion(t, new)
          = [t EXCEPT !.core.regions = p, !.ui.selectedPath = Selected("region", new)]
    BY DEF AddRegion, r
  <2> HIDE DEF p
  <2> QED BY <2>1 DEF SetSelectedPath, WithRegions, Sound, Planted, Shaped, IsStateAt, UIFields,
                      CoreFields
<1> HIDE DEF r
<1>3. /\ Listed(p) /\ Range(p) = Range(t.core.regions) \union {r}
      /\ \A i \in DOMAIN t.core.regions : i \in DOMAIN p /\ p[i] = t.core.regions[i]
  BY ListAppended DEF Sound, Planted, IsTree
<1> HIDE DEF p
<1>4. IsTree(B, p) /\ TreeKept(t.core.regions, p)
  <2>1. \A i \in DOMAIN p : IsRegion(B, p[i])
    BY <1>1, <1>3 DEF Sound, Planted, IsTree, Range
  <2> QED BY <1>3, <2>1, KeptAll DEF IsTree, TreeKept
<1>5. Sound(B, u)
  BY <1>4, TreeMade
<1>6. u.core.regions = p
  BY DEF WithRegions, Sound, Planted, Shaped, IsStateAt, CoreFields
<1> HIDE DEF u
<1>7. new \in NodeIds(u.core).region
  <2>1. \E i \in DOMAIN p : p[i] = r
    BY <1>3 DEF Range
  <2> QED BY <1>1, <1>6, <2>1 DEF NodeIds, IdsOf
<1>8. Sound(B, SetSelectedPath(u, Selected("region", new)))
  BY <1>5, <1>7, Selects DEF Sound, Selected, Kinds
<1> QED BY <1>2, <1>8

(* Sites put into the first city of a country, and of a region. *)
LEMMA CountryPut ==
  ASSUME NEW B, NEW d, IsCountry(B, d), NEW new, Listed(new), \A i \in DOMAIN new : IsSite(B, new[i]), NEW id
  PROVE  IsCountry(B, PutInCountry(d, new, id)) /\ CountryKept(d, PutInCountry(d, new, id))
<1>1. CASE d.cities = <<>>
  <2> DEFINE q == <<UnassignedCity(id, new)>>
  <2>1. IsCity(B, UnassignedCity(id, new))
    BY DEF UnassignedCity, IsCity
  <2>2. Listed(q) /\ \A i \in DOMAIN q : IsCity(B, q[i])
    BY <2>1, ListBasics
  <2>3. PutInCountry(d, new, id) = [d EXCEPT !.cities = q]
    BY <1>1 DEF PutInCountry
  <2> HIDE DEF q
  <2>4. CitiesKept(d.cities, q)
    BY <1>1 DEF CitiesKept
  <2> QED BY <2>2, <2>3, <2>4 DEF IsCountry, CountryKept
<1>2. CASE d.cities # <<>>
  <2> DEFINE q == [d.cities EXCEPT ![1] = PutInCity(d.cities[1], new)]
  <2>1. 1 \in DOMAIN d.cities /\ IsCity(B, d.cities[1])
    BY <1>2, ListBasics DEF IsCountry
  <2>2. /\ IsCity(B, PutInCity(d.cities[1], new))
        /\ CityKept(d.cities[1], PutInCity(d.cities[1], new))
    BY <2>1, SitesAdded
  <2>3. PutInCountry(d, new, id) = [d EXCEPT !.cities = q]
    BY <1>2 DEF PutInCountry
  <2>4. \A k \in DOMAIN d.cities : IsCity(B, q[k]) /\ CityKept(d.cities[k], q[k])
    BY <2>1, <2>2, KeptAll DEF IsCountry
  <2>5. q = [k \in DOMAIN d.cities |-> q[k]]
    OBVIOUS
  <2> HIDE DEF q
  <2> QED BY <2>3, <2>4, <2>5, CountryMade
<1> QED BY <1>1, <1>2

LEMMA PutKept ==
  ASSUME NEW B, NEW r, IsRegion(B, r), NEW new, Listed(new), \A i \in DOMAIN new : IsSite(B, new[i]), NEW id
  PROVE  IsRegion(B, PutSites(r, new, id)) /\ RegionKept(r, PutSites(r, new, id))
<1>1. CASE r.countries = <<>>
  <2> DEFINE ct == UnassignedCity(id + 1, new)
             c == UnassignedCountry(id, id + 1, new)
             p == <<c>>
  <2>1. c.cities = <<ct>> /\ {"id", "cities"} \subseteq DOMAIN c
    BY DEF UnassignedCountry
  <2>2. IsCity(B, ct)
    BY DEF UnassignedCity, IsCity
  <2> HIDE DEF ct, c
  <2>3. IsCountry(B, c)
    BY <2>1, <2>2, ListBasics DEF IsCountry
  <2>4. Listed(p) /\ \A i \in DOMAIN p : IsCountry(B, p[i])
    BY <2>3, ListBasics
  <2>5. PutSites(r, new, id) = [r EXCEPT !.countries = p]
    BY <1>1 DEF PutSites, c
  <2> HIDE DEF p
  <2>6. CountriesKept(r.countries, p)
    BY <1>1 DEF CountriesKept
  <2> QED BY <2>4, <2>5, <2>6 DEF IsRegion, RegionKept
<1>2. CASE r.countries # <<>>
  <2> DEFINE c == PutInCountry(r.countries[1], new, id)
             p == [r.countries EXCEPT ![1] = c]
  <2>1. 1 \in DOMAIN r.countries /\ IsCountry(B, r.countries[1])
    BY <1>2, ListBasics DEF IsRegion
  <2>2. IsCountry(B, c) /\ CountryKept(r.countries[1], c)
    BY <2>1, CountryPut
  <2>3. PutSites(r, new, id) = [r EXCEPT !.countries = p]
    BY <1>2 DEF PutSites
  <2> HIDE DEF c
  <2>4. \A j \in DOMAIN r.countries : IsCountry(B, p[j]) /\ CountryKept(r.countries[j], p[j])
    BY <2>1, <2>2, KeptAll DEF IsRegion
  <2>5. p = [j \in DOMAIN r.countries |-> p[j]]
    OBVIOUS
  <2> HIDE DEF p
  <2> QED BY <2>3, <2>4, <2>5, RegionMade
<1> QED BY <1>1, <1>2

(* The missing levels are made up with the site. *)
LEMMA SiteAdded ==
  ASSUME NEW B, NEW t, Sound(B, t), NEW id, NEW new \in B.ids
  PROVE  Sound(B, AddSiteToRegion(t, id, new))
<1> DEFINE site == <<DefaultSite(t, new)>>
           G(r) == IF r.id = id THEN PutSites(r, site, new + 1) ELSE r
           q == [i \in DOMAIN t.core.regions |-> G(t.core.regions[i])]
<1>1. AddSiteToRegion(t, id, new) = WithRegions(t, q)
  BY DEF AddSiteToRegion, InRegion, MapRegions, Map
<1>2. Listed(site) /\ \A i \in DOMAIN site : IsSite(B, site[i])
  <2>1. IsSite(B, DefaultSite(t, new))
    BY DEF IsSite, DefaultSite, NewSite, NoNumbers
  <2> QED BY <2>1, ListBasics
<1> HIDE DEF site
<1>3. ASSUME NEW r, IsRegion(B, r) PROVE IsRegion(B, G(r)) /\ RegionKept(r, G(r))
  BY <1>2, <1>3, PutKept, KeptAll
<1> HIDE DEF G
<1>4. Sound(B, WithRegions(t, q))
  BY <1>3, RegionsMade DEF Sound, Planted, IsTree
<1> QED BY <1>1, <1>4

(* Deletion leaves a tree, of which the selection may be gone. *)
LEMMA TreeCut ==
  ASSUME NEW B, NEW t, Planted(B, t), NEW q, IsTree(B, q)
  PROVE  Planted(B, WithRegions(t, q))
  BY DEF WithRegions, Planted, Shaped, IsStateAt, UIFields, CoreFields, Steps

(* Deleting a node of each kind. *)
LEMMA RegionDeleted ==
  ASSUME NEW B, NEW t, Planted(B, t), NEW id
  PROVE  Planted(B, DeleteRegion(t, id))
<1> DEFINE I == {i \in DOMAIN t.core.regions : t.core.regions[i].id # id}
           q == Picked(t.core.regions, I)
<1>1. DeleteRegion(t, id) = WithRegions(t, q)
  BY DEF DeleteRegion, Keep
<1> HIDE DEF I
<1>2. Listed(q) /\ Range(q) \subseteq Range(t.core.regions)
  BY ListPicked DEF Planted, IsTree
<1> HIDE DEF q
<1>3. IsTree(B, q)
  BY <1>2 DEF Planted, IsTree, Range
<1> QED BY <1>1, <1>3, TreeCut

LEMMA CountryDeleted ==
  ASSUME NEW B, NEW t, Planted(B, t), NEW id
  PROVE  Planted(B, DeleteCountry(t, id))
<1> DEFINE I(r) == {j \in DOMAIN r.countries : r.countries[j].id # id}
           p(r) == Picked(r.countries, I(r))
           G(r) == [r EXCEPT !.countries = p(r)]
           q == [i \in DOMAIN t.core.regions |-> G(t.core.regions[i])]
<1>1. DeleteCountry(t, id) = WithRegions(t, q)
  BY DEF DeleteCountry, MapRegions, Map, Keep
<1> HIDE DEF I
<1>2. ASSUME NEW r, IsRegion(B, r) PROVE IsRegion(B, G(r))
  <2>1. Listed(p(r)) /\ Range(p(r)) \subseteq Range(r.countries)
    BY <1>2, ListPicked DEF IsRegion
  <2> HIDE DEF p
  <2> QED BY <1>2, <2>1 DEF IsRegion, Range
<1> HIDE DEF G
<1>3. \A i \in DOMAIN t.core.regions : IsRegion(B, G(t.core.regions[i]))
  BY <1>2 DEF Planted, IsTree
<1>4. IsTree(B, q)
  BY <1>3, ListMade DEF Planted, IsTree
<1> QED BY <1>1, <1>4, TreeCut

LEMMA CityDeleted ==
  ASSUME NEW B, NEW t, Planted(B, t), NEW id
  PROVE  Planted(B, DeleteCity(t, id))
<1> DEFINE I(c) == {k \in DOMAIN c.cities : c.cities[k].id # id}
           p(c) == Picked(c.cities, I(c))
           C(c) == [c EXCEPT !.cities = p(c)]
           G(r) == [r EXCEPT !.countries = [j \in DOMAIN r.countries |-> C(r.countries[j])]]
           q == [i \in DOMAIN t.core.regions |-> G(t.core.regions[i])]
<1>1. DeleteCity(t, id) = WithRegions(t, q)
  BY DEF DeleteCity, EditCountries, MapRegions, MapCountries, Map, Keep
<1> HIDE DEF I
<1>2. ASSUME NEW c, IsCountry(B, c) PROVE IsCountry(B, C(c))
  <2>1. Listed(p(c)) /\ Range(p(c)) \subseteq Range(c.cities)
    BY <1>2, ListPicked DEF IsCountry
  <2> HIDE DEF p
  <2> QED BY <1>2, <2>1 DEF IsCountry, Range
<1> HIDE DEF C
<1>3. ASSUME NEW r, IsRegion(B, r) PROVE IsRegion(B, G(r))
  <2> DEFINE cs == [j \in DOMAIN r.countries |-> C(r.countries[j])]
  <2>1. Listed(cs) /\ DOMAIN cs = DOMAIN r.countries
    BY <1>3, ListMade DEF IsRegion
  <2> QED BY <1>2, <1>3, <2>1 DEF IsRegion
<1> HIDE DEF G
<1>4. \A i \in DOMAIN t.core.regions : IsRegion(B, G(t.core.regions[i]))
  BY <1>3 DEF Planted, IsTree
<1>5. IsTree(B, q)
  BY <1>4, ListMade DEF Planted, IsTree
<1> QED BY <1>1, <1>5, TreeCut

LEMMA SiteDeleted ==
  ASSUME NEW B, NEW t, Planted(B, t), NEW id
  PROVE  Planted(B, DeleteSite(t, id))
<1> DEFINE I(ct) == {i \in DOMAIN ct.sites : ct.sites[i].id # id}
           p(ct) == Picked(ct.sites, I(ct))
           F(ct) == [ct EXCEPT !.sites = p(ct)]
           C(c) == [c EXCEPT !.cities = [k \in DOMAIN c.cities |-> F(c.cities[k])]]
           G(r) == [r EXCEPT !.countries = [j \in DOMAIN r.countries |-> C(r.countries[j])]]
           q == [i \in DOMAIN t.core.regions |-> G(t.core.regions[i])]
<1>1. DeleteSite(t, id) = WithRegions(t, q)
  BY DEF DeleteSite, EditCities, EditCountries, MapRegions, MapCountries, Map, Keep
<1> HIDE DEF I
<1>2. ASSUME NEW ct, IsCity(B, ct) PROVE IsCity(B, F(ct))
  <2>1. Listed(p(ct)) /\ Range(p(ct)) \subseteq Range(ct.sites)
    BY <1>2, ListPicked DEF IsCity
  <2> HIDE DEF p
  <2> QED BY <1>2, <2>1 DEF IsCity, Range
<1> HIDE DEF F
<1>3. ASSUME NEW c, IsCountry(B, c) PROVE IsCountry(B, C(c))
  <2> DEFINE cs == [k \in DOMAIN c.cities |-> F(c.cities[k])]
  <2>1. Listed(cs) /\ DOMAIN cs = DOMAIN c.cities
    BY <1>3, ListMade DEF IsCountry
  <2> QED BY <1>2, <1>3, <2>1 DEF IsCountry
<1> HIDE DEF C
<1>4. ASSUME NEW r, IsRegion(B, r) PROVE IsRegion(B, G(r))
  <2> DEFINE cs == [j \in DOMAIN r.countries |-> C(r.countries[j])]
  <2>1. Listed(cs) /\ DOMAIN cs = DOMAIN r.countries
    BY <1>4, ListMade DEF IsRegion
  <2> QED BY <1>3, <1>4, <2>1 DEF IsRegion
<1> HIDE DEF G
<1>5. \A i \in DOMAIN t.core.regions : IsRegion(B, G(t.core.regions[i]))
  BY <1>4 DEF Planted, IsTree
<1>6. IsTree(B, q)
  BY <1>5, ListMade DEF Planted, IsTree
<1> QED BY <1>1, <1>6, TreeCut

(* The dialog clears the selection with the node it deletes. *)
LEMMA NodeDeleted ==
  ASSUME NEW B, Sound(B, s), NEW kind, NEW id
  PROVE  Sound(B, DeleteNode(kind, id))
  BY RegionDeleted, CountryDeleted, CityDeleted, SiteDeleted, Unselects DEF DeleteNode, Sound

-----------------------------------------------------------------------------
(* Merging two trees. *)

(* Sites picked from a region. *)
LEMMA RegionSitesTyped ==
  ASSUME NEW B, NEW r, IsRegion(B, r), NEW I
  PROVE  Listed(Picked(RegionSites(r), I)) /\ \A i \in DOMAIN Picked(RegionSites(r), I) :
                                               IsSite(B, Picked(RegionSites(r), I)[i])
<1> DEFINE p == Picked(RegionSites(r), I)
<1>1. Listed(p) /\ Range(p) \subseteq Range(RegionSites(r))
  BY RegionWalk, ListPicked
<1> HIDE DEF p
<1>2. \A x \in Range(RegionSites(r)) : IsSite(B, x)
  <2> SUFFICES ASSUME NEW x \in Range(RegionSites(r)) PROVE IsSite(B, x)
    OBVIOUS
  <2>1. PICK j \in DOMAIN r.countries :
               \E k \in DOMAIN r.countries[j].cities : x \in Range(r.countries[j].cities[k].sites)
    BY RegionWalk
  <2> QED BY <2>1 DEF IsRegion, IsCountry, IsCity, Range
<1>3. Listed(p) /\ \A i \in DOMAIN p : IsSite(B, p[i])
  BY <1>1, <1>2 DEF Range
<1> QED BY <1>3 DEF p

IsMerged(B, acc) == "regions" \in DOMAIN acc /\ IsTree(B, acc.regions)

(* One region more: it is appended, or its new sites are put into the tree. *)
LEMMA MergeStep ==
  ASSUME NEW B, NEW acc, IsMerged(B, acc), NEW in, IsRegion(B, in), NEW keys, NEW next
  PROVE  /\ IsMerged(B, MergeRegion(acc, in, keys, next))
         /\ TreeKept(acc.regions, MergeRegion(acc, in, keys, next).regions)
<1>1. CASE RegionKey(in) \notin keys
  <2> DEFINE p == Append(acc.regions, in)
             m == [acc EXCEPT !.regions = p]
  <2>1. MergeRegion(acc, in, keys, next) = m
    BY <1>1 DEF MergeRegion
  <2>2. /\ Listed(p) /\ Range(p) = Range(acc.regions) \union {in}
        /\ \A i \in DOMAIN acc.regions : i \in DOMAIN p /\ p[i] = acc.regions[i]
    BY ListAppended DEF IsMerged, IsTree
  <2> HIDE DEF p
  <2>3. m.regions = p /\ "regions" \in DOMAIN m
    BY DEF IsMerged
  <2>4. IsTree(B, p)
    BY <2>2 DEF IsMerged, IsTree, Range
  <2>5. TreeKept(acc.regions, p)
    BY <2>2, KeptAll DEF TreeKept
  <2> HIDE DEF m
  <2> QED BY <2>1, <2>3, <2>4, <2>5 DEF IsMerged
<1>2. CASE RegionKey(in) \in keys
  <2> DEFINE new == NewSites(in, acc.seen).sites
             p == Into(acc.regions, RegionKey(in), new, next)
  <2>1. /\ MergeRegion(acc, in, keys, next).regions = p
        /\ "regions" \in DOMAIN MergeRegion(acc, in, keys, next)
    BY <1>2 DEF MergeRegion
  <2>2. \E I : new = Picked(RegionSites(in), I)
    BY DEF NewSites
  <2>3. Listed(new) /\ \A i \in DOMAIN new : IsSite(B, new[i])
    BY <2>2, RegionSitesTyped
  <2> HIDE DEF new
  <2>4. CASE new = <<>>
    <3>1. p = acc.regions
      BY <2>4 DEF Into
    <3> HIDE DEF p
    <3> QED BY <2>1, <3>1, KeptAll DEF IsMerged
  <2>5. CASE new # <<>>
    <3> DEFINE G(i) == IF RegionKey(acc.regions[i]) = RegionKey(in)
                       THEN PutSites(acc.regions[i], new, next + 2 * i) ELSE acc.regions[i]
    <3>1. p = [i \in DOMAIN acc.regions |-> G(i)]
      BY <2>5 DEF Into
    <3>2. \A i \in DOMAIN acc.regions : IsRegion(B, G(i)) /\ RegionKept(acc.regions[i], G(i))
      BY <2>3, PutKept, KeptAll DEF IsMerged, IsTree
    <3> HIDE DEF G, p
    <3>3. Listed(p) /\ DOMAIN p = DOMAIN acc.regions
      BY <3>1, ListMade DEF IsMerged, IsTree
    <3>4. IsTree(B, p) /\ TreeKept(acc.regions, p)
      BY <3>1, <3>2, <3>3 DEF IsTree, TreeKept
    <3> QED BY <2>1, <3>4 DEF IsMerged
  <2> QED BY <2>4, <2>5
<1> QED BY <1>1, <1>2

(* A merge: f[n] is what it has made of the first n incoming regions. *)
Merges(f, old, in, keys, next) ==
  /\ f[0] = [regions |-> old, seen |-> UNION {KnownSites(old, k) : k \in keys}]
  /\ \A n \in 0..Len(in) : n + 1 <= Len(in) => f[n + 1] = MergeRegion(f[n], in[n + 1], keys, next)
  /\ MergeInto(old, in, keys, next) = f[Len(in)].regions

LEMMA Merging ==
  ASSUME NEW old, NEW in, Listed(in), NEW keys, NEW next
  PROVE  \E f : Merges(f, old, in, keys, next)
<1> DEFINE N == Len(in)
           base == [regions |-> old, seen |-> UNION {KnownSites(old, k) : k \in keys}]
           IsIt(f) == f = [n \in 0..N |-> IF n = 0 THEN base
                                         ELSE MergeRegion(f[n - 1], in[n], keys, next)]
           merged == CHOOSE f : IsIt(f)
           Upto(g, k) == /\ g = [n \in 0..k |-> g[n]] /\ g[0] = base
                         /\ \A n \in 1..k : g[n] = MergeRegion(g[n - 1], in[n], keys, next)
           S == {k \in Nat : k <= N => \E g : Upto(g, k)}
<1>1. MergeInto(old, in, keys, next) = merged[N].regions
  BY DEF MergeInto
<1>2. base.regions = old /\ "regions" \in DOMAIN base
  OBVIOUS
<1> HIDE DEF base
<1>3. N \in Nat
  BY ListBasics
<1> HIDE DEF N
<1>4. 0 \in S
  <2>1. Upto([n \in 0..0 |-> base], 0)
    OBVIOUS
  <2> QED BY <2>1
<1>5. ASSUME NEW k \in Nat, k \in S PROVE k + 1 \in S
  <2> SUFFICES ASSUME k + 1 <= N PROVE \E g : Upto(g, k + 1)
    OBVIOUS
  <2>1. PICK g : Upto(g, k)
    BY <1>3, <1>5
  <2> DEFINE h == [n \in 0..(k + 1) |-> IF n = k + 1 THEN MergeRegion(g[k], in[k + 1], keys, next)
                                       ELSE g[n]]
  <2>2. h[0] = base
    BY <2>1
  <2>3. ASSUME NEW n \in 1..(k + 1) PROVE h[n] = MergeRegion(h[n - 1], in[n], keys, next)
    <3>1. h[n - 1] = g[n - 1]
      OBVIOUS
    <3>2. CASE n = k + 1
      BY <3>1, <3>2
    <3>3. CASE n # k + 1
      <4>1. n \in 1..k /\ n \in 0..(k + 1)
        BY <3>3
      <4>2. h[n] = g[n] /\ g[n] = MergeRegion(g[n - 1], in[n], keys, next)
        BY <2>1, <3>3, <4>1
      <4> QED BY <3>1, <4>2
    <3> QED BY <3>2, <3>3
  <2>4. h = [n \in 0..(k + 1) |-> h[n]]
    OBVIOUS
  <2> HIDE DEF h
  <2> QED BY <2>2, <2>3, <2>4
<1>6. \E f : IsIt(f)
  <2> HIDE DEF S
  <2>1. N \in S
    BY <1>3, <1>4, <1>5, Induction
  <2>2. PICK g : Upto(g, N)
    BY <1>3, <2>1 DEF S
  <2>3. ASSUME NEW n \in 0..N
        PROVE  g[n] = IF n = 0 THEN base ELSE MergeRegion(g[n - 1], in[n], keys, next)
    <3>1. CASE n = 0
      BY <2>2, <3>1
    <3>2. CASE n # 0
      <4>1. n \in 1..N
        BY <1>3, <3>2
      <4> QED BY <2>2, <3>2, <4>1
    <3> QED BY <3>1, <3>2
  <2>4. IsIt(g)
    BY <2>2, <2>3
  <2> QED BY <2>4
<1>7. IsIt(merged)
  <2> HIDE DEF IsIt
  <2> QED BY <1>6
<1>8. merged[0] = base /\ \A n \in 0..N : n + 1 <= N =>
                           merged[n + 1] = MergeRegion(merged[n], in[n + 1], keys, next)
  <2> HIDE DEF merged
  <2>1. \A n \in 0..N :
          merged[n] = IF n = 0 THEN base ELSE MergeRegion(merged[n - 1], in[n], keys, next)
    BY <1>7
  <2>2. ASSUME NEW n \in 0..N, n + 1 <= N
        PROVE  merged[n + 1] = MergeRegion(merged[n], in[n + 1], keys, next)
    <3>1. (n + 1) - 1 = n /\ n + 1 \in 0..N /\ n + 1 # 0
      BY <1>3, <2>2
    <3> QED BY <2>1, <3>1
  <2> QED BY <1>3, <2>1, <2>2
<1> QED BY <1>1, <1>8 DEF Merges, base, N

(* Merging keeps every node there was. *)
LEMMA TreeMerged ==
  ASSUME NEW B, NEW old, IsTree(B, old), NEW in, IsTree(B, in), NEW keys, NEW next
  PROVE  IsTree(B, MergeInto(old, in, keys, next)) /\ TreeKept(old, MergeInto(old, in, keys, next))
<1> DEFINE N == Len(in)
<1>1. Listed(in) /\ N \in Nat /\ DOMAIN in = 1..N /\ \A i \in 1..N : IsRegion(B, in[i])
  BY ListBasics DEF IsTree
<1>2. PICK merged : Merges(merged, old, in, keys, next)
  BY <1>1, Merging
<1>3. MergeInto(old, in, keys, next) = merged[N].regions
  BY <1>2 DEF Merges
<1>4. /\ merged[0].regions = old /\ "regions" \in DOMAIN merged[0]
      /\ \A n \in 0..N : n + 1 <= N => merged[n + 1] = MergeRegion(merged[n], in[n + 1], keys, next)
  BY <1>2 DEF Merges
<1> DEFINE T == {n \in Nat : n <= N => IsMerged(B, merged[n]) /\ TreeKept(old, merged[n].regions)}
<1>5. 0 \in T
  BY <1>4, KeptAll DEF IsMerged
<1>6. ASSUME NEW n \in Nat, n \in T PROVE n + 1 \in T
  <2> SUFFICES ASSUME n + 1 <= N
               PROVE  IsMerged(B, merged[n + 1]) /\ TreeKept(old, merged[n + 1].regions)
    OBVIOUS
  <2>1. IsMerged(B, merged[n]) /\ TreeKept(old, merged[n].regions) /\ n \in 0..N /\ n + 1 \in 1..N
    BY <1>1, <1>6
  <2>2. merged[n + 1] = MergeRegion(merged[n], in[n + 1], keys, next)
    BY <1>4, <2>1
  <2>3. IsMerged(B, merged[n + 1]) /\ TreeKept(merged[n].regions, merged[n + 1].regions)
    BY <1>1, <2>1, <2>2, MergeStep
  <2>4. TreeKept(old, merged[n + 1].regions)
    BY <2>1, <2>3, KeptAll DEF TreeKept
  <2> QED BY <2>3, <2>4
<1>7. N \in T
  <2> HIDE DEF T
  <2> QED BY <1>1, <1>5, <1>6, Induction
<1>8. IsTree(B, merged[N].regions) /\ TreeKept(old, merged[N].regions)
  BY <1>1, <1>7 DEF IsMerged
<1> QED BY <1>3, <1>8

(* Rows of systems: those there are stay where they are, and a row that     *)
(* comes after them has a name of its own, in any spelling.                *)
RowsAdded(old, rows) ==
  /\ Rows(rows) /\ Len(old) <= Len(rows)
  /\ \A i \in DOMAIN old : rows[i] = old[i]
  /\ \A i, j \in DOMAIN rows : j > Len(old) /\ i < j => NiosKey(rows[i]) # NiosKey(rows[j])

(* One more row, of a name that is not known.                              *)
LEMMA RowAdded ==
  ASSUME NEW old, Listed(old), NEW rows, RowsAdded(old, rows), NEW x, "name" \in DOMAIN x,
         \A m \in Range(rows) : NiosKey(m) # NiosKey(x)
  PROVE  RowsAdded(old, Append(rows, x))
<1> DEFINE S == Range(rows) \union {x}
           more == Append(rows, x)
           N == Len(rows)
<1>1. rows \in Seq(S) /\ x \in S
  BY DEF RowsAdded, Rows, Listed
<1> HIDE DEF S
<1>2. /\ DOMAIN rows = 1..N /\ N \in Nat /\ DOMAIN more = 1..(N + 1) /\ Len(more) = N + 1
      /\ (\A i \in 1..N : more[i] = rows[i]) /\ more[N + 1] = x
  BY <1>1
<1>3. Listed(more)
  BY ListAppended DEF RowsAdded, Rows
<1>4. Len(old) \in Nat /\ DOMAIN old = 1..Len(old) /\ Len(old) <= N
  BY ListBasics DEF RowsAdded
<1> HIDE DEF more, N
<1>5. \A i \in DOMAIN old : more[i] = old[i]
  BY <1>2, <1>4 DEF RowsAdded
<1>6. ASSUME NEW i \in DOMAIN more, NEW j \in DOMAIN more, j > Len(old), i < j
      PROVE  NiosKey(more[i]) # NiosKey(more[j])
  <2>1. i \in DOMAIN rows /\ more[i] = rows[i] /\ rows[i] \in Range(rows)
    BY <1>2, <1>6 DEF Range
  <2>2. CASE j = N + 1
    BY <1>2, <2>1, <2>2
  <2>3. CASE j # N + 1
    BY <1>2, <1>6, <2>1, <2>3 DEF RowsAdded
  <2> QED BY <2>2, <2>3
<1>7. Rows(more)
  BY <1>2, <1>3 DEF RowsAdded, Rows
<1> QED BY <1>2, <1>4, <1>5, <1>6, <1>7 DEF RowsAdded, more, N

(* A merge adds rows.                                                      *)
LEMMA RowsMerged ==
  ASSUME NEW old, Rows(old), NEW in, Rows(in)
  PROVE  RowsAdded(old, MergeNiosx(old, in))
<1> DEFINE N == Len(in)
           V == Seq(Range(old) \union Range(in))
           Known(rows, n) == \E m \in Range(rows) : NiosKey(m) = NiosKey(n)
           step == [a \in (1..N) \X V |-> IF Known(a[2], in[a[1]]) THEN a[2]
                                          ELSE Append(a[2], in[a[1]])]
           IsMergedRows(f) == f = [k \in 0..N |-> IF k = 0 THEN old
                                     ELSE IF Known(f[k - 1], in[k]) THEN f[k - 1]
                                     ELSE Append(f[k - 1], in[k])]
           merged == CHOOSE f : IsMergedRows(f)
<1>1. N \in Nat /\ DOMAIN in = 1..N /\ \A n \in 1..N : in[n] \in Range(in)
  BY ListBasics DEF Range, Rows
<1>2. old \in V /\ step \in [(1..N) \X V -> V]
  <2>1. old \in V
    BY DEF Listed, Rows
  <2>2. \A a \in (1..N) \X V : Append(a[2], in[a[1]]) \in V
    BY <1>1
  <2> HIDE DEF V, Known
  <2> QED BY <2>1, <2>2
<1>3. PICK g \in [0..N -> V] : Solves(g, N, old, step)
  <2> HIDE DEF V, step
  <2> QED BY <1>1, <1>2, Recursion DEF Solvable
<1>4. IsMergedRows(g)
  <2> HIDE DEF Known, V
  <2>1. ASSUME NEW k \in 0..N
        PROVE g[k] = IF k = 0 THEN old ELSE IF Known(g[k - 1], in[k]) THEN g[k - 1]
                     ELSE Append(g[k - 1], in[k])
    <3>1. CASE k = 0
      BY <3>1, <1>3 DEF Solves
    <3>2. CASE k # 0
      <4>1. k \in 1..N /\ k - 1 \in 0..N
        BY <1>1, <3>2
      <4>2. g[k] = step[<<k, g[k - 1]>>] /\ <<k, g[k - 1]>> \in (1..N) \X V
        BY <4>1, <1>3 DEF Solves
      <4> QED BY <4>2, <3>2
    <3> QED BY <3>1, <3>2
  <2> QED BY <2>1, <1>3
<1>5. IsMergedRows(merged)
  <2> HIDE DEF IsMergedRows
  <2> QED BY <1>4
<1>6. MergeNiosx(old, in) = merged[N]
  BY DEF MergeNiosx
<1> HIDE DEF merged
<1> DEFINE T == {n \in Nat : n <= N => RowsAdded(old, merged[n])}
<1>7. 0 \in T
  <2>1. merged[0] = old
    BY <1>1, <1>5
  <2>2. RowsAdded(old, old)
    BY ListBasics DEF RowsAdded, Rows
  <2> QED BY <2>1, <2>2
<1>8. ASSUME NEW n \in Nat, n \in T PROVE n + 1 \in T
  <2> SUFFICES ASSUME n + 1 <= N PROVE RowsAdded(old, merged[n + 1])
    OBVIOUS
  <2>1. n + 1 \in 0..N /\ n + 1 # 0 /\ (n + 1) - 1 = n /\ RowsAdded(old, merged[n])
    BY <1>1, <1>8
  <2>2. merged[n + 1] = IF Known(merged[n], in[n + 1]) THEN merged[n]
                        ELSE Append(merged[n], in[n + 1])
    <3> HIDE DEF Known, V
    <3> QED BY <2>1, <1>5
  <2>3. CASE Known(merged[n], in[n + 1])
    BY <2>1, <2>2, <2>3
  <2>4. CASE ~Known(merged[n], in[n + 1])
    BY <1>1, <2>1, <2>2, <2>4, RowAdded DEF Rows
  <2> QED BY <2>3, <2>4
<1>9. N \in T
  <2> HIDE DEF T
  <2> QED BY <1>1, <1>7, <1>8, Induction
<1> QED BY <1>1, <1>6, <1>9

(* So an import leaves the selection where it is. *)
LEMMA MergeSound ==
  ASSUME NEW B, NEW t, Sound(B, t), NEW in, IsTree(B, in.regions), Rows(in.niosx), NEW next
  PROVE  Sound(B, ImportScan(t, in, next))
<1> DEFINE q == MergeRegions(t.core.regions, in.regions, next)
           rows == MergeNiosx(t.core.niosx, in.niosx)
           u == WithRegions(t, q)
           v == ImportScan(t, in, next)
<1>1. IsTree(B, q) /\ TreeKept(t.core.regions, q)
  BY TreeMerged DEF MergeRegions, Sound, Planted
<1>2. v = [t EXCEPT !.core.regions = q, !.core.niosx = rows]
  BY DEF ImportScan, MergeFullState
<1>5. Rows(rows)
  BY RowsMerged DEF RowsAdded, Sound, Planted, Shaped
<1> HIDE DEF q, rows, v
<1>3. Sound(B, u)
  BY <1>1, TreeMade
<1>4. Shaped(v) /\ v.core.regions = u.core.regions /\ v.ui.selectedPath = u.ui.selectedPath
  BY <1>2, <1>5 DEF WithRegions, Sound, Planted, Shaped, IsStateAt, UIFields, CoreFields, Steps
<1> HIDE DEF u
<1>6. Sound(B, v)
  BY <1>3, <1>4, Beside
<1> QED BY <1>6 DEF v

-----------------------------------------------------------------------------
(* The tree a scan is turned into. *)

(* A region with one site under placeholders. *)
LEMMA ScanRegionTyped ==
  ASSUME NEW B, NEW id, NEW name, NEW type, NEW native, NEW site, IsSite(B, site)
  PROVE  IsRegion(B, ScanRegion(id, name, type, native, site))
<1> DEFINE ct == UnassignedCity(id + 2, <<site>>)
           c == UnassignedCountry(id + 1, id + 2, <<site>>)
           r == ScanRegion(id, name, type, native, site)
<1>1. IsCity(B, ct)
  BY ListBasics DEF IsCity, UnassignedCity
<1>2. c.cities = <<ct>> /\ {"id", "cities"} \subseteq DOMAIN c
  BY DEF UnassignedCountry
<1>3. r.countries = <<c>> /\ {"id", "name", "type", "countries"} \subseteq DOMAIN r
  BY DEF ScanRegion
<1> HIDE DEF ct, c, r
<1>4. IsCountry(B, c)
  BY <1>1, <1>2, ListBasics DEF IsCountry
<1>5. IsRegion(B, r)
  BY <1>3, <1>4, ListBasics DEF IsRegion
<1> QED BY <1>5 DEF r

(* The regions of one cloud provider. *)
LEMMA CloudTree ==
  ASSUME NEW B, NEW findings, Listed(findings), NEW p, NEW next \in Nat,
         NewIds(next, 4 * Len(findings)) \subseteq B.ids
  PROVE  /\ IsTree(B, ImportCloud(p, RowsOf(p, findings), next))
         /\ Len(ImportCloud(p, RowsOf(p, findings), next)) <= Len(findings)
<1> DEFINE I == {i \in DOMAIN findings : findings[i].provider = p}
           rows == Picked(findings, I)
           g == [i \in DOMAIN rows |-> Group(rows[i])]
           J == {i \in DOMAIN g : \A j \in 1..(i - 1) : g[j] # g[i]}
           gs == Picked(g, J)
           q == [k \in DOMAIN gs |-> CloudRegion(p, gs[k], rows, next + 4 * (k - 1))]
           N == Len(findings)
<1>1. RowsOf(p, findings) = rows
  BY DEF RowsOf, Keep
<1>2. ImportCloud(p, rows, next) = q
  BY DEF ImportCloud, Numbered, Distinct, Map
<1> HIDE DEF I
<1>3. Listed(rows) /\ Len(rows) <= N /\ DOMAIN rows = 1..Len(rows) /\ Len(rows) \in Nat /\ N \in Nat
  BY ListPicked, ListBasics
<1> HIDE DEF rows
<1>4. Listed(g) /\ DOMAIN g = 1..Len(rows) /\ DOMAIN g = 1..Len(g) /\ Len(g) \in Nat
  BY <1>3, ListMade, ListBasics
<1> HIDE DEF g, J
<1>5. Listed(gs) /\ Len(gs) <= Len(g) /\ DOMAIN gs = 1..Len(gs) /\ Len(gs) \in Nat
  BY <1>4, ListPicked, ListBasics
<1> HIDE DEF gs
<1>6. Listed(q) /\ DOMAIN q = DOMAIN gs /\ DOMAIN q = 1..Len(q) /\ Len(q) \in Nat
  BY <1>5, ListMade, ListBasics
<1> HIDE DEF N
<1>7. Len(gs) <= N /\ Len(q) <= N
  BY <1>3, <1>4, <1>5, <1>6
<1>8. ASSUME NEW k \in DOMAIN gs PROVE IsRegion(B, q[k])
  <2> DEFINE id == next + 4 * (k - 1)
  <2>1. id + 3 \in B.ids
    <3>1. k \in Nat /\ 1 <= k /\ k <= N
      BY <1>3, <1>5, <1>7
    <3>2. id + 3 = next + 4 * k - 1
      BY <3>1
    <3>3. next + 4 * k - 1 \in next..(next + 4 * N - 1)
      BY <1>3, <3>1
    <3>4. id + 3 \in NewIds(next, 4 * N)
      BY <3>2, <3>3 DEF NewIds
    <3> QED BY <3>4 DEF N
  <2> HIDE DEF id
  <2>2. \A a, b : IsSite(B, NewSite(id + 3, a, [NoNumbers EXCEPT !.activeIPs = b]))
    BY <2>1 DEF NewSite, IsSite, NoNumbers
  <2> DEFINE in == Keep(rows, LAMBDA r : Group(r) = gs[k] /\ r.category = "Active IP")
             name == Named(ShortenSource(gs[k][1]) \o " " \o gs[k][2], 0)
             title == Named(FormatCloudRegionName(p, gs[k][1], gs[k][2]), 0)
             site == NewSite(id + 3, name, [NoNumbers EXCEPT !.activeIPs = SumCount(in)])
  <2>3. CloudRegion(p, gs[k], rows, id) = ScanRegion(id, title, p, TRUE, site)
    BY DEF CloudRegion
  <2> HIDE DEF in, name
  <2>4. IsSite(B, site)
    BY <2>2
  <2> HIDE DEF site, title
  <2> QED BY <2>3, <2>4, ScanRegionTyped DEF id
<1> HIDE DEF q
<1>9. IsTree(B, q)
  BY <1>6, <1>8 DEF IsTree
<1> QED BY <1>1, <1>2, <1>7, <1>9 DEF N

(* Two trees in a row. *)
LEMMA TreesJoined ==
  ASSUME NEW B, NEW p, IsTree(B, p), NEW q, IsTree(B, q)
  PROVE  IsTree(B, p \o q) /\ Len(p \o q) = Len(p) + Len(q)
<1> DEFINE r == p \o q
<1>1. Listed(r) /\ Range(r) = Range(p) \union Range(q)
  BY ListJoined DEF IsTree
<1>2. Len(r) = Len(p) + Len(q)
  BY DEF IsTree, Listed
<1> HIDE DEF r
<1>3. IsTree(B, r)
  BY <1>1 DEF IsTree, Range
<1> QED BY <1>2, <1>3 DEF r

(* The regions of every provider. *)
LEMMA ScanTree ==
  ASSUME NEW B, NEW findings, Listed(findings), NEW next \in Nat,
         NewIds(next, 12 * Len(findings) + 4) \subseteq B.ids
  PROVE  IsTree(B, ScanRegions(findings, next))
<1> DEFINE Add(acc, p) == acc \o ImportCloud(p, RowsOf(p, findings), next + 4 * Len(acc))
           dir == RowsOf("microsoft", findings)
           N == Len(findings)
           Has3(acc, n) == IsTree(B, acc) /\ Len(acc) \in Nat /\ Len(acc) <= n * N
<1>1. N \in Nat
  BY ListBasics
<1>2. ASSUME NEW n \in 0..2, NEW acc, Has3(acc, n), NEW p PROVE Has3(Add(acc, p), n + 1)
  <2> DEFINE new == next + 4 * Len(acc)
             cloud == ImportCloud(p, RowsOf(p, findings), new)
  <2>1. new \in Nat /\ new <= next + 8 * N /\ next <= new
    <3>1. n * N <= 2 * N
      BY <1>1
    <3> QED BY <1>1, <1>2, <3>1
  <2>2. NewIds(new, 4 * N) \subseteq NewIds(next, 12 * N + 4)
    <3> HIDE DEF new, N
    <3> QED BY <1>1, <2>1 DEF NewIds
  <2> HIDE DEF new
  <2>3. IsTree(B, cloud) /\ Len(cloud) <= N
    BY <2>1, <2>2, CloudTree
  <2> HIDE DEF cloud
  <2>4. IsTree(B, acc \o cloud) /\ Len(acc \o cloud) = Len(acc) + Len(cloud)
    BY <1>2, <2>3, TreesJoined
  <2>5. Len(cloud) \in Nat
    BY <2>3, ListBasics DEF IsTree
  <2>6. (n + 1) * N = n * N + N
    BY <1>1
  <2> HIDE DEF N
  <2>7. Has3(acc \o cloud, n + 1)
    BY <1>1, <1>2, <2>3, <2>4, <2>5, <2>6
  <2> QED BY <2>7 DEF cloud, new
<1>3. Has3(<<>>, 0)
  BY <1>1, ListBasics DEF IsTree
<1>4. ScanRegions(findings, next)
        = LET regions == Add(Add(Add(<<>>, "aws"), "azure"), "gcp")
          IN IF dir = <<>> THEN regions ELSE Append(regions, ImportAd(dir, next + 4 * Len(regions)))
  BY DEF ScanRegions
<1> HIDE DEF Add, dir, Has3
<1> DEFINE regions == Add(Add(Add(<<>>, "aws"), "azure"), "gcp")
<1>5. Has3(regions, 3)
  <2>1. Has3(Add(<<>>, "aws"), 1)
    BY <1>2, <1>3
  <2>2. Has3(Add(Add(<<>>, "aws"), "azure"), 2)
    BY <1>2, <2>1
  <2> QED BY <1>2, <2>2
<1> HIDE DEF regions
<1>6. IsTree(B, Append(regions, ImportAd(dir, next + 4 * Len(regions))))
  <2> DEFINE id == next + 4 * Len(regions)
             r == ImportAd(dir, id)
             q == Append(regions, r)
  <2>1. id + 3 \in B.ids
    <3>1. Len(regions) \in Nat /\ Len(regions) <= 3 * N
      BY <1>5 DEF Has3
    <3>2. id + 3 \in NewIds(next, 12 * N + 4)
      <4> HIDE DEF N
      <4> QED BY <1>1, <3>1 DEF NewIds
    <3> QED BY <3>2
  <2> HIDE DEF id
  <2>2. \A a, b : IsSite(B, NewSite(id + 3, a, [NoNumbers EXCEPT !.users = b]))
    BY <2>1 DEF NewSite, IsSite, NoNumbers
  <2>3. IsRegion(B, r)
    BY <2>2, ScanRegionTyped DEF ImportAd
  <2> HIDE DEF r
  <2>4. IsTree(B, regions)
    BY <1>5 DEF Has3
  <2>5. Listed(q) /\ Range(q) = Range(regions) \union {r}
    BY <2>4, ListAppended DEF IsTree
  <2> HIDE DEF q
  <2>6. IsTree(B, q)
    BY <2>3, <2>4, <2>5 DEF IsTree, Range
  <2> QED BY <2>6 DEF q, r, id
<1>7. IsTree(B, regions)
  BY <1>5 DEF Has3
<1> QED BY <1>4, <1>6, <1>7 DEF regions

(* The region made up for a grid. *)
LEMMA GridTyped ==
  ASSUME NEW B, NEW metrics, Listed(metrics), NEW next \in Nat,
         NewIds(next, Len(metrics) + 2) \subseteq B.ids
  PROVE  IsRegion(B, SynthesizeGrid(metrics, next))
<1> DEFINE geo == [i \in DOMAIN metrics |-> Geo(metrics[i])]
           J == {i \in DOMAIN geo : \A j \in 1..(i - 1) : geo[j] # geo[i]}
           places == Picked(geo, J)
           base == next + 2 + Len(metrics)
           countries == GridCountries(metrics, places, next, base)
           r == SynthesizeGrid(metrics, next)
<1>1. r.countries = countries /\ {"id", "name", "type", "countries"} \subseteq DOMAIN r
  BY DEF SynthesizeGrid, Distinct, Map
<1> HIDE DEF r
<1>2. Listed(geo)
  BY ListMade
<1> HIDE DEF geo, J
<1>3. Listed(places)
  BY <1>2, ListPicked
<1> HIDE DEF places, base
<1>4. ASSUME NEW place, NEW id PROVE IsCity(B, GridCity(metrics, place, id, next))
  <2> DEFINE ct == GridCity(metrics, place, id, next)
             all == [i \in DOMAIN metrics |-> i]
             I == {i \in DOMAIN metrics : Geo(metrics[i]) = place}
             p == Picked(all, I)
             q == [i \in DOMAIN p |-> MemberSite(metrics[p[i]], next + 1 + p[i])]
  <2>1. ct.sites = q /\ {"id", "sites"} \subseteq DOMAIN ct
    BY DEF GridCity, Map
  <2>2. Listed(all)
    BY ListMade
  <2>7. Range(all) = DOMAIN metrics
    BY DEF Range
  <2> HIDE DEF all, I, ct
  <2>3. Listed(p) /\ \A i \in DOMAIN p : p[i] \in DOMAIN metrics
    BY <2>2, <2>7, ListPicked, SMTT(30) DEF Range
  <2> HIDE DEF p
  <2>4. Listed(q) /\ DOMAIN q = DOMAIN p
    BY <2>3, ListMade
  <2>5. ASSUME NEW i \in DOMAIN p PROVE IsSite(B, q[i])
    <3> DEFINE new == next + 1 + p[i]
    <3>1. p[i] \in 1..Len(metrics) /\ Len(metrics) \in Nat
      BY <2>3, ListBasics
    <3>2. new \in NewIds(next, Len(metrics) + 2)
      BY <3>1 DEF NewIds
    <3> HIDE DEF new
    <3>3. \A m : IsSite(B, MemberSite(m, new))
      BY <3>2 DEF MemberSite, NewSite, IsSite, NoNumbers
    <3> QED BY <3>3 DEF new
  <2> HIDE DEF q
  <2>6. IsCity(B, ct)
    BY <2>1, <2>4, <2>5 DEF IsCity
  <2> QED BY <2>6 DEF ct
<1> DEFINE CityOf(k) == GridCity(metrics, places[k], base + k, next)
           all == [k \in DOMAIN places |-> k]
           In(c) == Picked(all, {k \in DOMAIN places : places[k].country = c})
           Cities(c) == [i \in DOMAIN In(c) |-> CityOf(In(c)[i])]
           Country_(c, id) == [id |-> id, name |-> c, cities |-> Cities(c)]
           of == [i \in DOMAIN places |-> places[i].country]
           K == {i \in DOMAIN of : \A j \in 1..(i - 1) : of[j] # of[i]}
           cs == Picked(of, K)
<1>5. countries = [k \in DOMAIN cs |-> Country_(cs[k], base + Len(places) + 1 + 4 * (k - 1))]
  BY DEF GridCountries, Numbered, Distinct, Map
<1>6. Listed(all) /\ Listed(of)
  BY <1>3, ListMade
<1> HIDE DEF all, of, K
<1>7. Listed(cs) /\ \A c : Listed(In(c))
  BY <1>6, ListPicked
<1> HIDE DEF cs, In, countries
<1>8. \A k : IsCity(B, CityOf(k))
  BY <1>4
<1> HIDE DEF CityOf
<1>9. ASSUME NEW c, NEW id PROVE IsCountry(B, Country_(c, id))
  <2> DEFINE q == Cities(c)
  <2>1. Listed(q) /\ DOMAIN q = DOMAIN In(c) /\ \A i \in DOMAIN In(c) : IsCity(B, q[i])
    BY <1>7, <1>8, ListMade
  <2> HIDE DEF Cities
  <2> QED BY <2>1 DEF IsCountry
<1> HIDE DEF Country_
<1>10. Listed(countries) /\ DOMAIN countries = DOMAIN cs
  BY <1>5, <1>7, ListMade
<1>11. \A k \in DOMAIN cs : IsCountry(B, countries[k])
  BY <1>5, <1>9
<1>12. IsRegion(B, r)
  BY <1>1, <1>10, <1>11 DEF IsRegion
<1> QED BY <1>12 DEF r

(* What a scan brings is a tree, and an import uses no other identifiers   *)
(* for its sites than those set aside for it.                              *)
LEMMA ImportedTree ==
  ASSUME NEW B, NEW scan \in Scans, NEW next \in Nat, NewIds(next, ImportSpan(scan)) \subseteq B.ids
  PROVE  LET in == ImportFromScan(scan, next) IN IsTree(B, in.regions) /\ Rows(in.niosx)
<1> DEFINE n == Len(scan.findings)
           m == Len(scan.members)
           from == next + 12 * n + 4
           found == ScanRegions(scan.findings, next)
           rows == ImportNios(scan.members, from)
           grid == from + m
           in == WithMembers(found, scan.members, rows, grid)
<1>1. ImportFromScan(scan, next) = in
  BY DEF ImportFromScan
<1>2. Listed(scan.findings) /\ Listed(scan.members) /\ n \in Nat /\ m \in Nat
  BY ScansAssumption, ListBasics
<1>3. /\ NewIds(next, 12 * n + 4) \subseteq NewIds(next, ImportSpan(scan))
      /\ NewIds(grid, m + 2) \subseteq NewIds(next, ImportSpan(scan)) /\ grid \in Nat
  <2>1. ImportSpan(scan) = 12 * n + 5 * m + 8
    BY DEF ImportSpan
  <2> HIDE DEF n, m
  <2> QED BY <1>2, <2>1 DEF NewIds
<1>4. IsTree(B, found)
  BY <1>2, <1>3, ScanTree
<1> HIDE DEF grid
<1>5. IsTree(B, <<SynthesizeGrid(scan.members, grid)>>)
  <2> DEFINE r == SynthesizeGrid(scan.members, grid)
  <2>1. IsRegion(B, r)
    BY <1>2, <1>3, GridTyped
  <2> HIDE DEF r
  <2>2. IsTree(B, <<r>>)
    BY <2>1, ListBasics DEF IsTree
  <2> QED BY <2>2 DEF r
<1>7. Rows(rows) /\ DOMAIN rows = DOMAIN scan.members
  BY <1>2, ListMade DEF ImportNios, Rows
<1> HIDE DEF found, rows
<1>6. in.regions = found \/ in.regions = <<SynthesizeGrid(scan.members, grid)>>
  BY DEF WithMembers
<1>8. Rows(in.niosx)
  <2> DEFINE linked == [i \in DOMAIN rows |->
                          [rows[i] EXCEPT !.siteId = LinkedSite(scan.members, i, grid)]]
  <2>1. Rows(linked)
    BY <1>7, ListMade DEF Rows
  <2>2. in.niosx = linked \/ in.niosx = rows
    BY DEF WithMembers
  <2> QED BY <1>7, <2>1, <2>2
<1> QED BY <1>1, <1>4, <1>5, <1>6, <1>8

-----------------------------------------------------------------------------
(* What changes beside the tree, and what selects. *)

Aside(t, u) == /\ Shaped(u) /\ u.core.regions = t.core.regions
               /\ u.ui.selectedPath = t.ui.selectedPath

(* Such a change keeps a state sound. *)
LEMMA AsideSound == \A B, t, u : Sound(B, t) /\ Aside(t, u) => Sound(B, u)
  BY Beside DEF Aside

(* Lists made from rows are rows. *)
LEMMA RowsMade ==
  /\ Rows(<<>>)
  /\ \A q, x : Rows(q) /\ "name" \in DOMAIN x => Rows(Append(q, x))
  /\ \A q, I : Rows(q) => Rows(Picked(q, I))
  /\ \A p, q : Rows(p) /\ q = [i \in DOMAIN p |-> q[i]] /\ (\A i \in DOMAIN p : "name" \in DOMAIN q[i])
               => Rows(q)
  /\ \A q \in Seq(NiosXSystem) : Rows(q)
<1>1. Rows(<<>>)
  BY ListBasics DEF Rows
<1>2. ASSUME NEW q, NEW x, Rows(q), "name" \in DOMAIN x PROVE Rows(Append(q, x))
  <2> DEFINE p == Append(q, x)
  <2>1. Listed(p) /\ Range(p) = Range(q) \union {x}
    BY <1>2, ListAppended DEF Rows
  <2> HIDE DEF p
  <2>2. Rows(p)
    BY <1>2, <2>1 DEF Rows, Range
  <2> QED BY <2>2 DEF p
<1>3. ASSUME NEW q, NEW I, Rows(q) PROVE Rows(Picked(q, I))
  <2>1. Listed(Picked(q, I)) /\ Range(Picked(q, I)) \subseteq Range(q)
    BY <1>3, ListPicked DEF Rows
  <2> QED BY <1>3, <2>1 DEF Rows, Range
<1>4. ASSUME NEW p, NEW q, Rows(p), q = [i \in DOMAIN p |-> q[i]], \A i \in DOMAIN p : "name" \in DOMAIN q[i]
      PROVE  Rows(q)
  BY <1>4, ListMade DEF Rows
<1>5. ASSUME NEW q \in Seq(NiosXSystem) PROVE Rows(q)
  <2>1. \A n \in NiosXSystem : "name" \in DOMAIN n
    BY DEF NiosXSystem
  <2> QED BY <2>1, ListBasics DEF Rows
<1> QED BY <1>1, <1>2, <1>3, <1>4, <1>5

(* The rows of step 3. *)
LEMMA ApplianceActions ==
  ASSUME NEW t, Shaped(t), NEW id, NEW new, NEW patch
  PROVE  /\ Aside(t, AddNiosx(t, id)) /\ Aside(t, DeleteNiosx(t, id))
         /\ Aside(t, UpdateNiosx(t, id, patch))
         /\ Aside(t, AddXaas(t, id, new)) /\ Aside(t, DeleteXaas(t, id))
         /\ Aside(t, UpdateXaas(t, id, patch)) /\ Aside(t, AutoTier(t))
<1> USE DEF Map, Keep, Aside, Shaped, IsStateAt, Steps, UIFields, CoreFields
<1>7. Rows(t.core.niosx) /\ \A q : Rows(q) => Aside(t, [t EXCEPT !.core.niosx = q])
  OBVIOUS
<1> DEFINE rows == t.core.niosx
<1>1. Aside(t, AddNiosx(t, id)) /\ Aside(t, DeleteNiosx(t, id))
  <2> DEFINE x == [id |-> id, name |-> NextNiosxName(t), siteId |-> 0, formFactor |-> "nios-x",
                   tierName |-> "M", tierManual |-> FALSE, imported |-> FALSE]
             kept == Picked(rows, {i \in DOMAIN rows : rows[i].id # id})
  <2>1. AddNiosx(t, id) = [t EXCEPT !.core.niosx = Append(rows, x)] /\ Rows(Append(rows, x))
    BY <1>7, RowsMade DEF AddNiosx
  <2>2. DeleteNiosx(t, id) = [t EXCEPT !.core.niosx = kept] /\ Rows(kept)
    BY <1>7, RowsMade DEF DeleteNiosx
  <2> HIDE DEF x, kept, Aside, Rows, Shaped, rows, IsStateAt
  <2>3. Aside(t, AddNiosx(t, id))
    BY <1>7, <2>1
  <2>4. Aside(t, DeleteNiosx(t, id))
    BY <1>7, <2>2
  <2> QED BY <2>3, <2>4
<1>2. Aside(t, UpdateNiosx(t, id, patch))
  <2> DEFINE Changed(n) == IF n.id = id THEN Patched(n, patch) ELSE n
             after == [i \in DOMAIN rows |-> Changed(rows[i])]
  <2>1. UpdateNiosx(t, id, patch) = [t EXCEPT !.core.niosx = after]
    BY DEF UpdateNiosx
  <2>2. \A n : "name" \in DOMAIN n => "name" \in DOMAIN Changed(n)
    BY DEF Patched
  <2>3. /\ \A i \in DOMAIN rows : "name" \in DOMAIN after[i]
        /\ after = [i \in DOMAIN rows |-> after[i]]
    BY <1>7, <2>2 DEF Rows
  <2> HIDE DEF after, Aside, rows
  <2>4. Rows(after)
    BY <1>7, <2>3, RowsMade DEF rows
  <2> QED BY <1>7, <2>1, <2>4 DEF rows
<1>3. Aside(t, AddXaas(t, id, new))
  <2>1. \A q : Aside(t, [t EXCEPT !.core.xaas = q])
    OBVIOUS
  <2> HIDE DEF Aside, Shaped
  <2> DEFINE x == [id |-> new, name |-> Named("New Service Point", 0), regionId |-> id,
                   tierName |-> "M", connections |-> 0, connectedSiteIds |-> <<>>,
                   connectivity |-> "vpn"]
  <2>2. AddXaas(t, id, new) = [t EXCEPT !.core.xaas = Append(@, x)]
    BY DEF AddXaas
  <2> HIDE DEF x
  <2> QED BY <2>1, <2>2
<1>6. Aside(t, DeleteXaas(t, id))
  BY DEF DeleteXaas
<1>4. Aside(t, UpdateXaas(t, id, patch))
  BY DEF UpdateXaas
<1>5. Aside(t, AutoTier(t))
  <2> DEFINE Follow(n) == IF n.tierManual \/ n.siteId = 0 THEN n
                          ELSE [n EXCEPT !.tierName = Recommended(t, n.siteId)]
             after == [i \in DOMAIN rows |-> Follow(rows[i])]
  <2>1. AutoTier(t) = [t EXCEPT !.core.niosx = after]
    BY DEF AutoTier
  <2>2. /\ \A i \in DOMAIN rows : "name" \in DOMAIN after[i]
        /\ after = [i \in DOMAIN rows |-> after[i]]
    BY <1>7 DEF Rows
  <2> HIDE DEF after, Aside, rows
  <2>3. Rows(after)
    BY <1>7, <2>2, RowsMade DEF rows
  <2> QED BY <1>7, <2>1, <2>3 DEF rows
<1> HIDE DEF Map, Keep, Aside
<1> QED BY <1>1, <1>2, <1>3, <1>4, <1>5, <1>6

(* Settings and security inputs. *)
LEMMA SettingActions ==
  ASSUME NEW t, Shaped(t), NEW x, NEW new
  PROVE  /\ Aside(t, SetGrowthBuffer(t, new)) /\ Aside(t, SetOverhead(t, x, new))
         /\ Aside(t, ToggleGrowthAdvanced(t)) /\ Aside(t, SetModuleToggle(t, x, new))
         /\ Aside(t, SetSecurity(t, new)) /\ Aside(t, SecurityRecalcFromSites(t))
         /\ Aside(t, AutoFillSecurity(t))
<1> DEFINE recalc == SecurityRecalcFromSites(t)
<1> USE DEF Aside, Shaped, IsStateAt, Steps, UIFields, CoreFields
<1>1. Aside(t, SetGrowthBuffer(t, new)) /\ Aside(t, SetOverhead(t, x, new))
  BY DEF SetGrowthBuffer, SetOverhead
<1>2. Aside(t, ToggleGrowthAdvanced(t))
  BY DEF ToggleGrowthAdvanced
<1>3. Aside(t, SetModuleToggle(t, x, new))
  BY DEF SetModuleToggle
<1>4. Aside(t, SetSecurity(t, new))
  BY DEF SetSecurity
<1>5. Aside(t, recalc)
  <2>1. recalc.core.regions = t.core.regions /\ recalc.ui.selectedPath = t.ui.selectedPath
    BY DEF SecurityRecalcFromSites, AreMarks
  <2>2. recalc.ui.siteOverrides = t.ui.siteOverrides /\ recalc.core.niosx = t.core.niosx
    BY DEF SecurityRecalcFromSites, AreMarks
  <2>3. IsStateAt(recalc, Steps)
    BY DEF SecurityRecalcFromSites, AreMarks
  <2> HIDE DEF recalc, IsStateAt
  <2> QED BY <2>1, <2>2, <2>3
<1>7. AutoFillSecurity(t) = t \/ AutoFillSecurity(t) = recalc
  BY DEF AutoFillSecurity
<1> HIDE DEF recalc
<1>6. Aside(t, AutoFillSecurity(t))
  BY <1>5, <1>7
<1> HIDE DEF Aside
<1> QED BY <1>1, <1>2, <1>3, <1>4, <1>5, <1>6 DEF recalc

(* Interface state: rows, sections, dismissals, modes, marks, the step. *)
LEMMA InterfaceActions ==
  ASSUME NEW t, Shaped(t), NEW x, NEW new
  PROVE  /\ Aside(t, ToggleNodeExpanded(t, x)) /\ Aside(t, ToggleSection(t, x))
         /\ Aside(t, DismissIssue(t, x)) /\ Aside(t, EndDismissals(t, x))
         /\ Aside(t, SiteSetMode(t, x, new))
         /\ new \in DeriveFields => Aside(t, SiteMarkOverride(t, x, new))
         /\ x \in Steps => Aside(t, SetActiveStep(t, x))
<1> USE DEF Aside, Shaped, IsStateAt, Steps, UIFields, CoreFields
<1>1. Aside(t, ToggleSection(t, x))
  BY DEF ToggleSection
<1>2. Aside(t, ToggleNodeExpanded(t, x))
  BY DEF ToggleNodeExpanded
<1>3. Aside(t, DismissIssue(t, x))
  BY DEF DismissIssue
<1>4. Aside(t, EndDismissals(t, x))
  BY DEF EndDismissals
<1>5. Aside(t, SiteSetMode(t, x, new))
  BY DEF SiteSetMode
<1>6. ASSUME new \in DeriveFields PROVE Aside(t, SiteMarkOverride(t, x, new))
  <2> DEFINE marks == [y \in {x} |-> OverridesOf(t, x) \union {new}]
             all == Overlaid(t.ui.siteOverrides, marks)
  <2>1. AreMarks(marks)
    BY <1>6 DEF AreMarks, OverridesOf
  <2>2. SiteMarkOverride(t, x, new) = [t EXCEPT !.ui.siteOverrides = all]
    BY DEF SiteMarkOverride
  <2> HIDE DEF marks
  <2>3. AreMarks(all)
    BY <2>1, MarksOverlaid
  <2> HIDE DEF all
  <2> QED BY <2>2, <2>3
<1>7. x \in Steps => Aside(t, SetActiveStep(t, x))
  BY DEF SetActiveStep
<1> HIDE DEF Aside
<1> QED BY <1>1, <1>2, <1>3, <1>4, <1>5, <1>6, <1>7

(* The sites of the active region. *)
LEMMA RegionListed ==
  ASSUME NEW B, NEW t, Planted(B, t), NEW id
  PROVE  /\ Listed(SitesInRegion(t, id))
         /\ \A i \in DOMAIN SitesInRegion(t, id) :
              SitesInRegion(t, id)[i].id \in NodeIds(t.core).site
<1>1. CASE id \notin IdsOf(t.core.regions)
  BY <1>1, ListBasics DEF SitesInRegion
<1>2. CASE id \in IdsOf(t.core.regions)
  <2> DEFINE p == t.core.regions
             I == {i \in 1..Len(p) : p[i].id = id}
             n == IF I # {} THEN Min(I) ELSE 0
             q == SitesInRegion(t, id)
  <2>1. Listed(p) /\ DOMAIN p = 1..Len(p)
    BY ListBasics DEF Planted, IsTree
  <2>2. I # {} /\ I \subseteq Nat
    BY <1>2, <2>1 DEF IdsOf
  <2>3. q = RegionSites(p[n])
    BY <1>2 DEF SitesInRegion, FirstWhere, SelectInSeq
  <2>4. n \in DOMAIN p
    <3> HIDE DEF I
    <3>1. \E k \in I : \A m \in I : k <= m
      BY <2>2, LeastNumber
    <3>2. n \in I
      BY <2>2, <3>1 DEF Min
    <3> QED BY <2>1, <3>2 DEF I
  <2> HIDE DEF n, I, q
  <2>5. IsRegion(B, p[n])
    BY <2>4 DEF Planted, IsTree
  <2>6. Listed(q)
    BY <2>3, <2>5, RegionWalk
  <2>7. \A x \in Range(q) : x \in Range(AllSites(t.core))
    BY <2>3, <2>4, SiteWalk DEF Planted
  <2>8. \A i \in DOMAIN q : q[i].id \in NodeIds(t.core).site
    <3>1. \A x \in Range(AllSites(t.core)) : x.id \in NodeIds(t.core).site
      BY DEF Range, NodeIds, SiteIds, IdsOf
    <3> QED BY <2>7, <3>1 DEF Range
  <2> QED BY <2>6, <2>8 DEF q
<1> QED BY <1>1, <1>2

(* The site that step 2 selects by itself is one of the tree. *)
LEMMA AutoSelectSound ==
  ASSUME NEW B, NEW t, Sound(B, t), NEW active
  PROVE  Sound(B, AutoSelect(t, active))
<1> DEFINE q == SitesInRegion(t, active)
<1>1. Listed(q) /\ \A i \in DOMAIN q : q[i].id \in NodeIds(t.core).site
  BY RegionListed DEF Sound
<1>2. \/ AutoSelect(t, active) = t
      \/ q # <<>> /\ AutoSelect(t, active) = SetSelectedPath(t, Selected("site", q[1].id))
  BY DEF AutoSelect
<1> HIDE DEF q
<1>3. CASE q # <<>> /\ AutoSelect(t, active) = SetSelectedPath(t, Selected("site", q[1].id))
  <2>1. q[1].id \in NodeIds(t.core).site
    BY <1>1, <1>3, ListBasics
  <2> QED BY <1>3, <2>1, Selects DEF Sound, Selected, Kinds
<1> QED BY <1>2, <1>3

(* A derived value is never an identifier. *)
LEMMA DerivedSound ==
  ASSUME NEW B, B.sites = {}, NEW t, Sound(B, t), NEW id, NEW x
  PROVE  Sound(B, SiteDerive(t, id, Derived(t, x)))
<1>1. "id" \notin DOMAIN Derived(t, x)
  BY DEF Derived, DeriveFromUsers, Complete, DeriveFields, SplitFields
<1> DEFINE patch == [y \in DOMAIN Derived(t, x) \ OverridesOf(t, id) |-> Derived(t, x)[y]]
<1>2. "id" \notin DOMAIN patch
  BY <1>1
<1> HIDE DEF patch
<1>3. Sound(B, UpdateSite(t, id, patch))
  BY <1>2, SiteEdited
<1> QED BY <1>3 DEF SiteDerive, patch

-----------------------------------------------------------------------------
(* The rows of the tree that are on screen. *)

(* A row, or a target of a selection, that is a node of the tree. *)
Found(row) == row.kind \in Kinds /\ row.id \in NodeIds(s.core)[row.kind]

AllFound(rows) == Listed(rows) /\ \A row \in Range(rows) : Found(row)

(* A row above the rows of its children, which are shown or not. *)
LEMMA FoundUnder ==
  ASSUME NEW row, Found(row), NEW rows, AllFound(rows), NEW shown
  PROVE  AllFound(<<row>> \o (IF row.expanded THEN rows ELSE <<>>))
<1> DEFINE below == IF row.expanded THEN rows ELSE <<>>
           q == <<row>> \o below
<1>1. Listed(below) /\ \A x \in Range(below) : Found(x)
  BY ListBasics DEF AllFound, Range
<1>2. Listed(<<row>>) /\ Range(<<row>>) = {row}
  BY ListBasics DEF Range
<1> HIDE DEF below
<1>3. Listed(q) /\ Range(q) = {row} \union Range(below)
  BY <1>1, <1>2, ListJoined
<1> HIDE DEF q
<1>4. AllFound(q)
  BY <1>1, <1>3 DEF AllFound
<1> QED BY <1>4 DEF q, below

(* The rows of siblings. *)
LEMMA FoundSpread ==
  ASSUME NEW p, Listed(p), NEW q, q = [i \in DOMAIN p |-> q[i]], \A i \in DOMAIN p : AllFound(q[i])
  PROVE  AllFound(FlattenSeq(q))
<1>1. /\ Listed(FlattenSeq(q))
      /\ Range(FlattenSeq(q)) = UNION {Range(q[i]) : i \in DOMAIN p}
  BY ListSpread DEF AllFound
<1> QED BY <1>1 DEF AllFound

(* Every row on screen is a node. *)
LEMMA VisibleFound ==
  ASSUME NEW B, Planted(B, s)
  PROVE  AllFound(FlattenVisible)
<1> DEFINE Row(kind, n, parent, kids) ==
             [kind |-> kind, id |-> n.id, parent |-> parent, hasChildren |-> kids # <<>>,
              expanded |-> kind # "site" /\ IsOpen(n.id)]
           Under(row, rows) == <<row>> \o (IF row.expanded THEN rows ELSE <<>>)
           SiteRows(ct) == [k \in DOMAIN ct.sites |-> Row("site", ct.sites[k], ct.id, <<>>)]
           CityRows(c, ct) == Under(Row("city", ct, c.id, ct.sites), SiteRows(ct))
           CitiesRows(c) == [k \in DOMAIN c.cities |-> CityRows(c, c.cities[k])]
           CountryRows(r, c) == Under(Row("country", c, r.id, c.cities), FlattenSeq(CitiesRows(c)))
           CountriesRows(r) == [j \in DOMAIN r.countries |-> CountryRows(r, r.countries[j])]
           RegionRows(r) == Under(Row("region", r, 0, r.countries), FlattenSeq(CountriesRows(r)))
           R == s.core.regions
           AllRows == [i \in DOMAIN R |-> RegionRows(R[i])]
           ids == NodeIds(s.core)
<1>1. FlattenVisible = FlattenSeq(AllRows)
  BY DEF FlattenVisible, Map
<1>2. Listed(R) /\ \A i \in DOMAIN R : IsRegion(B, R[i])
  BY DEF Planted, IsTree
<1>3. \A i \in DOMAIN R : R[i].id \in ids.region
  BY Nodes DEF Planted, Has
<1>4. \A i \in DOMAIN R : \A j \in DOMAIN R[i].countries : R[i].countries[j].id \in ids.country
  BY Nodes DEF Planted, Has, HasCountry
<1>13. \A id : (HasCity(R, id) => id \in ids.city) /\ (HasSite(R, id) => id \in ids.site)
  BY Nodes DEF Planted
<1> HIDE DEF ids, R
<1>5. \A i \in DOMAIN R : \A j \in DOMAIN R[i].countries :
        \A k \in DOMAIN R[i].countries[j].cities : R[i].countries[j].cities[k].id \in ids.city
  BY <1>13 DEF Has, HasCity
<1>6. \A i \in DOMAIN R : \A j \in DOMAIN R[i].countries :
        \A k \in DOMAIN R[i].countries[j].cities :
          \A l \in DOMAIN R[i].countries[j].cities[k].sites :
            R[i].countries[j].cities[k].sites[l].id \in ids.site
  BY <1>13 DEF Has, HasSite
<1> USE DEF ids, R
<1>7. \A kind, n, parent, kids : Row(kind, n, parent, kids).kind = kind
                                 /\ Row(kind, n, parent, kids).id = n.id
  OBVIOUS
<1> HIDE DEF Row
<1>8. \A kind, n, parent, kids :
        kind \in Kinds /\ n.id \in ids[kind] => Found(Row(kind, n, parent, kids))
  BY <1>7 DEF Found
<1>9. \A row, rows : Found(row) /\ AllFound(rows) => AllFound(Under(row, rows))
  BY FoundUnder
<1> HIDE DEF Under, ids, R
<1>10. ASSUME NEW i \in DOMAIN R PROVE AllFound(RegionRows(R[i]))
  <2> DEFINE r == R[i]
  <2>1. ASSUME NEW j \in DOMAIN r.countries PROVE AllFound(CountryRows(r, r.countries[j]))
    <3> DEFINE c == r.countries[j]
    <3>1. ASSUME NEW k \in DOMAIN c.cities PROVE AllFound(CityRows(c, c.cities[k]))
      <4> DEFINE ct == c.cities[k]
      <4>1. IsCity(B, ct)
        BY <1>2, <1>10, <2>1, <3>1 DEF IsRegion, IsCountry
      <4>2. Listed(SiteRows(ct)) /\ DOMAIN SiteRows(ct) = DOMAIN ct.sites
        BY <4>1, ListMade, SMTT(30) DEF IsCity
      <4>3. \A l \in DOMAIN ct.sites : Found(SiteRows(ct)[l])
        BY <1>6, <1>8, <1>10, <2>1, <3>1 DEF Kinds
      <4>4. AllFound(SiteRows(ct))
        <5> DEFINE rows == SiteRows(ct)
        <5> HIDE DEF SiteRows
        <5>1. Listed(rows) /\ \A l \in DOMAIN rows : Found(rows[l])
          BY <4>2, <4>3
        <5> HIDE DEF rows
        <5>2. AllFound(rows)
          BY <5>1 DEF AllFound, Range
        <5> QED BY <5>2 DEF rows
      <4>5. Found(Row("city", ct, c.id, ct.sites))
        BY <1>5, <1>8, <1>10, <2>1, <3>1 DEF Kinds
      <4> HIDE DEF SiteRows
      <4> QED BY <1>9, <4>4, <4>5
    <3>2. Listed(c.cities)
      BY <1>2, <1>10, <2>1 DEF IsRegion, IsCountry
    <3> HIDE DEF CityRows
    <3>3. AllFound(FlattenSeq(CitiesRows(c)))
      BY <3>1, <3>2, FoundSpread
    <3>4. Found(Row("country", c, r.id, c.cities))
      BY <1>4, <1>8, <1>10, <2>1 DEF Kinds
    <3> HIDE DEF CitiesRows
    <3> QED BY <1>9, <3>3, <3>4
  <2>2. Listed(r.countries)
    BY <1>2, <1>10 DEF IsRegion
  <2> HIDE DEF CountryRows
  <2>3. AllFound(FlattenSeq(CountriesRows(r)))
    BY <2>1, <2>2, FoundSpread
  <2>4. Found(Row("region", r, 0, r.countries))
    BY <1>3, <1>8, <1>10 DEF Kinds
  <2> HIDE DEF CountriesRows
  <2> QED BY <1>9, <2>3, <2>4
<1> HIDE DEF RegionRows
<1>11. AllFound(FlattenSeq(AllRows))
  BY <1>2, <1>10, FoundSpread
<1> QED BY <1>1, <1>11

-----------------------------------------------------------------------------
(* What the interface offers leads to sound states. *)

(* The empty state. *)
LEMMA InitialSound ==
  ASSUME NEW B
  PROVE  Sound(B, InitialSizerState)
<1> DEFINE t == InitialSizerState
<1>2. t.core.regions = <<>> /\ t.core.niosx = <<>> /\ t.ui.selectedPath = NoSelection
  BY DEF InitialSizerState
<1>5. IsStateAt(t, Steps)
  BY DEF InitialSizerState, IsStateAt, Steps, UIFields, CoreFields
<1>6. t.ui.siteOverrides = <<>>
  BY DEF InitialSizerState
<1>7. AreMarks(t.ui.siteOverrides)
  BY <1>6 DEF AreMarks
<1>1. Shaped(t)
  BY <1>2, <1>5, <1>7, RowsMade DEF Shaped
<1> HIDE DEF t
<1>3. Planted(B, t)
  BY <1>1, <1>2, ListBasics DEF Planted, IsTree
<1>4. Sound(B, t)
  BY <1>2, <1>3, SoundSelection DEF NoSelection, Kinds
<1> QED BY <1>4 DEF t

(* What is offered uses new identifiers only, and as many as it says.      *)
Allowed(B, e) == e.used \in Nat /\ (NewIds(nextId, e.used) \subseteq B.ids => Sound(B, e.to))

LeadsToSound(B, outcomes) == \A e \in outcomes : Allowed(B, e)

(* The first identifier is one of the new ones. *)
LEMMA FirstNew ==
  ASSUME nextId \in Nat
  PROVE  \A n \in Nat : n > 0 => nextId \in NewIds(nextId, n)
  BY DEF NewIds

(* Opening and closing a row. *)
LEMMA ToggledSound ==
  ASSUME NEW B, Sound(B, s), NEW id
  PROVE  Sound(B, ToggleExpanded(id))
<1>1. \A t : Sound(B, t) => Sound(B, ToggleNodeExpanded(t, id))
  BY InterfaceActions, AsideSound DEF Sound, Planted
<1> QED BY <1>1 DEF ToggleExpanded

(* Selecting a row. *)
LEMMA SelectSound ==
  ASSUME NEW B, Sound(B, s), NEW row, Found(row)
  PROVE  LeadsToSound(B, SelectRow(row))
<1>1. Sound(B, SetSelectedPath(s, Selected(row.kind, row.id)))
  BY Selects DEF Sound, Found, Selected
<1> QED BY <1>1 DEF SelectRow, LeadsToSound, Edit, Outcome, Allowed

(* Everything a row offers. *)
LEMMA RowSound ==
  ASSUME NEW B, Sound(B, s), nextId \in Nat, NEW row, Found(row)
  PROVE  LeadsToSound(B, RowEdits(row))
<1>1. LeadsToSound(B, SelectRow(row))
  BY SelectSound
<1>2. LeadsToSound(B, ToggleRow(row))
  BY ToggledSound DEF ToggleRow, LeadsToSound, When, Edit, Outcome, Allowed
<1>3. LeadsToSound(B, RegionRow(row))
  BY FirstNew, CountryAdded, SiteAdded DEF RegionRow, LeadsToSound, When, Edit, Outcome, Allowed
<1>4. LeadsToSound(B, CountryRow(row)) /\ LeadsToSound(B, CityRow(row))
  BY FirstNew, CityAdded, SitesSound DEF CountryRow, CityRow, LeadsToSound, When, Edit, Outcome, Allowed
<1>5. ASSUME NEW name PROVE LeadsToSound(B, UnassignedLabel(row, name))
  <2>1. Sound(B, UpdateCountry(s, row.id, [name |-> name]))
    BY CountryPatched
  <2>2. Sound(B, UpdateCity(s, row.id, [name |-> name]))
    BY CityPatched
  <2> QED BY <2>1, <2>2 DEF UnassignedLabel, LeadsToSound, When, Edit, Outcome, Allowed
<1>6. LeadsToSound(B, DeleteDialog(row))
  BY NodeDeleted DEF DeleteDialog, LeadsToSound, Edit, Outcome, Allowed
<1> QED
  BY <1>1, <1>2, <1>3, <1>4, <1>5, <1>6 DEF RowEdits, LeadsToSound

(* The keyboard selects rows that are there, or opens and closes one. *)
LEMMA KeySound ==
  ASSUME NEW B, Sound(B, s), NEW rows, AllFound(rows), NEW here
  PROVE  LeadsToSound(B, Keys(rows, here))
<1>1. \A i \in DOMAIN rows : LeadsToSound(B, SelectRow(rows[i]))
  BY SelectSound DEF AllFound, Range
<1>2. LeadsToSound(B, Edit(ToggleExpanded(rows[here].id), 0))
  BY ToggledSound DEF LeadsToSound, Edit, Outcome, Allowed
<1> QED BY <1>1, <1>2 DEF Keys, LeadsToSound, When

(* Step 1. *)
LEMMA RegionsSound ==
  ASSUME NEW B, Sound(B, s), nextId \in Nat
  PROVE  LeadsToSound(B, SizerStepRegions)
<1>1. LeadsToSound(B, HandleAddRegion)
  BY RegionAdded DEF HandleAddRegion, LeadsToSound, Edit, Outcome, Allowed
<1>2. ASSUME NEW id PROVE LeadsToSound(B, RegionForm(id))
  <2> DEFINE Renamed(name) == UpdateRegion(s, id, [name |-> name])
             Native(flag) == UpdateRegion(s, id, [cloudNativeDns |-> flag])
  <2>1. \A x : Sound(B, Renamed(x)) /\ Sound(B, Native(x))
    BY RegionPatched
  <2>2. RegionForm(id) = {Outcome(Renamed(name), 0) : name \in NewNames}
                         \union {Outcome(Native(~r.cloudNativeDns), 0) :
                                  r \in {x \in Range(s.core.regions) :
                                          x.id = id /\ x.type # "on-premises"}}
    BY DEF RegionForm
  <2> HIDE DEF Renamed, Native
  <2> QED BY <2>1, <2>2 DEF LeadsToSound, Outcome, Allowed
<1>3. LeadsToSound(B, RegionTypePill)
  <2> DEFINE Retyped(id, type) == UpdateRegion(s, id, [type |-> type])
  <2>1. \A id, type : Sound(B, Retyped(id, type))
    BY RegionPatched
  <2>2. RegionTypePill = {Outcome(Retyped(r.id, type), 0) :
                            r \in Range(s.core.regions), type \in RegionTypes}
    BY DEF RegionTypePill
  <2> HIDE DEF Retyped
  <2> QED BY <2>1, <2>2 DEF LeadsToSound, Outcome, Allowed
<1>4. LeadsToSound(B, TreeEdits(FlattenVisible))
  BY RowSound, KeySound, VisibleFound DEF TreeEdits, OnTreeKeyDown, LeadsToSound, AllFound, Sound
<1> QED
  BY <1>1, <1>2, <1>3, <1>4 DEF SizerStepRegions, LeadsToSound, When

(* Step 3. *)
LEMMA InfraSound ==
  ASSUME NEW B, Sound(B, s)
  PROVE  LeadsToSound(B, SizerStepInfra)
<1>1. LeadsToSound(B, InfraTabs)
  BY DEF InfraTabs, Look, Allowed, LeadsToSound
<1>2. ASSUME NEW id, NEW patch PROVE Sound(B, UpdateNiosx(s, id, patch))
  BY ApplianceActions, AsideSound DEF Sound, Planted
<1>3. /\ \A id : Sound(B, AddNiosx(s, id)) /\ Sound(B, DeleteNiosx(s, id)) /\ Sound(B, DeleteXaas(s, id))
      /\ \A id, new : Sound(B, AddXaas(s, id, new))
  BY ApplianceActions, AsideSound DEF Sound, Planted
<1>4. LeadsToSound(B, NiosXPanel)
  <2> DEFINE Renamed(id, name) == UpdateNiosx(s, id, [name |-> name])
             At(id, site) == UpdateNiosx(s, id, [siteId |-> site])
             renamed == {Outcome(Renamed(id, name), 0) :
                           id \in IdsOf(s.core.niosx), name \in NewNames}
             moved == {Outcome(At(id, site), 0) :
                         id \in IdsOf(s.core.niosx), site \in SiteIds(s.core)}
             others == Edit(AddNiosx(s, nextId), 1)
                       \union {Outcome(DeleteNiosx(s, id), 0) : id \in IdsOf(s.core.niosx)}
  <2>1. NiosXPanel = others \union renamed \union moved
    BY DEF NiosXPanel
  <2>2. \A id, x : Sound(B, Renamed(id, x)) /\ Sound(B, At(id, x))
    BY <1>2
  <2> HIDE DEF Renamed, At
  <2>3. LeadsToSound(B, renamed) /\ LeadsToSound(B, moved)
    BY <2>2 DEF LeadsToSound, Outcome, Allowed
  <2>4. LeadsToSound(B, others)
    BY <1>3 DEF LeadsToSound, Edit, Outcome, Allowed
  <2> HIDE DEF renamed, moved, others
  <2> QED BY <2>1, <2>3, <2>4 DEF LeadsToSound
<1>5. LeadsToSound(B, XaasPanel)
  BY <1>3 DEF XaasPanel, LeadsToSound, Outcome, Allowed
<1> QED BY <1>1, <1>4, <1>5 DEF SizerStepInfra, LeadsToSound, When

(* The links of the banner and the stepper lead to a step there is, and    *)
(* what a link selects is not a node.                                      *)
LEMMA BannerSound ==
  ASSUME NEW B, Sound(B, s)
  PROVE  LeadsToSound(B, Banner) /\ LeadsToSound(B, JumpTo)
<1>1. \A n \in Steps : Sound(B, SetActiveStep(s, n))
  BY InterfaceActions, AsideSound DEF Sound, Planted
<1>2. \A issue : LeadsToSound(B, GoTo(issue))
  <2>1. \A issue : StepForIssue(issue) \in Steps
    BY DEF StepForIssue, Steps
  <2>2. \A t, n : Sound(B, t) => Sound(B, SetSelectedPath(t, Selected("issue", n)))
    BY Selects DEF Sound, Selected, Kinds
  <2> QED BY <1>1, <2>1, <2>2 DEF GoTo, LeadsToSound, Edit, Outcome, Allowed
<1>3. \A issue : LeadsToSound(B, Dismiss(issue))
  <2>1. \A code : Sound(B, DismissIssue(s, code))
    BY InterfaceActions, AsideSound DEF Sound, Planted
  <2> QED BY <2>1 DEF Dismiss, LeadsToSound, Edit, Outcome, Allowed
<1>4. LeadsToSound(B, Banner)
  BY <1>2, <1>3 DEF Banner, LeadsToSound
<1>5. 1..4 \subseteq Steps
  BY DEF Steps
<1>6. \A n \in 1..4 : Sound(B, SetActiveStep(s, n))
  BY <1>1, <1>5
<1>7. LeadsToSound(B, JumpTo)
  BY <1>6 DEF JumpTo, LeadsToSound, Outcome, Allowed
<1> QED BY <1>4, <1>7

(* Any field of a site but its identifier. *)
LEMMA FieldSet ==
  ASSUME NEW B, B.sites = {}, NEW t, Sound(B, t), NEW id, NEW x, x # "id", NEW v
  PROVE  Sound(B, SetField(t, id, x, v))
<1>1. "id" \notin DOMAIN [y \in {x} |-> v]
  OBVIOUS
<1> QED BY <1>1, SiteEdited DEF SetField

(* The form of a site, and the clone pop-over. *)
LEMMA SiteFormSound ==
  ASSUME NEW B, B.sites = {}, Sound(B, s), nextId \in Nat, NEW t
  PROVE  \A e \in FormEdits(t) : Allowed(B, e.edit)
<1>1. LeadsToSound(B, SiteForm(t.id))
  <2> DEFINE Renamed(name) == UpdateSite(s, t.id, [name |-> name])
             Times(n) == UpdateSite(s, t.id, [multiplier |-> n])
             named == {Outcome(Renamed(name), 0) : name \in NewNames}
             multiplied == {Outcome(Times(Larger(1, n)), 0) : n \in Values}
             switched == {Outcome(SiteSetMode(s, t.id, mode), 0) : mode \in {"users", "manual"}}
  <2>1. \A x : Sound(B, Renamed(x)) /\ Sound(B, Times(x))
    BY SiteEdited
  <2>2. \A mode : Sound(B, SiteSetMode(s, t.id, mode))
    BY InterfaceActions, AsideSound DEF Sound, Planted
  <2>3. SiteForm(t.id) = named \union multiplied \union switched
    BY DEF SiteForm
  <2> HIDE DEF Renamed, Times
  <2>4. LeadsToSound(B, named) /\ LeadsToSound(B, multiplied) /\ LeadsToSound(B, switched)
    BY <2>1, <2>2 DEF LeadsToSound, Outcome, Allowed
  <2> HIDE DEF named, multiplied, switched
  <2> QED BY <2>3, <2>4 DEF LeadsToSound
<1>2. \A e \in UsersField(t.id) : Allowed(B, e.edit)
  BY FieldSet DEF UsersField, Type, Outcome, Allowed
<1>3. \A x : Sound(B, Marked(t.id, x))
  BY InterfaceActions, AsideSound, ZenonT(60) DEF Marked, Sound, Planted
<1>4. \A p \in Typeable : p[1] # "id"
  BY DEF Typeable, GridFields, DeriveFields, SplitFields
<1>5. \A e \in OnFieldEdit(t.id) : Allowed(B, e.edit)
  <2>1. \A x, v : x # "id" => Sound(B, SetField(Marked(t.id, x), t.id, x, v))
    BY <1>3, FieldSet
  <2>2. \A x, v, u : Sound(B, u) => \A e \in Type(t.id, x, v, u) : Allowed(B, e.edit)
    BY DEF Type, Outcome, Allowed
  <2>3. SUFFICES ASSUME NEW e \in OnFieldEdit(t.id) PROVE Allowed(B, e.edit)
    OBVIOUS
  <2>4. PICK p \in Typeable :
               e \in Type(t.id, p[1], p[2], SetField(Marked(t.id, p[1]), t.id, p[1], p[2]))
    BY <2>3 DEF OnFieldEdit
  <2> QED BY <1>4, <2>1, <2>2, <2>4
<1>6. \A e \in ClonePopover(t.id) : Allowed(B, e.edit)
  <2>1. \A n \in 0..(MaxClones + 1) : n \in Int
    BY ClonesAssumption
  <2>2. ASSUME NEW n \in 0..(MaxClones + 1)
        PROVE  Allowed(B, Outcome(CloneSite(s, t.id, n, nextId), CloneCount(n)))
    <3>1. CloneCount(n) \in Nat
      BY <2>1, ClonesAssumption DEF CloneCount
    <3>2. NewIds(nextId, CloneCount(n)) \subseteq B.ids => Sound(B, CloneSite(s, t.id, n, nextId))
      BY <2>1, SitesSound
    <3> QED BY <3>1, <3>2 DEF Allowed, Outcome
  <2> QED BY <2>2 DEF ClonePopover
<1> QED
  BY <1>1, <1>2, <1>5, <1>6 DEF FormEdits, Untyped, When, LeadsToSound

(* The fields of the rows of step 3. *)
LEMMA ApplianceFormsSound ==
  ASSUME NEW B, Sound(B, s)
  PROVE  /\ \A n : LeadsToSound(B, NiosXRow(n))
         /\ LeadsToSound(B, XaasCard)
<1>1. ASSUME NEW id, NEW patch
      PROVE  Sound(B, UpdateNiosx(s, id, patch)) /\ Sound(B, UpdateXaas(s, id, patch))
  BY ApplianceActions, AsideSound DEF Sound, Planted
<1>2. ASSUME NEW n PROVE LeadsToSound(B, NiosXRow(n))
  <2> DEFINE Chosen(tier) == UpdateNiosx(s, n.id, [tierName |-> tier, tierManual |-> TRUE])
             Followed(tier) == UpdateNiosx(s, n.id, [tierName |-> tier, tierManual |-> FALSE])
             picked == {Outcome(Chosen(tier), 0) : tier \in TierNames}
             follows == UNION {When(n.tierManual /\ n.siteId # 0 /\ n.tierName # tier,
                                    Edit(Followed(tier), 0)) :
                                 tier \in {Recommended(s, n.siteId)}}
  <2>1. \A tier : Sound(B, Chosen(tier)) /\ Sound(B, Followed(tier))
    BY <1>1
  <2>2. NiosXRow(n) = picked \union follows
    BY DEF NiosXRow
  <2> HIDE DEF Chosen, Followed
  <2>3. LeadsToSound(B, picked)
    BY <2>1 DEF LeadsToSound, Outcome, Allowed
  <2>4. LeadsToSound(B, follows)
    BY <2>1 DEF LeadsToSound, Outcome, Allowed, When, Edit
  <2> HIDE DEF picked, follows
  <2> QED BY <2>2, <2>3, <2>4 DEF LeadsToSound
<1>3. LeadsToSound(B, XaasCard)
  BY <1>1 DEF XaasCard, LeadsToSound, Outcome, Allowed
<1> QED BY <1>2, <1>3

(* Step 4. *)
LEMMA SettingsSound ==
  ASSUME NEW B, Sound(B, s)
  PROVE  LeadsToSound(B, SizerStepSettings)
<1>1. /\ \A v : Sound(B, SetGrowthBuffer(s, v)) /\ Sound(B, SetSecurity(s, v)) /\ Sound(B, ToggleSection(s, v))
      /\ \A k, v : Sound(B, SetOverhead(s, k, v)) /\ Sound(B, SetModuleToggle(s, k, v))
      /\ Sound(B, ToggleGrowthAdvanced(s)) /\ Sound(B, SecurityRecalcFromSites(s))
  BY SettingActions, InterfaceActions, AsideSound DEF Sound, Planted
<1>2. LeadsToSound(B, SectionShell)
  BY <1>1 DEF SectionShell, LeadsToSound, Outcome, Allowed
<1>3. LeadsToSound(B, SectionGrowth)
  BY <1>1 DEF SectionGrowth, LeadsToSound, Outcome, Allowed, Edit, When
<1>4. LeadsToSound(B, SectionModules)
  BY <1>1 DEF SectionModules, LeadsToSound, Outcome, Allowed
<1>5. \A sec : LeadsToSound(B, SectionSecurity(sec))
  BY <1>1 DEF SectionSecurity, LeadsToSound, Outcome, Allowed, Edit, When
<1> QED
  BY <1>2, <1>3, <1>4, <1>5 DEF SizerStepSettings, LeadsToSound, When

ReportEdit(id, x, v) ==
  [edit |-> Outcome(SetField(s, id, x, v), 0),
   typed |-> [k \in {<<id, x>>} \intersect DOMAIN typed |-> v]]

(* Every form, and the cells of the report. *)
LEMMA FormsSound ==
  ASSUME NEW B, B.sites = {}, Sound(B, s), nextId \in Nat
  PROVE  \A e \in Offered : Allowed(B, e.edit)
<1>1. \A outcomes : LeadsToSound(B, outcomes) => \A e \in Untyped(outcomes) : Allowed(B, e.edit)
  BY DEF LeadsToSound, Untyped
<1>2. \A e \in OnSiteEdit : Allowed(B, e.edit)
  <2>1. \A id, v : \A x \in {"activeIPs", "users", "qps", "lps"} : Sound(B, SetField(s, id, x, v))
    BY FieldSet
  <2>2. OnSiteEdit = {ReportEdit(id, x, v) : id \in SiteIds(s.core),
                        x \in {"activeIPs", "users", "qps", "lps"}, v \in Values}
    BY DEF OnSiteEdit, ReportEdit
  <2>3. \A id, x, v : Sound(B, SetField(s, id, x, v)) => Allowed(B, ReportEdit(id, x, v).edit)
    BY DEF ReportEdit, Outcome, Allowed
  <2>4. SUFFICES ASSUME NEW e \in OnSiteEdit PROVE Allowed(B, e.edit)
    OBVIOUS
  <2>5. \E id, v : \E x \in {"activeIPs", "users", "qps", "lps"} : e = ReportEdit(id, x, v)
    BY <2>2, <2>4
  <2> QED BY <2>1, <2>3, <2>5
<1>3. LeadsToSound(B, PickSite \union RegionPill)
  <2>1. ASSUME NEW id \in IdsOf(SitesInRegion(s, region))
        PROVE  Sound(B, SetSelectedPath(s, Selected("site", id)))
    <3>1. id \in NodeIds(s.core).site
      BY <2>1, RegionListed DEF Sound, IdsOf
    <3> QED BY <3>1, Selects DEF Sound, Selected, Kinds
  <2> QED BY <2>1 DEF PickSite, RegionPill, LeadsToSound, Outcome, Allowed, Look
<1>4. \A e \in UNION {FormEdits(t) : t \in When(FormShown, {FormSite})} : Allowed(B, e.edit)
  BY SiteFormSound
<1>5. LeadsToSound(B, When(tab = "niosx", UNION {NiosXRow(n) : n \in Range(s.core.niosx)})
                   \union When(tab = "xaas", XaasCard))
  BY ApplianceFormsSound DEF LeadsToSound, When
<1>6. LeadsToSound(B, SizerStepSettings)
  BY SettingsSound
<1> QED
  BY <1>1, <1>2, <1>3, <1>4, <1>5, <1>6 DEF Offered

-----------------------------------------------------------------------------
(* A commit, and what is stored. *)

(* The effects that follow a change select what is there. *)
LEMMA EffectsSound ==
  ASSUME NEW B, NEW t, Sound(B, t), NEW pg, NEW active, NEW tb
  PROVE  Sound(B, Effects(Heard(t, pg), pg, active, tb))
<1>1. Sound(B, Heard(t, pg))
  BY InterfaceActions, AsideSound DEF Heard, Sound, Planted
<1>2. \A u : Sound(B, u) => Sound(B, AutoSelect(u, active))
  BY AutoSelectSound
<1>3. \A u : Sound(B, u) => Sound(B, AutoTier(u))
  BY ApplianceActions, AsideSound DEF Sound, Planted
<1>4. \A u : Sound(B, u) => Sound(B, AutoFillSecurity(u))
  BY SettingActions, AsideSound DEF Sound, Planted
<1> QED
  BY <1>1, <1>2, <1>3, <1>4 DEF Effects

(* What every commit does to the state, the page and the debounce timer.   *)
LEMMA CommitStep ==
  ASSUME NEW B, NEW t, Sound(B, t), NEW pg, NEW chosen, NEW tb, NEW renewed,
         Commit(t, pg, chosen, tb, renewed)
  PROVE  /\ Sound(B, s') /\ page' = pg
         /\ s' = Effects(Heard(t, pg), pg, ActiveIn(t, pg, chosen), TabIn(t, pg, tb))
         /\ timer' = (timer \/ renewed \/ s' # s)
<1>1. s' = Effects(Heard(t, pg), pg, ActiveIn(t, pg, chosen), TabIn(t, pg, tb)) /\ page' = pg
  BY DEF Commit, Settle
<1>2. timer' = (timer \/ renewed \/ s' # s)
  BY DEF Commit, Settle
<1> QED BY <1>1, <1>2, EffectsSound

(* The identifiers handed out before n. *)
Below(n) == Only(0..(n - 1))

(* More identifiers may be used. *)
LEMMA SoundMore ==
  ASSUME NEW B, NEW C, B.ids \subseteq C.ids, B.sites \subseteq C.sites
  PROVE  /\ \A q : IsTree(B, q) => IsTree(C, q)
         /\ \A t : Sound(B, t) => Sound(C, t)
<1>1. \A x : IsSite(B, x) => IsSite(C, x)
  BY DEF IsSite
<1>2. \A ct : IsCity(B, ct) => IsCity(C, ct)
  BY <1>1 DEF IsCity
<1>3. \A c : IsCountry(B, c) => IsCountry(C, c)
  BY <1>2 DEF IsCountry
<1>4. \A r : IsRegion(B, r) => IsRegion(C, r)
  BY <1>3 DEF IsRegion
<1>5. \A q : IsTree(B, q) => IsTree(C, q)
  BY <1>4 DEF IsTree
<1> QED BY <1>5 DEF Sound, Planted

(* A tree has the site identifiers it has. *)
LEMMA TreeWithin ==
  ASSUME NEW B, NEW core, IsTree(B, core.regions), NEW C, SiteIds(core) \subseteq C.ids
  PROVE  IsTree(C, core.regions)
<1> DEFINE q == core.regions
<1>1. \A id : HasSite(q, id) => id \in C.ids
  BY Nodes DEF NodeIds
<1>2. Listed(q) /\ \A i \in DOMAIN q : IsRegion(B, q[i])
  BY DEF IsTree
<1> HIDE DEF q
<1>3. ASSUME NEW i \in DOMAIN q PROVE IsRegion(C, q[i])
  <2> DEFINE r == q[i]
  <2>1. IsRegion(B, r)
    BY <1>2, <1>3
  <2>2. \A id : \A j \in DOMAIN r.countries : \A k \in DOMAIN r.countries[j].cities :
          Has(r.countries[j].cities[k].sites, id) => id \in C.ids
    BY <1>1, <1>3 DEF HasSite
  <2> HIDE DEF r
  <2>3. ASSUME NEW j \in DOMAIN r.countries PROVE IsCountry(C, r.countries[j])
    <3> DEFINE c == r.countries[j]
    <3>1. IsCountry(B, c)
      BY <2>1, <2>3 DEF IsRegion
    <3>2. \A id : \A k \in DOMAIN c.cities : Has(c.cities[k].sites, id) => id \in C.ids
      BY <2>2, <2>3
    <3> HIDE DEF c
    <3>3. \A k \in DOMAIN c.cities : IsCity(C, c.cities[k])
      BY <3>1, <3>2 DEF IsCountry, IsCity, IsSite, Has
    <3>4. IsCountry(C, c)
      BY <3>1, <3>3 DEF IsCountry
    <3> QED BY <3>4 DEF c
  <2>4. IsRegion(C, r)
    BY <2>1, <2>3 DEF IsRegion
  <2> QED BY <2>4 DEF r
<1>4. IsTree(C, q)
  BY <1>2, <1>3 DEF IsTree
<1> QED BY <1>4 DEF q

(* A state that was stored, by an older program perhaps. *)
Storable(B, t) == /\ IsStateAt(t, {1, 2, 3, 4, 5}) /\ AreMarks(t.ui.siteOverrides)
                  /\ Rows(t.core.niosx)
                  /\ IsTree(B, t.core.regions) /\ Resolves(t)

StoredSound == stored.kind = "state" => Storable(Below(nextId), stored.state)

(* What is loaded is sound, and dropping an unreadable copy loads the same. *)
LEMMA LoadedSound ==
  ASSUME NEW B, NEW blob, blob.kind = "state" => Storable(B, blob.state)
  PROVE  Sound(B, Loaded(blob)) /\ Loaded(Kept(blob)) = Loaded(blob)
<1>1. CASE blob.kind # "state"
  <2>1. LoadPersisted(blob) = Absent
    BY <1>1 DEF LoadPersisted
  <2>2. LoadPersisted(Absent) = Absent
    BY DEF LoadPersisted, Absent
  <2> QED BY <2>1, <2>2, InitialSound DEF Loaded, Kept
<1>2. CASE blob.kind = "state"
  <2> DEFINE old == blob.state
             read == [old EXCEPT !.ui.activeStep = IF @ = 5 THEN 4 ELSE @]
  <2>1. LoadPersisted(blob) = Blob(read) /\ Blob(read) # Absent /\ Blob(read).state = read
    BY <1>2 DEF LoadPersisted, Blob, Absent
  <2>2. Shaped(read) /\ read.core = old.core /\ read.ui.selectedPath = old.ui.selectedPath
    <3>1. IsStateAt(old, {1, 2, 3, 4, 5}) /\ AreMarks(old.ui.siteOverrides) /\ Rows(old.core.niosx)
      BY <1>2 DEF Storable
    <3> HIDE DEF old
    <3>2. /\ IsStateAt(read, Steps) /\ read.core = old.core
          /\ read.ui.selectedPath = old.ui.selectedPath
          /\ read.ui.siteOverrides = old.ui.siteOverrides
      BY <3>1 DEF IsStateAt, Steps, UIFields
    <3> HIDE DEF read
    <3> QED BY <3>1, <3>2 DEF Shaped
  <2>3. IsTree(B, old.core.regions) /\ Resolves(old)
    BY <1>2 DEF Storable
  <2> HIDE DEF old, read
  <2>4. Planted(B, read)
    BY <2>2, <2>3 DEF Planted
  <2>5. Sound(B, read)
    BY <2>2, <2>3, <2>4 DEF Sound, Resolves
  <2> QED BY <2>1, <2>5 DEF Loaded, Kept
<1> QED BY <1>1, <1>2

(* Storing a state and loading it gives it back: the property that makes   *)
(* sessionStorage a copy.                                                  *)
LEMMA RoundTrip ==
  ASSUME NEW B, NEW t, Sound(B, t)
  PROVE  Loaded(Blob(t)) = t /\ Storable(B, Blob(t).state) /\ Blob(t).kind = "state"
<1> DEFINE read == [t EXCEPT !.ui.activeStep = IF @ = 5 THEN 4 ELSE @]
<1>1. read = t
  BY DEF Sound, Planted, Shaped, IsStateAt, Steps, UIFields
<1>2. LoadPersisted(Blob(t)) = Blob(read)
  BY DEF LoadPersisted, Blob
<1>3. Blob(t) # Absent /\ Blob(t).state = t /\ Blob(t).kind = "state"
  BY DEF Blob, Absent
<1>4. Storable(B, t)
  BY DEF Sound, Planted, Shaped, IsStateAt, Steps, Storable
<1> HIDE DEF read
<1> QED BY <1>1, <1>2, <1>3, <1>4 DEF Loaded

-----------------------------------------------------------------------------
(* The copy and the screen. *)

SettledInv == /\ nextId \in Nat
              /\ Sound(Below(nextId), s)
              /\ StoredSound
              /\ SettledIsStored

(* The sets of the data model hold trees. *)
LEMMA SitesListed == \A q \in Seq(Site) : Listed(q) /\ \A i \in DOMAIN q : IsSite(AnyId, q[i])
<1>1. \A t \in Site : IsSite(AnyId, t)
  BY DEF Site, IsSite, AnyId, Only
<1> QED BY <1>1, ListBasics

LEMMA CitiesListed == \A q \in Seq(City) : Listed(q) /\ \A i \in DOMAIN q : IsCity(AnyId, q[i])
<1>1. \A ct \in City : {"id", "sites"} \subseteq DOMAIN ct /\ ct.sites \in Seq(Site)
  BY DEF City
<1>2. \A ct \in City : IsCity(AnyId, ct)
  BY <1>1, SitesListed DEF IsCity
<1> QED BY <1>2, ListBasics

LEMMA CountriesListed == \A q \in Seq(Country) : Listed(q) /\ \A i \in DOMAIN q : IsCountry(AnyId, q[i])
<1>1. \A c \in Country : {"id", "cities"} \subseteq DOMAIN c /\ c.cities \in Seq(City)
  BY DEF Country
<1>2. \A c \in Country : IsCountry(AnyId, c)
  BY <1>1, CitiesListed DEF IsCountry
<1> QED BY <1>2, ListBasics

LEMMA RegionsListed == \A q \in Seq(Region) : IsTree(AnyId, q)
<1>1. \A r \in Region : {"id", "name", "type", "countries"} \subseteq DOMAIN r /\ r.countries \in Seq(Country)
  BY DEF Region
<1>2. \A r \in Region : IsRegion(AnyId, r)
  BY <1>1, CountriesListed DEF IsRegion
<1> QED BY <1>2, ListBasics DEF IsTree

(* What sessionStorage may hold at the start loads as a sound state. *)
LEMMA SettledInit == Init => SettledInv
<1> SUFFICES ASSUME Init PROVE SettledInv
  OBVIOUS
<1>1. PICK o \in Openings : stored = Kept(o.blob)
  BY DEF Init
<1>2. Kept(o.blob) = Absent \/ Kept(o.blob) = o.blob
  BY DEF Kept
<1>3. nextId = FirstId /\ nextId \in Nat
  BY FirstIdAssumption DEF Init
<1>4. StoredSound
  <2> SUFFICES ASSUME stored.kind = "state" PROVE Storable(Below(nextId), stored.state)
    BY DEF StoredSound
  <2>1. stored = o.blob
    BY <1>1, <1>2 DEF Absent
  <2> DEFINE t == o.blob.state
  <2>2. /\ IsStateAt(t, {1, 2, 3, 4, 5}) /\ t.core.regions \in Seq(Region) /\ Resolves(t)
        /\ AreMarks(t.ui.siteOverrides) /\ SiteIds(t.core) \subseteq Below(nextId).ids
        /\ t.core.niosx \in Seq(NiosXSystem)
    BY <1>3, <2>1, OpeningsAssumption DEF Below, Only
  <2>3. IsTree(AnyId, t.core.regions)
    BY <2>2, RegionsListed
  <2> HIDE DEF t
  <2>4. IsTree(Below(nextId), t.core.regions)
    BY <2>2, <2>3, TreeWithin
  <2>5. Storable(Below(nextId), t)
    BY <2>2, <2>4, RowsMade DEF Storable
  <2> QED BY <2>1, <2>5 DEF t
<1>6. Sound(Below(nextId), s)
  BY <1>4, LoadedSound DEF Init, StoredSound
<1>5. SettledIsStored
  BY DEF Init, SettledIsStored
<1> QED BY <1>3, <1>4, <1>5, <1>6 DEF SettledInv

(* Identifiers are only handed out. *)
LEMMA HandedOut ==
  ASSUME SettledInv, NEW n \in Nat, nextId <= n
  PROVE  /\ Sound(Below(n), s)
         /\ stored.kind = "state" => Storable(Below(n), stored.state)
<1>1. Below(nextId).ids \subseteq Below(n).ids /\ Below(nextId).sites \subseteq Below(n).sites
  BY DEF Below, Only, SettledInv
<1> QED BY <1>1, SoundMore DEF SettledInv, StoredSound, Storable

(* A step that leaves the copy alone and restarts the timer with every     *)
(* change of the state.                                                    *)
LEMMA ScreenOnly ==
  ASSUME SettledInv, nextId' \in Nat, nextId <= nextId', Sound(Below(nextId'), s'),
         UNCHANGED <<open, stored, failed>>, ~timer' => ~timer /\ s' = s
  PROVE  SettledInv'
<1>1. StoredSound'
  BY HandedOut DEF StoredSound
<1> QED BY <1>1 DEF SettledInv, SettledIsStored

(* One dispatch by the user. *)
LEMMA DoKeeps ==
  ASSUME SettledInv, NEW e, \A B : B.sites = {} /\ Sound(B, s) => Allowed(B, e), Do(e)
  PROVE  SettledInv'
<1>1. /\ Commit(e.to, page, e.region, e.tab, e.acts) /\ UNCHANGED <<open, stored, failed>>
      /\ nextId' = nextId + e.used
  BY DEF Do
<1> DEFINE B == Below(nextId')
<1>7. e.used \in Nat /\ nextId \in Nat
  <2>1. Below(nextId).sites = {}
    BY DEF Below, Only
  <2> QED BY <2>1 DEF SettledInv, Allowed
<1>2. nextId' \in Nat /\ nextId <= nextId'
  BY <1>1, <1>7
<1>3. NewIds(nextId, e.used) \subseteq B.ids
  <2>1. nextId \in Nat
    BY <1>7
  <2> DEFINE u == e.used
             n == nextId'
  <2>3. n = nextId + u /\ u \in Nat
    BY <1>1, <1>7
  <2> HIDE DEF u, n
  <2>4. \A k \in nextId..(nextId + u - 1) : k \in 0..(n - 1)
    BY <2>1, <2>3
  <2> QED BY <2>4 DEF NewIds, Below, Only, u, n
<1>4. Sound(B, s) /\ B.sites = {}
  BY <1>2, HandedOut DEF Below, Only
<1> HIDE DEF B
<1>5. Sound(B, e.to)
  BY <1>3, <1>4 DEF Allowed
<1>6. Sound(B, s') /\ timer' = (timer \/ e.acts \/ s' # s)
  BY <1>1, <1>5, CommitStep
<1> QED BY <1>1, <1>2, <1>6, ScreenOnly DEF B

LEMMA EditSizerKeeps == SettledInv /\ EditSizer => SettledInv'
<1> SUFFICES ASSUME SettledInv, EditSizer PROVE SettledInv'
  OBVIOUS
<1>1. nextId \in Nat
  BY DEF SettledInv
<1>2. PICK e \in When(s.ui.activeStep = 1, SizerStepRegions)
                 \union When(s.ui.activeStep = 3, SizerStepInfra) \union Banner \union JumpTo : Do(e)
  BY DEF EditSizer
<1>3. \A B : B.sites = {} /\ Sound(B, s) => Allowed(B, e)
  BY <1>1, <1>2, RegionsSound, InfraSound, BannerSound DEF LeadsToSound, When
<1> QED BY <1>2, <1>3, DoKeeps

LEMMA EditFormKeeps == SettledInv /\ EditForm => SettledInv'
<1> SUFFICES ASSUME SettledInv, EditForm PROVE SettledInv'
  OBVIOUS
<1>1. nextId \in Nat
  BY DEF SettledInv
<1>2. PICK e \in Offered : Do(e.edit)
  BY DEF EditForm
<1>3. \A B : B.sites = {} /\ Sound(B, s) => Allowed(B, e.edit)
  BY <1>1, <1>2, FormsSound
<1> QED BY <1>2, <1>3, DoKeeps

(* The derive timer writes no identifier and restarts the debounce timer. *)
LEMMA DeriveKeeps == SettledInv /\ Derive => SettledInv'
<1> SUFFICES ASSUME SettledInv, Derive PROVE SettledInv'
  OBVIOUS
<1>1. PICK t : s' = EndDismissals(SiteDerive(s, t.id, Derived(s, t)), LastMessages(s.core))
  BY DEF Derive
<1>2. Sound(Below(nextId), SiteDerive(s, t.id, Derived(s, t)))
  BY DerivedSound DEF SettledInv, Below, Only
<1>4. timer' = TRUE /\ UNCHANGED <<open, stored, failed, nextId>>
  BY DEF Derive
<1> DEFINE B == Below(nextId)
           d == SiteDerive(s, t.id, Derived(s, t))
           L == LastMessages(s.core)
<1>5. nextId' \in Nat /\ nextId <= nextId' /\ B = Below(nextId')
  BY <1>4 DEF SettledInv
<1>6. s' = EndDismissals(d, L) /\ Sound(B, d)
  BY <1>1, <1>2
<1> HIDE DEF B, d, L
<1>7. Aside(d, EndDismissals(d, L))
  BY <1>6, InterfaceActions DEF Sound, Planted
<1>3. Sound(B, s')
  BY <1>6, <1>7, AsideSound
<1> QED BY <1>3, <1>4, <1>5, ScreenOnly

LEMMA TurnPageKeeps == SettledInv /\ TurnPage => SettledInv'
<1> SUFFICES ASSUME SettledInv, TurnPage PROVE SettledInv'
  OBVIOUS
<1>1. PICK pg : Commit(s, pg, region, tab, FALSE) /\ UNCHANGED <<open, stored, failed, nextId>>
  BY DEF TurnPage, Turn
<1> DEFINE B == Below(nextId)
<1>3. Sound(B, s) /\ nextId' \in Nat /\ nextId <= nextId' /\ B = Below(nextId')
  BY <1>1 DEF SettledInv
<1> HIDE DEF B
<1>2. Sound(B, s') /\ timer' = (timer \/ FALSE \/ s' # s)
  BY <1>1, <1>3, CommitStep
<1> QED BY <1>1, <1>2, <1>3, ScreenOnly

(* Reset dispatches, so the timer runs.                                    *)
LEMMA OnResetKeeps == SettledInv /\ OnReset => SettledInv'
<1> SUFFICES ASSUME SettledInv, OnReset PROVE SettledInv'
  OBVIOUS
<1>1. /\ Commit(SetActiveStep(InitialSizerState, 1), "scan", region, tab, TRUE)
      /\ stored' = Absent /\ nextId' = nextId
  BY DEF OnReset
<1>2. Sound(Below(nextId), SetActiveStep(InitialSizerState, 1))
  BY InitialSound, InterfaceActions, AsideSound DEF Steps, Sound, Planted
<1>3. Sound(Below(nextId), s') /\ timer' = (timer \/ TRUE \/ s' # s)
  BY <1>1, <1>2, CommitStep
<1> QED BY <1>1, <1>3 DEF SettledInv, StoredSound, SettledIsStored, Absent

LEMMA LandingSteps == \A t : LandingStep(t) \in {1, 2, 3}
  BY DEF LandingStep

(* An import of a scan: it went through, or a write was refused. *)
LEMMA ImportCases ==
  ASSUME HandleSizerImportConfirm
  PROVE  \E scan \in Scans :
           /\ nextId' = MergeId(scan) + 2 * (Len(s.core.regions) + Len(scan.findings) + 1)
           /\ LET merged == ImportScan(Loaded(stored), Incoming(scan), MergeId(scan))
              IN \/ ImportDone(Loaded(stored), merged, ImportScan(s, Incoming(scan), MergeId(scan)))
                 \/ ImportFailed(merged)
  BY DEF HandleSizerImportConfirm

(* What it brings is sound on the identifiers handed out by then. *)
LEMMA ImportIds ==
  ASSUME SettledInv, NEW scan \in Scans,
         nextId' = MergeId(scan) + 2 * (Len(s.core.regions) + Len(scan.findings) + 1)
  PROVE  /\ nextId' \in Nat /\ nextId <= nextId'
         /\ IsTree(Below(nextId'), Incoming(scan).regions) /\ Rows(Incoming(scan).niosx)
<1> DEFINE n == Len(s.core.regions)
           f == Len(scan.findings)
           m == Len(scan.members)
<1>1. n \in Nat /\ nextId \in Nat
  BY ListBasics DEF SettledInv, Sound, Planted, IsTree
<1>2. f \in Nat /\ m \in Nat
  BY ScansAssumption
<1>3. ImportSpan(scan) = 12 * f + 5 * m + 8 /\ MergeId(scan) = nextId + ImportSpan(scan)
  BY DEF MergeId, ImportSpan
<1> HIDE DEF n, f, m
<1> DEFINE span == ImportSpan(scan)
           new == nextId'
<1>4. new = nextId + span + 2 * (n + f + 1)
  BY <1>3 DEF n, f
<1>8. span = 12 * f + 5 * m + 8
  BY <1>3
<1> HIDE DEF span, new
<1>5. new \in Nat /\ nextId + span <= new /\ nextId <= new /\ span \in Nat
  BY <1>1, <1>2, <1>4, <1>8
<1>6. NewIds(nextId, span) \subseteq Below(new).ids
  BY <1>1, <1>5 DEF NewIds, Below, Only
<1>7. IsTree(Below(new), Incoming(scan).regions) /\ Rows(Incoming(scan).niosx)
  BY <1>1, <1>6, ImportedTree DEF Incoming, span
<1> QED BY <1>5, <1>7 DEF new

(* Both merges are sound, and so is the copy with its landing step. *)
LEMMA ImportKeeps == SettledInv /\ HandleSizerImportConfirm => SettledInv'
<1> SUFFICES ASSUME SettledInv, HandleSizerImportConfirm PROVE SettledInv'
  OBVIOUS
<1>1. PICK scan \in Scans :
           /\ nextId' = MergeId(scan) + 2 * (Len(s.core.regions) + Len(scan.findings) + 1)
           /\ LET merged == ImportScan(Loaded(stored), Incoming(scan), MergeId(scan))
              IN \/ ImportDone(Loaded(stored), merged, ImportScan(s, Incoming(scan), MergeId(scan)))
                 \/ ImportFailed(merged)
  BY ImportCases
<1> DEFINE B == Below(nextId')
           merged == ImportScan(Loaded(stored), Incoming(scan), MergeId(scan))
           inApp == ImportScan(s, Incoming(scan), MergeId(scan))
           copy == SetActiveStep(merged, LandingStep(merged))
           landed == SetActiveStep(inApp, LandingStep(merged))
<1>2. /\ nextId' \in Nat /\ nextId <= nextId'
      /\ IsTree(B, Incoming(scan).regions) /\ Rows(Incoming(scan).niosx)
  BY <1>1, ImportIds
<1>3. Sound(B, s) /\ (stored.kind = "state" => Storable(B, stored.state))
  BY <1>2, HandedOut
<1>4. StoredSound' <=> (stored'.kind = "state" => Storable(B, stored'.state))
  BY DEF StoredSound
<1>5. SettledInv' <=> nextId' \in Nat /\ Sound(B, s') /\ StoredSound' /\ SettledIsStored'
  BY DEF SettledInv
<1> HIDE DEF B
<1>6. Sound(B, Loaded(stored)) /\ Loaded(Kept(stored)) = Loaded(stored)
  BY <1>3, LoadedSound
<1>7. Sound(B, merged) /\ Sound(B, inApp)
  BY <1>2, <1>3, <1>6, MergeSound
<1>8. LandingStep(merged) \in Steps
  BY LandingSteps DEF Steps
<1> HIDE DEF merged, inApp
<1>9. Sound(B, copy) /\ Sound(B, landed)
  BY <1>7, <1>8, InterfaceActions, AsideSound DEF Sound, Planted
<1>10. Storable(B, Blob(copy).state) /\ Blob(copy) = ImportBlob(merged)
  BY <1>9, RoundTrip DEF ImportBlob
<1>11. CASE ImportDone(Loaded(stored), merged, inApp)
  <2>1. Commit(landed, "sizer", region, tab, TRUE) /\ stored' = Blob(copy)
    BY <1>10, <1>11 DEF ImportDone
  <2>2. Sound(B, s') /\ timer' = (timer \/ TRUE \/ s' # s)
    BY <1>9, <2>1, CommitStep
  <2> QED BY <1>2, <1>4, <1>5, <1>10, <2>1, <2>2 DEF SettledIsStored
<1>12. CASE ImportFailed(merged)
  <2>1. stored' \in {Kept(stored), Blob(copy)} /\ failed' = TRUE /\ s' = s
    BY <1>10, <1>12 DEF ImportFailed, live
  <2>2. Kept(stored) = stored \/ Kept(stored) = Absent
    BY DEF Kept
  <2>3. StoredSound'
    BY <1>3, <1>4, <1>10, <2>1, <2>2 DEF Absent
  <2> QED BY <1>2, <1>3, <1>5, <2>1, <2>3 DEF SettledIsStored
<1> QED BY <1>1, <1>11, <1>12 DEF merged, inApp

(* A write makes the copy equal to the screen, or fails.                   *)
LEMMA WriteKeeps ==
  ASSUME SettledInv, Write, s' = s, nextId' = nextId
  PROVE  SettledInv'
<1>1. CASE stored' = Blob(s)
  BY <1>1, RoundTrip DEF SettledInv, StoredSound, SettledIsStored
<1>2. CASE failed' = TRUE /\ stored' = stored
  BY <1>2 DEF SettledInv, StoredSound, SettledIsStored
<1> QED BY <1>1, <1>2 DEF Write

(* Timers, closing, crashing and opening again. *)
LEMMA PersistenceKeeps ==
  SettledInv /\ (PersistTimer \/ PageHide \/ Kill \/ Reopen \/ ShowBadge) => SettledInv'
<1> SUFFICES ASSUME SettledInv, PersistTimer \/ PageHide \/ Kill \/ Reopen \/ ShowBadge
             PROVE  SettledInv'
  OBVIOUS
<1>1. CASE PersistTimer
  BY <1>1, WriteKeeps DEF PersistTimer, live
<1>2. CASE PageHide
  BY <1>2, WriteKeeps DEF PageHide, live
<1>3. CASE Kill
  BY <1>3 DEF Kill, live, SettledInv, StoredSound, SettledIsStored
<1>4. CASE Reopen
  <2>1. Sound(Below(nextId), Loaded(stored))
    BY LoadedSound DEF SettledInv, StoredSound
  <2>2. s' = Loaded(stored) /\ stored' = Kept(stored) /\ timer' = TRUE /\ nextId' = nextId
    BY <1>4 DEF Reopen
  <2>3. Kept(stored) = stored \/ Kept(stored) = Absent
    BY DEF Kept
  <2> QED BY <2>1, <2>2, <2>3 DEF SettledInv, StoredSound, SettledIsStored, Absent
<1>5. CASE ShowBadge
  BY <1>5 DEF ShowBadge, live, SettledInv, StoredSound, SettledIsStored
<1> QED BY <1>1, <1>2, <1>3, <1>4, <1>5

LEMMA SettledStep == SettledInv /\ [FormNext]_formVars => SettledInv'
<1> SUFFICES ASSUME SettledInv, [FormNext]_formVars PROVE SettledInv'
  OBVIOUS
<1>1. CASE EditForm
  BY <1>1, EditFormKeeps
<1>2. CASE Next
  BY <1>2, EditSizerKeeps, DeriveKeeps, TurnPageKeeps, OnResetKeeps, ImportKeeps,
     PersistenceKeeps DEF Next
<1>3. CASE UNCHANGED formVars
  BY <1>3 DEF formVars, vars, live, SettledInv, StoredSound, SettledIsStored
<1> QED BY <1>1, <1>2, <1>3 DEF FormNext, Elsewhere

LEMMA SettledInvariant == FormSpec => []SettledInv
<1>1. FormInit => SettledInv
  BY SettledInit DEF FormInit
<1> QED BY <1>1, SettledStep, PTL DEF FormSpec

(* Once the debounce timer has run, and unless a write was refused, the    *)
(* copy is what is on screen: the reload or the killed tab that follows    *)
(* loses nothing.                                                          *)
THEOREM CopyFollowsScreen == FormSpec => []SettledIsStored
<1>1. SettledInv => SettledIsStored
  BY DEF SettledInv
<1> QED BY <1>1, SettledInvariant, PTL

(* What is selected exists, whatever was deleted, imported, stored or      *)
(* loaded: no row, dialog, key, link, page, effect or reload leaves the    *)
(* detail pane and the keyboard with a node that is gone.                  *)
THEOREM SelectionsResolve == FormSpec => []SelectionResolves
<1>1. SettledInv => SelectionResolves
  BY DEF SettledInv, Sound, SelectionResolves
<1> QED BY <1>1, SettledInvariant, PTL

-----------------------------------------------------------------------------
(* An import writes what it shows. *)

(* Selecting a site and following the recommended tiers are all that the   *)
(* landing step does, and BeforeLanding takes both away.                   *)
LEMMA SelectionMasked ==
  ASSUME NEW t, Shaped(t), NEW path
  PROVE  BeforeLanding(SetSelectedPath(t, path)) = BeforeLanding(t)
<1> DEFINE u == SetSelectedPath(t, path)
<1>1. u = [t EXCEPT !.ui = [t.ui EXCEPT !.selectedPath = path]]
  BY DEF SetSelectedPath
<1>2. u.core = t.core
  BY <1>1 DEF Shaped, IsStateAt
<1> DEFINE rows == Untiered(t.core.niosx)
<1>3. BeforeLanding(t) = [t EXCEPT !.ui.selectedPath = NoSelection, !.core.niosx = rows]
  BY DEF BeforeLanding
<1>4. BeforeLanding(u) = [u EXCEPT !.ui.selectedPath = NoSelection, !.core.niosx = rows]
  BY <1>2 DEF BeforeLanding
<1> HIDE DEF rows
<1>5. [u EXCEPT !.ui.selectedPath = NoSelection, !.core.niosx = rows]
        = [t EXCEPT !.ui.selectedPath = NoSelection, !.core.niosx = rows]
  BY <1>1 DEF Shaped, IsStateAt, UIFields
<1> QED BY <1>3, <1>4, <1>5

LEMMA TiersMasked ==
  ASSUME NEW t, Shaped(t)
  PROVE  BeforeLanding(AutoTier(t)) = BeforeLanding(t)
<1> DEFINE follow(n) == IF n.tierManual \/ n.siteId = 0 THEN n
                        ELSE [n EXCEPT !.tierName = Recommended(t, n.siteId)]
           old == t.core.niosx
           new == [i \in DOMAIN old |-> follow(old[i])]
           u == AutoTier(t)
<1>1. u = [t EXCEPT !.core = [t.core EXCEPT !.niosx = new]]
  BY DEF AutoTier, Map
<1>2. \A n : [follow(n) EXCEPT !.tierName = ""] = [n EXCEPT !.tierName = ""]
  OBVIOUS
<1> HIDE DEF follow
<1>3. Untiered(new) = Untiered(old)
  BY <1>2 DEF Untiered, Map
<1> HIDE DEF new, old, u
<1>4. BeforeLanding(t) = [t EXCEPT !.ui.selectedPath = NoSelection, !.core.niosx = Untiered(old)]
  BY DEF BeforeLanding, old
<1>5. BeforeLanding(u) = [u EXCEPT !.ui.selectedPath = NoSelection,
                                   !.core.niosx = Untiered(u.core.niosx)]
  BY DEF BeforeLanding
<1>6. u.core.niosx = new
  BY <1>1 DEF Shaped, IsStateAt, CoreFields
<1> DEFINE rows == Untiered(old)
<1> HIDE DEF rows
<1>7. [u EXCEPT !.ui.selectedPath = NoSelection, !.core.niosx = rows]
        = [t EXCEPT !.ui.selectedPath = NoSelection, !.core.niosx = rows]
  BY <1>1 DEF Shaped, IsStateAt, UIFields, CoreFields
<1> QED BY <1>3, <1>4, <1>5, <1>6, <1>7 DEF u, rows

LEMMA LandingMasked ==
  ASSUME NEW t, Shaped(t), t.ui.activeStep # 4, page = "scan", NEW active, NEW tb
  PROVE  BeforeLanding(Effects(Heard(t, "sizer"), "sizer", active, tb)) = BeforeLanding(t)
<1>1. Heard(t, "sizer") = t
  BY DEF Heard
<1>2. BeforeLanding(AutoSelect(t, active)) = BeforeLanding(t)
  BY SelectionMasked DEF AutoSelect
<1>3. ~ShowsSecurity(t, "sizer")
  BY DEF ShowsSecurity, Shows
<1> QED BY <1>1, <1>2, <1>3, TiersMasked DEF Effects

(* Only the import leads from the scan to the Sizer with an edit.          *)
LEMMA ImportedByImport ==
  ASSUME FormNext, Imported
  PROVE  open /\ HandleSizerImportConfirm
<1>1. ~EditForm /\ ~EditSizer
  BY DEF EditForm, EditSizer, Imported
<1>2. ~Derive /\ ~ShowBadge /\ ~TurnPage /\ ~OnReset
  BY DEF Derive, ShowBadge, TurnPage, Turn, OnReset, Imported, live
<1>3. ~PersistTimer /\ ~PageHide /\ ~Kill /\ ~Reopen
  BY DEF PersistTimer, PageHide, Kill, Reopen, Imported, live
<1>4. HandleSizerImportConfirm
  BY <1>1, <1>2, <1>3 DEF FormNext, Elsewhere, Next
<1> QED BY <1>4 DEF HandleSizerImportConfirm

LEMMA ImportStep ==
  ASSUME SettledInv, FormNext, Imported, ~timer, ~failed
  PROVE  BeforeLanding(stored'.state) = BeforeLanding(s')
<1>1. open /\ HandleSizerImportConfirm
  BY ImportedByImport
<1>2. Loaded(stored) = s
  BY <1>1 DEF SettledInv, SettledIsStored
<1>3. PICK scan \in Scans :
           /\ nextId' = MergeId(scan) + 2 * (Len(s.core.regions) + Len(scan.findings) + 1)
           /\ LET merged == ImportScan(Loaded(stored), Incoming(scan), MergeId(scan))
              IN \/ ImportDone(Loaded(stored), merged, ImportScan(s, Incoming(scan), MergeId(scan)))
                 \/ ImportFailed(merged)
  BY <1>1, ImportCases
<1> DEFINE merged == ImportScan(s, Incoming(scan), MergeId(scan))
           landed == SetActiveStep(merged, LandingStep(merged))
<1>4. ImportDone(s, merged, merged) \/ ImportFailed(merged)
  BY <1>2, <1>3
<1> DEFINE B == Below(nextId')
<1>5. Sound(B, merged)
  <2>1. /\ nextId' \in Nat /\ nextId <= nextId'
        /\ IsTree(B, Incoming(scan).regions) /\ Rows(Incoming(scan).niosx)
    BY <1>3, ImportIds
  <2> QED BY <2>1, HandedOut, MergeSound
<1> HIDE DEF B
<1> HIDE DEF merged
<1>6. ~ImportFailed(merged)
  BY DEF ImportFailed, Imported, live
<1>7. /\ stored' = Blob(landed)
      /\ Commit(landed, "sizer", region, tab, TRUE)
  BY <1>4, <1>6 DEF ImportDone, ImportBlob
<1>8. Sound(B, landed)
  BY <1>5, LandingSteps, InterfaceActions, AsideSound DEF Steps, Sound, Planted
<1>9. landed.ui.activeStep # 4
  BY <1>5, LandingSteps DEF SetActiveStep, Sound, Planted, Shaped, IsStateAt, UIFields
<1> HIDE DEF landed
<1>10. s' = Effects(Heard(landed, "sizer"), "sizer", ActiveIn(landed, "sizer", region),
                    TabIn(landed, "sizer", tab))
  BY <1>7, <1>8, CommitStep
<1>11. page = "scan"
  BY DEF Imported
<1>12. BeforeLanding(s') = BeforeLanding(landed)
  BY <1>8, <1>9, <1>10, <1>11, LandingMasked DEF Sound, Planted
<1>13. stored'.state = landed
  BY <1>7 DEF Blob
<1> QED BY <1>12, <1>13

(* handleSizerImportConfirm merges twice, into the copy and into the live  *)
(* state: when these were in step before, they are after.                  *)
THEOREM ImportWritesBoth == FormSpec => ImportWritesWhatItShows
<1> DEFINE Same == Imported /\ ~timer /\ ~failed => BeforeLanding(stored'.state) = BeforeLanding(s')
<1>1. SettledInv /\ [FormNext]_formVars => [Same]_vars
  <2> SUFFICES ASSUME SettledInv, [FormNext]_formVars PROVE [Same]_vars
    OBVIOUS
  <2>1. CASE FormNext
    BY <2>1, ImportStep
  <2>2. CASE UNCHANGED formVars
    BY <2>2 DEF formVars
  <2> QED BY <2>1, <2>2
<1>2. FormSpec => [][Same]_vars
  BY <1>1, SettledInvariant, PTL DEF FormSpec
<1> QED BY <1>2 DEF ImportWritesWhatItShows

-----------------------------------------------------------------------------
(* What an import adds.  Lists in which no identifier comes twice.         *)

Once(p) == \A i, j \in DOMAIN p : p[i].id = p[j].id => i = j

Apart(p, q) == \A x \in Range(p) : \A y \in Range(q) : x.id # y.id

(* A count of the identifiers says the same.                               *)
LEMMA OnceCounted ==
  ASSUME NEW p, Listed(p)
  PROVE  Cardinality(IdsOf(p)) = Len(p) <=> Once(p)
<1> DEFINE n == Len(p)
           S == 1..n
           T == IdsOf(p)
           f == [k \in S |-> p[k].id]
<1>1. DOMAIN p = S /\ n \in Nat
  BY ListBasics
<1>2. f \in Surjection(S, T)
  BY <1>1 DEF Surjection, IdsOf
<1>3. IsFiniteSet(S) /\ Cardinality(S) = n
  <2>1. 1 \in Int /\ n \in Int
    BY <1>1
  <2> HIDE DEF n
  <2>2. IsFiniteSet(1..n) /\ Cardinality(1..n) = IF 1 > n THEN 0 ELSE n - 1 + 1
    BY <2>1, FS_Interval
  <2>3. (IF 1 > n THEN 0 ELSE n - 1 + 1) = n
    BY <1>1
  <2> QED BY <2>2, <2>3
<1>4. \A k \in S : f[k] = p[k].id
  OBVIOUS
<1> HIDE DEF f, T, S, n
<1>5. Cardinality(T) = n <=> f \in Injection(S, T)
  <2>1. Cardinality(T) = Cardinality(S) <=> f \in Injection(S, T)
    BY <1>2, <1>3, FS_Surjection
  <2> QED BY <1>3, <2>1
<1>6. f \in [S -> T]
  BY <1>2 DEF Surjection
<1>7. f \in Injection(S, T) <=> \A i, j \in S : f[i] = f[j] => i = j
  BY <1>6 DEF Injection, IsInjective
<1> QED BY <1>1, <1>4, <1>5, <1>7 DEF Once, T, n

(* Two lists, one after the other.                                         *)
LEMMA OnceJoined ==
  ASSUME NEW p, Listed(p), NEW q, Listed(q)
  PROVE  Once(p \o q) <=> Once(p) /\ Once(q) /\ Apart(p, q)
<1> DEFINE S == Range(p) \union Range(q)
           r == p \o q
           m == Len(p)
           n == Len(q)
<1>1. p \in Seq(S) /\ q \in Seq(S)
  BY DEF Listed
<1> HIDE DEF S
<1>2. /\ m \in Nat /\ n \in Nat /\ DOMAIN p = 1..m /\ DOMAIN q = 1..n /\ DOMAIN r = 1..(m + n)
      /\ \A i \in 1..m : r[i] = p[i]
      /\ \A i \in 1..n : r[m + i] = q[i]
  BY <1>1
<1> HIDE DEF r, m, n
<1>3. \A i \in 1..m : i \in 1..(m + n)
  BY <1>2
<1>4. \A i \in 1..n : m + i \in 1..(m + n)
  BY <1>2
<1>5. ASSUME Once(r) PROVE Once(p) /\ Once(q) /\ Apart(p, q)
  <2>1. Once(p)
    BY <1>2, <1>3, <1>5 DEF Once
  <2>2. ASSUME NEW i \in DOMAIN q, NEW j \in DOMAIN q, q[i].id = q[j].id PROVE i = j
    <3>1. r[m + i].id = r[m + j].id /\ m + i \in DOMAIN r /\ m + j \in DOMAIN r
      BY <1>2, <1>4, <2>2
    <3>2. m + i = m + j
      BY <1>5, <3>1 DEF Once
    <3> QED BY <1>2, <3>2
  <2>3. ASSUME NEW i \in DOMAIN p, NEW j \in DOMAIN q PROVE p[i].id # q[j].id
    <3>1. r[i] = p[i] /\ r[m + j] = q[j] /\ i \in DOMAIN r /\ m + j \in DOMAIN r /\ i # m + j
      BY <1>2, <1>3, <1>4
    <3> QED BY <1>5, <3>1 DEF Once
  <2> QED BY <2>1, <2>2, <2>3 DEF Once, Apart, Range
<1>6. ASSUME Once(p), Once(q), Apart(p, q), NEW i \in DOMAIN r, NEW j \in DOMAIN r, r[i].id = r[j].id
      PROVE  i = j
  <2>1. \A k \in DOMAIN r : \/ k \in DOMAIN p /\ r[k] = p[k] /\ p[k] \in Range(p)
                            \/ /\ k - m \in DOMAIN q /\ r[k] = q[k - m] /\ q[k - m] \in Range(q)
                               /\ k \in Int
    <3> SUFFICES ASSUME NEW k \in DOMAIN r
                 PROVE  \/ k \in DOMAIN p /\ r[k] = p[k] /\ p[k] \in Range(p)
                        \/ /\ k - m \in DOMAIN q /\ r[k] = q[k - m] /\ q[k - m] \in Range(q)
                           /\ k \in Int
      OBVIOUS
    <3>1. CASE k <= m
      BY <1>2, <3>1 DEF Range
    <3>2. CASE k > m
      <4>1. k - m \in 1..n /\ m + (k - m) = k /\ k \in Int
        BY <1>2, <3>2
      <4> QED BY <1>2, <4>1 DEF Range
    <3> QED BY <1>2, <3>1, <3>2
  <2>2. CASE i \in DOMAIN p /\ r[i] = p[i] /\ p[i] \in Range(p)
    BY <1>6, <2>1, <2>2 DEF Once, Apart
  <2>3. CASE i - m \in DOMAIN q /\ r[i] = q[i - m] /\ q[i - m] \in Range(q) /\ i \in Int
    <3>1. CASE j \in DOMAIN p /\ r[j] = p[j] /\ p[j] \in Range(p)
      BY <1>6, <2>3, <3>1 DEF Apart
    <3>2. CASE j - m \in DOMAIN q /\ r[j] = q[j - m] /\ j \in Int
      <4>1. i - m = j - m
        BY <1>6, <2>3, <3>2 DEF Once
      <4> QED BY <1>2, <2>3, <3>2, <4>1
    <3> QED BY <2>1, <3>1, <3>2
  <2> QED BY <2>1, <2>2, <2>3
<1> QED BY <1>5, <1>6 DEF Once, r

(* A list put together of parts.                                           *)
PartsOnce(qs, n) == /\ \A i \in 1..n : Once(qs[i])
                    /\ \A i, j \in 1..n : i < j => Apart(qs[i], qs[j])

LEMMA OnceFlattened ==
  ASSUME NEW qs, Listed(qs), \A i \in DOMAIN qs : Listed(qs[i])
  PROVE  Once(FlattenSeq(qs)) <=> PartsOnce(qs, Len(qs))
<1> DEFINE N == Len(qs)
<1>1. N \in Nat /\ DOMAIN qs = 1..N
  BY ListBasics
<1>2. CASE N = 0
  <2>1. FlattenSeq(qs) = qs /\ DOMAIN qs = {}
    BY <1>1, <1>2 DEF FlattenSeq
  <2> QED BY <1>2, <2>1 DEF Once, PartsOnce
<1>3. CASE N # 0
  <2>1. PICK flatten : Flattens(flatten, qs)
    BY <1>3, Flattening
  <2> DEFINE Joined(n) == UNION {Range(qs[i]) : i \in 1..n}
             Are(n) == /\ Listed(flatten[n]) /\ Range(flatten[n]) = Joined(n)
                       /\ Once(flatten[n]) <=> PartsOnce(qs, n)
             T == {n \in Nat : n < N => Are(n + 1)}
  <2>2. 0 \in T
    <3>1. flatten[1] = qs[1] /\ Listed(qs[1])
      BY <1>1, <1>3, <2>1 DEF Flattens
    <3>2. Joined(1) = Range(qs[1])
      OBVIOUS
    <3>3. PartsOnce(qs, 1) <=> Once(qs[1])
      BY DEF PartsOnce
    <3>4. Are(1)
      BY <3>1, <3>2, <3>3
    <3> QED BY <3>4
  <2>3. ASSUME NEW n \in Nat, n \in T PROVE n + 1 \in T
    <3> SUFFICES ASSUME n + 1 < N PROVE Are(n + 1 + 1)
      OBVIOUS
    <3> DEFINE k == n + 1
    <3>1. k \in Nat /\ k \in 1..N /\ k + 1 \in 1..N /\ k + 1 # 1 /\ (k + 1) - 1 = k
      BY <1>1
    <3>2. flatten[k + 1] = flatten[k] \o qs[k + 1]
      BY <3>1, <2>1 DEF Flattens
    <3>3. Are(k) /\ Listed(qs[k + 1])
      BY <2>3, <1>1, <3>1
    <3> HIDE DEF k
    <3>4. 1..(k + 1) = (1..k) \union {k + 1}
      BY <3>1
    <3>5. Joined(k + 1) = Joined(k) \union Range(qs[k + 1])
      BY <3>4
    <3>6. Apart(flatten[k], qs[k + 1]) <=> \A i \in 1..k : Apart(qs[i], qs[k + 1])
      BY <3>3 DEF Apart
    <3>7. PartsOnce(qs, k + 1) <=> /\ PartsOnce(qs, k) /\ Once(qs[k + 1])
                                   /\ \A i \in 1..k : Apart(qs[i], qs[k + 1])
      <4>1. \A i \in 1..k : i < k + 1 /\ ~(k + 1 < i)
        BY <3>1
      <4> QED BY <3>1, <3>4, <4>1 DEF PartsOnce
    <3> HIDE DEF Joined
    <3>8. LET r == flatten[k] \o qs[k + 1]
          IN /\ Listed(r) /\ Range(r) = Range(flatten[k]) \union Range(qs[k + 1])
             /\ Once(r) <=> Once(flatten[k]) /\ Once(qs[k + 1]) /\ Apart(flatten[k], qs[k + 1])
      BY <3>3, ListJoined, OnceJoined
    <3>9. Are(k + 1)
      BY <3>2, <3>3, <3>5, <3>6, <3>7, <3>8
    <3> QED BY <3>9 DEF k
  <2>4. N - 1 \in T
    <3> HIDE DEF T
    <3> QED BY <1>1, <1>3, <2>2, <2>3, Induction
  <2>5. Are(N)
    <3>1. N - 1 \in Nat /\ N - 1 < N /\ (N - 1) + 1 = N
      BY <1>1, <1>3
    <3> HIDE DEF Are
    <3> QED BY <2>4, <3>1
  <2> QED BY <2>1, <2>5 DEF Flattens
<1> QED BY <1>2, <1>3

(* The same for parts made from the elements of a list.                    *)
LEMMA OnceSpread ==
  ASSUME NEW p, Listed(p), NEW q, q = [i \in DOMAIN p |-> q[i]], \A i \in DOMAIN p : Listed(q[i])
  PROVE  Once(FlattenSeq(q)) <=> /\ \A i \in DOMAIN p : Once(q[i])
                                 /\ \A i, j \in DOMAIN p : i # j => Apart(q[i], q[j])
<1>1. Listed(q) /\ DOMAIN q = DOMAIN p
  BY ListMade
<1>2. DOMAIN q = 1..Len(q) /\ Len(q) \in Nat
  BY <1>1, ListBasics
<1>3. Once(FlattenSeq(q)) <=> PartsOnce(q, Len(q))
  BY <1>1, OnceFlattened
<1>4. \A i, j : Apart(q[i], q[j]) <=> Apart(q[j], q[i])
  BY DEF Apart
<1>5. \A i, j \in 1..Len(q) : (i # j <=> i < j \/ j < i) /\ ~(i < i)
  BY <1>2
<1> QED BY <1>1, <1>2, <1>3, <1>4, <1>5 DEF PartsOnce

(* New elements in one of the parts.                                       *)
LEMMA OnceGrown ==
  ASSUME NEW p, Listed(p), NEW a, a = [i \in DOMAIN p |-> a[i]], \A i \in DOMAIN p : Listed(a[i]),
         NEW q, Listed(q), DOMAIN q = DOMAIN p,
         NEW b, b = [i \in DOMAIN q |-> b[i]], \A i \in DOMAIN q : Listed(b[i]),
         NEW n \in DOMAIN p, NEW new, Range(b[n]) = Range(a[n]) \union Range(new),
         \A i \in DOMAIN p : i # n => b[i] = a[i]
  PROVE  /\ Range(FlattenSeq(b)) = Range(FlattenSeq(a)) \union Range(new)
         /\ Once(FlattenSeq(a)) /\ Apart(FlattenSeq(a), new) /\ (Once(a[n]) /\ Apart(a[n], new) => Once(b[n]))
            => Once(FlattenSeq(b))
<1>1. Range(FlattenSeq(a)) = UNION {Range(a[i]) : i \in DOMAIN p}
  BY ListSpread
<1>2. Range(FlattenSeq(b)) = UNION {Range(b[i]) : i \in DOMAIN p}
  BY ListSpread
<1>3. Range(FlattenSeq(b)) = Range(FlattenSeq(a)) \union Range(new)
  <2>1. \A i \in DOMAIN p : Range(a[i]) \subseteq Range(b[i]) /\ Range(b[i]) \subseteq Range(a[i]) \union Range(new)
    OBVIOUS
  <2>2. Range(new) \subseteq Range(b[n])
    OBVIOUS
  <2> QED BY <1>1, <1>2, <2>1, <2>2
<1>4. ASSUME Once(FlattenSeq(a)), Apart(FlattenSeq(a), new),
             Once(a[n]) /\ Apart(a[n], new) => Once(b[n])
      PROVE  Once(FlattenSeq(b))
  <2>1. /\ \A i \in DOMAIN p : Once(a[i])
        /\ \A i, j \in DOMAIN p : i # j => Apart(a[i], a[j])
    BY <1>4, OnceSpread
  <2>2. \A i \in DOMAIN p : Range(a[i]) \subseteq Range(FlattenSeq(a))
    BY <1>1
  <2>3. \A i \in DOMAIN p : Apart(a[i], new)
    BY <1>4, <2>2 DEF Apart
  <2>4. \A i \in DOMAIN p : Once(b[i])
    BY <1>4, <2>1, <2>3
  <2>5. ASSUME NEW i \in DOMAIN p, NEW j \in DOMAIN p, i # j PROVE Apart(b[i], b[j])
    <3>1. CASE i = n
      BY <2>1, <2>3, <2>5, <3>1 DEF Apart
    <3>2. CASE j = n
      BY <2>1, <2>3, <2>5, <3>2 DEF Apart
    <3>3. CASE i # n /\ j # n
      BY <2>1, <2>5, <3>3
    <3> QED BY <3>1, <3>2, <3>3
  <2> QED BY <2>4, <2>5, OnceSpread
<1> QED BY <1>3, <1>4

(* What is kept of a list comes from growing places of it.                 *)
Places(f, p, q, I) ==
  /\ Listed(p)
  /\ \A i \in DOMAIN p : f[i] \in DOMAIN q /\ f[i] \in I /\ p[i] = q[f[i]]
  /\ \A i, j \in DOMAIN p : i < j => f[i] < f[j]

LEMMA PickedPlaces ==
  ASSUME NEW q, Listed(q), NEW I
  PROVE  \E f : Places(f, Picked(q, I), q, I)
<1> DEFINE N == Len(q)
<1>1. N \in Nat /\ DOMAIN q = 1..N
  BY ListBasics
<1>2. PICK picked : Picks(picked, q, I)
  BY Picking
<1> DEFINE Upto(f, n) == Places(f, picked[n], q, I) /\ \A i \in DOMAIN picked[n] : f[i] <= n
           T == {n \in Nat : n <= N => \E f : Upto(f, n)}
<1>3. 0 \in T
  <2>1. picked[0] = <<>> /\ DOMAIN <<>> = {} /\ Listed(<<>>)
    BY <1>2, ListBasics DEF Picks
  <2>2. Upto(<<>>, 0)
    BY <2>1 DEF Places
  <2> QED BY <2>2
<1>4. ASSUME NEW n \in Nat, n \in T PROVE n + 1 \in T
  <2> SUFFICES ASSUME n + 1 <= N PROVE \E f : Upto(f, n + 1)
    OBVIOUS
  <2>1. n <= N /\ n + 1 \in 1..N /\ (n + 1) - 1 = n
    BY <1>1
  <2>2. PICK f : Upto(f, n)
    BY <1>4, <2>1
  <2>3. picked[n + 1] = IF n + 1 \in I THEN Append(picked[n], q[n + 1]) ELSE picked[n]
    BY <1>2, <2>1 DEF Picks
  <2> DEFINE p == picked[n]
             m == Len(p)
  <2>4. Listed(p) /\ m \in Nat /\ DOMAIN p = 1..m
    BY <2>2, ListBasics DEF Places
  <2>5. CASE n + 1 \in I
    <3> DEFINE r == Append(p, q[n + 1])
               g == [i \in 1..(m + 1) |-> IF i = m + 1 THEN n + 1 ELSE f[i]]
    <3>1. Listed(r)
      BY <2>4, ListAppended
    <3>2. DOMAIN r = 1..(m + 1) /\ r[m + 1] = q[n + 1] /\ \A i \in 1..m : r[i] = p[i]
      <4> DEFINE S == Range(p) \union {q[n + 1]}
      <4>1. p \in Seq(S) /\ q[n + 1] \in S
        BY <2>4 DEF Listed
      <4> HIDE DEF S, p
      <4> QED BY <2>4, <4>1
    <3> HIDE DEF r, p, m
    <3>3. \A i \in 1..m : f[i] \in 1..N /\ f[i] \in I /\ p[i] = q[f[i]] /\ f[i] <= n /\ i # m + 1 /\ g[i] = f[i]
      BY <1>1, <2>2, <2>4 DEF Places, p
    <3>4. g[m + 1] = n + 1 /\ m + 1 \in 1..(m + 1)
      BY <2>4
    <3>5. \A i, j \in 1..m : i < j => f[i] < f[j]
      BY <2>2, <2>4 DEF Places, p
    <3> HIDE DEF g
    <3>6. \A i \in 1..(m + 1) : g[i] \in 1..N /\ g[i] \in I /\ r[i] = q[g[i]] /\ g[i] <= n + 1
      BY <1>1, <2>1, <2>4, <2>5, <3>2, <3>3, <3>4
    <3>7. \A i, j \in 1..(m + 1) : i < j => g[i] < g[j]
      BY <1>1, <2>1, <2>4, <3>3, <3>4, <3>5
    <3>8. Places(g, r, q, I) /\ \A i \in DOMAIN r : g[i] <= n + 1
      BY <1>1, <3>1, <3>2, <3>6, <3>7 DEF Places
    <3>9. picked[n + 1] = r
      BY <2>3, <2>5 DEF r, p
    <3> QED BY <3>8, <3>9
  <2>6. CASE n + 1 \notin I
    <3>1. \A i \in DOMAIN p : f[i] <= n + 1
      BY <1>1, <2>1, <2>2 DEF Places
    <3> QED BY <2>2, <2>3, <2>6, <3>1
  <2> QED BY <2>5, <2>6
<1>5. N \in T
  <2> HIDE DEF T
  <2> QED BY <1>1, <1>3, <1>4, Induction
<1> QED BY <1>1, <1>2, <1>5 DEF Picks

(* A tree in which no site identifier comes twice.                         *)
OnceIn(q) == /\ \A i \in DOMAIN q : Once(RegionSites(q[i]))
             /\ \A i, j \in DOMAIN q : i # j => Apart(RegionSites(q[i]), RegionSites(q[j]))

LEMMA UniqueOnce ==
  ASSUME NEW B, NEW t, IsTree(B, t.core.regions)
  PROVE  UniqueSites(t) <=> OnceIn(t.core.regions)
<1> DEFINE p == t.core.regions
           q == [i \in DOMAIN p |-> RegionSites(p[i])]
<1>1. AllSites(t.core) = FlattenSeq(q)
  BY DEF AllSites, Map
<1>2. Listed(p) /\ \A i \in DOMAIN p : Listed(q[i])
  BY RegionWalk DEF IsTree
<1>3. q = [i \in DOMAIN p |-> q[i]] /\ \A i \in DOMAIN p : q[i] = RegionSites(p[i])
  OBVIOUS
<1> HIDE DEF q
<1>4. Once(FlattenSeq(q)) <=> OnceIn(p)
  <2>1. Once(FlattenSeq(q)) <=> /\ \A i \in DOMAIN p : Once(q[i])
                                /\ \A i, j \in DOMAIN p : i # j => Apart(q[i], q[j])
    BY <1>2, <1>3, OnceSpread
  <2> QED BY <1>3, <2>1 DEF OnceIn
<1>5. Listed(AllSites(t.core))
  BY SiteWalk
<1>6. UniqueSites(t) <=> Once(AllSites(t.core))
  BY <1>5, OnceCounted DEF UniqueSites, SiteIds
<1> QED BY <1>1, <1>4, <1>6

(* The sites of a city, of a country and of a region, put together.        *)
SitesIn(c) == [k \in DOMAIN c.cities |-> c.cities[k].sites]

SitesUnder(r) == [j \in DOMAIN r.countries |-> CitySites(r.countries[j])]

LEMMA CountryParts ==
  ASSUME NEW B, NEW c, IsCountry(B, c)
  PROVE  /\ CitySites(c) = FlattenSeq(SitesIn(c)) /\ Listed(c.cities)
         /\ SitesIn(c) = [k \in DOMAIN c.cities |-> SitesIn(c)[k]]
         /\ \A k \in DOMAIN c.cities : Listed(SitesIn(c)[k])
<1>1. CitySites(c) = FlattenSeq(SitesIn(c))
  BY DEF CitySites, Map, SitesIn
<1> QED BY <1>1 DEF SitesIn, IsCountry, IsCity

LEMMA RegionParts ==
  ASSUME NEW B, NEW r, IsRegion(B, r)
  PROVE  /\ RegionSites(r) = FlattenSeq(SitesUnder(r)) /\ Listed(r.countries)
         /\ SitesUnder(r) = [j \in DOMAIN r.countries |-> SitesUnder(r)[j]]
         /\ \A j \in DOMAIN r.countries : Listed(SitesUnder(r)[j])
<1>1. RegionSites(r) = FlattenSeq(SitesUnder(r))
  BY DEF RegionSites, Map, SitesUnder
<1>2. \A j \in DOMAIN r.countries : Listed(CitySites(r.countries[j]))
  BY CityWalk DEF IsRegion
<1> QED BY <1>1, <1>2 DEF SitesUnder, IsRegion

(* A country with one city, and a region with one country.                 *)
LEMMA OnePart ==
  ASSUME NEW x, Listed(x)
  PROVE  Range(FlattenSeq(<<x>>)) = Range(x) /\ (Once(FlattenSeq(<<x>>)) <=> Once(x))
<1> DEFINE q == <<x>>
<1>1. Listed(q) /\ DOMAIN q = {1} /\ q[1] = x /\ q = [i \in DOMAIN q |-> q[i]]
  BY ListBasics
<1> HIDE DEF q
<1>2. \A i \in DOMAIN q : Listed(q[i])
  BY <1>1
<1>3. Range(FlattenSeq(q)) = UNION {Range(q[i]) : i \in DOMAIN q}
  BY <1>1, <1>2, ListSpread
<1>4. Once(FlattenSeq(q)) <=> /\ \A i \in DOMAIN q : Once(q[i])
                              /\ \A i, j \in DOMAIN q : i # j => Apart(q[i], q[j])
  BY <1>1, <1>2, OnceSpread
<1> QED BY <1>1, <1>3, <1>4 DEF q

(* The sites of b are those of a and new ones, still each once.            *)
Gains(a, b, new) == /\ Listed(b) /\ Range(b) = Range(a) \union Range(new)
                    /\ Once(a) /\ Once(new) /\ Apart(a, new) => Once(b)

(* The sites of a country made up for new ones.                            *)
LEMMA MadeUp ==
  ASSUME NEW B, NEW c, IsCountry(B, c), NEW ct, IsCity(B, ct), NEW new, ct.sites = new
  PROVE  LET d == [c EXCEPT !.cities = <<ct>>]
         IN Range(CitySites(d)) = Range(new) /\ (Once(CitySites(d)) <=> Once(new))
<1> DEFINE d == [c EXCEPT !.cities = <<ct>>]
<1>1. d.cities = <<ct>>
  BY DEF IsCountry
<1> HIDE DEF d
<1>2. CitySites(d) = FlattenSeq(<<new>>)
  BY <1>1 DEF CitySites, Map
<1> QED BY <1>2, OnePart DEF IsCity, d

LEMMA CountryGains ==
  ASSUME NEW B, NEW c, IsCountry(B, c), NEW new, Listed(new), \A i \in DOMAIN new : IsSite(B, new[i]), NEW id
  PROVE  Gains(CitySites(c), CitySites(PutInCountry(c, new, id)), new)
<1>0. Listed(CitySites(PutInCountry(c, new, id)))
  BY CountryPut, CityWalk
<1>1. CASE c.cities = <<>>
  <2> DEFINE ct == UnassignedCity(id, new)
  <2>1. IsCity(B, ct) /\ ct.sites = new
    BY DEF UnassignedCity, IsCity
  <2>2. PutInCountry(c, new, id) = [c EXCEPT !.cities = <<ct>>]
    BY <1>1 DEF PutInCountry
  <2> HIDE DEF ct
  <2>3. Range(CitySites(c)) = {}
    BY <1>1, CityWalk
  <2> QED BY <1>0, <2>1, <2>2, <2>3, MadeUp DEF Gains
<1>2. CASE c.cities # <<>>
  <2> DEFINE ct == PutInCity(c.cities[1], new)
             q == [c.cities EXCEPT ![1] = ct]
             d == [c EXCEPT !.cities = q]
             a == SitesIn(c)
             b == SitesIn(d)
  <2>1. 1 \in DOMAIN c.cities /\ IsCity(B, c.cities[1])
    BY <1>2, ListBasics DEF IsCountry
  <2>2. PutInCountry(c, new, id) = d
    BY <1>2 DEF PutInCountry
  <2>3. IsCity(B, ct) /\ CityKept(c.cities[1], ct)
    BY <2>1, SitesAdded
  <2>4. ct.sites = c.cities[1].sites \o new
    BY <2>1 DEF PutInCity, IsCity
  <2> HIDE DEF ct
  <2>5. \A k \in DOMAIN c.cities : IsCity(B, q[k]) /\ CityKept(c.cities[k], q[k])
    BY <2>1, <2>3, KeptAll DEF IsCountry
  <2>6. /\ q = [k \in DOMAIN c.cities |-> q[k]] /\ DOMAIN q = DOMAIN c.cities /\ q[1] = ct
        /\ \A k \in DOMAIN c.cities : k # 1 => q[k] = c.cities[k]
    BY <2>1
  <2> HIDE DEF q
  <2>7. IsCountry(B, d) /\ d.cities = q
    <3>1. IsCountry(B, d)
      BY <2>5, <2>6, CountryMade
    <3> QED BY <3>1 DEF IsCountry
  <2> HIDE DEF d
  <2>8. /\ CitySites(d) = FlattenSeq(b) /\ Listed(q) /\ b = [k \in DOMAIN q |-> b[k]]
        /\ \A k \in DOMAIN q : Listed(b[k])
    BY <2>7, CountryParts
  <2>9. /\ CitySites(c) = FlattenSeq(a) /\ Listed(c.cities) /\ a = [k \in DOMAIN c.cities |-> a[k]]
        /\ \A k \in DOMAIN c.cities : Listed(a[k])
    BY CountryParts
  <2>10. /\ a[1] = c.cities[1].sites /\ b[1] = ct.sites
         /\ \A k \in DOMAIN c.cities : k # 1 => b[k] = a[k]
    BY <2>1, <2>6, <2>7 DEF SitesIn
  <2> HIDE DEF a, b
  <2>11. Range(b[1]) = Range(a[1]) \union Range(new) /\ (Once(b[1]) <=> Once(a[1]) /\ Once(new) /\ Apart(a[1], new))
    <3>1. Listed(a[1]) /\ b[1] = a[1] \o new
      BY <2>1, <2>4, <2>9, <2>10
    <3> QED BY <3>1, ListJoined, OnceJoined
  <2>12. /\ Range(FlattenSeq(b)) = Range(FlattenSeq(a)) \union Range(new)
         /\ Once(FlattenSeq(a)) /\ Apart(FlattenSeq(a), new) /\ (Once(a[1]) /\ Apart(a[1], new) => Once(b[1]))
            => Once(FlattenSeq(b))
    BY <2>1, <2>6, <2>8, <2>9, <2>10, <2>11, OnceGrown
  <2> QED BY <1>0, <2>2, <2>8, <2>9, <2>11, <2>12 DEF Gains
<1> QED BY <1>1, <1>2

(* Sites put into a region are the only ones it gains, and they are all    *)
(* that changes in it.                                                     *)
SameButSites(a, b) == [b EXCEPT !.countries = <<>>] = [a EXCEPT !.countries = <<>>]

LEMMA PutGains ==
  ASSUME NEW B, NEW r, IsRegion(B, r), NEW new, Listed(new), \A i \in DOMAIN new : IsSite(B, new[i]), NEW id
  PROVE  /\ Gains(RegionSites(r), RegionSites(PutSites(r, new, id)), new)
         /\ SameButSites(r, PutSites(r, new, id))
         /\ RegionKey(PutSites(r, new, id)) = RegionKey(r)
<1> DEFINE put == PutSites(r, new, id)
<1>1. IsRegion(B, put)
  BY PutKept
<1>2. PICK p : put = [r EXCEPT !.countries = p]
  BY DEF PutSites
<1>3. SameButSites(r, put) /\ RegionKey(put) = RegionKey(r) /\ put.countries = p
  BY <1>2 DEF SameButSites, RegionKey, IsRegion
<1>4. CASE r.countries = <<>>
  <2> DEFINE ct == UnassignedCity(id + 1, new)
             c == UnassignedCountry(id, id + 1, new)
  <2>1. c.cities = <<ct>> /\ ct.sites = new /\ put.countries = <<c>>
    BY <1>4 DEF UnassignedCountry, UnassignedCity, PutSites, IsRegion
  <2> HIDE DEF ct, c, put
  <2>2. CitySites(c) = FlattenSeq(<<new>>)
    BY <2>1 DEF CitySites, Map
  <2>3. Listed(CitySites(c))
    <3>1. c = <<c>>[1] /\ 1 \in DOMAIN <<c>>
      BY ListBasics
    <3>2. IsCountry(B, c)
      BY <1>1, <2>1, <3>1 DEF IsRegion
    <3> QED BY <3>2, CityWalk
  <2>4. RegionSites(put) = FlattenSeq(<<CitySites(c)>>)
    BY <2>1 DEF RegionSites, Map
  <2>5. Range(RegionSites(put)) = Range(new) /\ (Once(RegionSites(put)) <=> Once(new))
    BY <2>2, <2>3, <2>4, OnePart
  <2>6. Range(RegionSites(r)) = {}
    BY <1>4, RegionWalk
  <2> QED BY <1>1, <1>3, <2>5, <2>6, RegionWalk DEF Gains, put
<1>5. CASE r.countries # <<>>
  <2> DEFINE c == PutInCountry(r.countries[1], new, id)
             q == [r.countries EXCEPT ![1] = c]
             a == SitesUnder(r)
             b == SitesUnder(put)
  <2>1. 1 \in DOMAIN r.countries /\ IsCountry(B, r.countries[1])
    BY <1>5, ListBasics DEF IsRegion
  <2>2. Gains(CitySites(r.countries[1]), CitySites(c), new)
    BY <2>1, CountryGains
  <2>3. put.countries = q
    BY <1>5 DEF PutSites, IsRegion
  <2> HIDE DEF c, put
  <2>4. /\ DOMAIN q = DOMAIN r.countries /\ q[1] = c
        /\ \A j \in DOMAIN r.countries : j # 1 => q[j] = r.countries[j]
    BY <2>1
  <2> HIDE DEF q
  <2>5. /\ RegionSites(put) = FlattenSeq(b) /\ Listed(q) /\ b = [k \in DOMAIN q |-> b[k]]
        /\ \A k \in DOMAIN q : Listed(b[k])
    BY <1>1, <2>3, RegionParts
  <2>6. /\ RegionSites(r) = FlattenSeq(a) /\ Listed(r.countries) /\ a = [k \in DOMAIN r.countries |-> a[k]]
        /\ \A k \in DOMAIN r.countries : Listed(a[k])
    BY RegionParts
  <2>7. /\ Gains(a[1], b[1], new)
        /\ \A k \in DOMAIN r.countries : k # 1 => b[k] = a[k]
    BY <2>1, <2>2, <2>3, <2>4 DEF SitesUnder
  <2> HIDE DEF a, b
  <2>8. /\ Range(FlattenSeq(b)) = Range(FlattenSeq(a)) \union Range(new)
        /\ Once(FlattenSeq(a)) /\ Apart(FlattenSeq(a), new) /\ (Once(a[1]) /\ Apart(a[1], new) => Once(b[1]))
            => Once(FlattenSeq(b))
    BY <2>1, <2>4, <2>5, <2>6, <2>7, OnceGrown DEF Gains
  <2>9. Listed(RegionSites(put))
    BY <1>1, RegionWalk
  <2>10. Gains(RegionSites(r), RegionSites(put), new)
    BY <2>5, <2>6, <2>7, <2>8, <2>9 DEF Gains
  <2> QED BY <1>3, <2>10 DEF put
<1> QED BY <1>4, <1>5

(* What is picked from a list comes once if it does there.                 *)
LEMMA OncePicked ==
  ASSUME NEW q, Listed(q), Once(q), NEW I
  PROVE  Once(Picked(q, I))
<1> DEFINE p == Picked(q, I)
<1>1. PICK f : Places(f, p, q, I)
  BY PickedPlaces
<1>2. DOMAIN p = 1..Len(p) /\ Len(p) \in Nat /\ DOMAIN q = 1..Len(q) /\ Len(q) \in Nat
  BY <1>1, ListBasics DEF Places
<1> HIDE DEF p
<1>3. ASSUME NEW i \in DOMAIN p, NEW j \in DOMAIN p, p[i].id = p[j].id PROVE i = j
  <2>1. f[i] = f[j] /\ f[i] \in Int
    BY <1>1, <1>2, <1>3 DEF Places, Once
  <2>2. ~(i < j) /\ ~(j < i)
    BY <1>1, <2>1 DEF Places
  <2> QED BY <1>2, <2>2
<1> QED BY <1>3 DEF Once, p

-----------------------------------------------------------------------------
(* A merge adds.  Regions stay where they are with the fields and the      *)
(* sites they have; sites go into one region at most, if the regions there *)
(* were go by keys of their own.                                           *)
Adds(p, q) == \A i \in DOMAIN p :
                /\ i \in DOMAIN q /\ SameButSites(p[i], q[i])
                /\ Range(RegionSites(p[i])) \subseteq Range(RegionSites(q[i]))

KeyedOnce(q, keys) ==
  \A i, j \in DOMAIN q : RegionKey(q[i]) \in keys /\ RegionKey(q[i]) = RegionKey(q[j]) => i = j

Somewhere(x, q) == \E i \in DOMAIN q : x \in Range(RegionSites(q[i]))

(* An incoming region whose key is not known is one more.                  *)
LEMMA RegionJoins ==
  ASSUME NEW B, NEW q, IsTree(B, q), NEW in, NEW keys, RegionKey(in) \notin keys
  PROVE  LET m == Append(q, in)
         IN /\ Adds(q, m)
            /\ KeyedOnce(q, keys) => KeyedOnce(m, keys)
            /\ \A x : Somewhere(x, m) => x \in Range(RegionSites(in)) \/ Somewhere(x, q)
            /\ /\ OnceIn(q) /\ Once(RegionSites(in))
               /\ \A i \in DOMAIN q : Apart(RegionSites(q[i]), RegionSites(in))
               => OnceIn(m)
<1> DEFINE m == Append(q, in)
           n == Len(q)
           S == Range(q) \union {in}
<1>1. q \in Seq(S) /\ in \in S
  BY DEF IsTree, Listed
<1> HIDE DEF S
<1>2. /\ n \in Nat /\ DOMAIN q = 1..n /\ DOMAIN m = 1..(n + 1)
      /\ (\A i \in 1..n : m[i] = q[i]) /\ m[n + 1] = in
  BY <1>1
<1> HIDE DEF m, n
<1>3. \A i \in DOMAIN m : \/ i \in DOMAIN q /\ m[i] = q[i] /\ i # n + 1
                          \/ i = n + 1 /\ m[i] = in
  BY <1>2
<1>4. \A i \in DOMAIN q : i \in DOMAIN m /\ m[i] = q[i]
  BY <1>2
<1>5. Adds(q, m)
  BY <1>4 DEF Adds, SameButSites
<1>6. KeyedOnce(q, keys) => KeyedOnce(m, keys)
  BY <1>3 DEF KeyedOnce
<1>7. \A x : Somewhere(x, m) => x \in Range(RegionSites(in)) \/ Somewhere(x, q)
  BY <1>3 DEF Somewhere
<1>8. ASSUME OnceIn(q), Once(RegionSites(in)), \A i \in DOMAIN q : Apart(RegionSites(q[i]), RegionSites(in))
      PROVE  OnceIn(m)
  <2>1. \A i \in DOMAIN m : Once(RegionSites(m[i]))
    BY <1>3, <1>8 DEF OnceIn
  <2>2. \A i \in DOMAIN q : Apart(RegionSites(in), RegionSites(q[i]))
    BY <1>8 DEF Apart
  <2>3. \A i, j \in DOMAIN m : i # j => Apart(RegionSites(m[i]), RegionSites(m[j]))
    BY <1>3, <1>8, <2>2 DEF OnceIn
  <2> QED BY <2>1, <2>3 DEF OnceIn
<1> QED BY <1>5, <1>6, <1>7, <1>8 DEF m

(* New sites of a known key go into the region that has the key.           *)
LEMMA SitesJoin ==
  ASSUME NEW B, NEW q, IsTree(B, q), NEW new, Listed(new), \A i \in DOMAIN new : IsSite(B, new[i]),
         NEW key, NEW keys, key \in keys, NEW next
  PROVE  LET m == Into(q, key, new, next)
         IN /\ Adds(q, m)
            /\ KeyedOnce(q, keys) => KeyedOnce(m, keys)
            /\ \A x : Somewhere(x, m) => x \in Range(new) \/ Somewhere(x, q)
            /\ /\ OnceIn(q) /\ KeyedOnce(q, keys) /\ Once(new)
               /\ \A i \in DOMAIN q : Apart(RegionSites(q[i]), new)
               => OnceIn(m)
<1> DEFINE m == Into(q, key, new, next)
           G(i) == IF RegionKey(q[i]) = key THEN PutSites(q[i], new, next + 2 * i) ELSE q[i]
<1>1. CASE new = <<>>
  <2>1. m = q
    BY <1>1 DEF Into
  <2>2. Adds(q, q)
    BY DEF Adds, SameButSites
  <2> QED BY <2>1, <2>2
<1>2. CASE new # <<>>
  <2>1. m = [i \in DOMAIN q |-> G(i)]
    BY <1>2 DEF Into
  <2>2. ASSUME NEW i \in DOMAIN q
        PROVE /\ SameButSites(q[i], G(i)) /\ RegionKey(G(i)) = RegionKey(q[i])
              /\ RegionKey(q[i]) = key => Gains(RegionSites(q[i]), RegionSites(G(i)), new)
              /\ RegionKey(q[i]) # key => G(i) = q[i]
    <3>1. IsRegion(B, q[i])
      BY DEF IsTree
    <3>2. SameButSites(q[i], q[i])
      BY DEF SameButSites
    <3> QED BY <3>1, <3>2, PutGains
  <2>3. DOMAIN m = DOMAIN q /\ \A i \in DOMAIN q : m[i] = G(i)
    BY <2>1
  <2> HIDE DEF m, G
  <2>4. \A i \in DOMAIN q :
          /\ Range(RegionSites(q[i])) \subseteq Range(RegionSites(m[i]))
          /\ Range(RegionSites(m[i])) \subseteq Range(RegionSites(q[i])) \union Range(new)
    BY <2>2, <2>3 DEF Gains
  <2>5. Adds(q, m)
    BY <2>2, <2>3, <2>4 DEF Adds
  <2>6. KeyedOnce(q, keys) => KeyedOnce(m, keys)
    BY <2>2, <2>3 DEF KeyedOnce
  <2>7. \A x : Somewhere(x, m) => x \in Range(new) \/ Somewhere(x, q)
    BY <2>3, <2>4 DEF Somewhere
  <2>8. ASSUME OnceIn(q), KeyedOnce(q, keys), Once(new), \A i \in DOMAIN q : Apart(RegionSites(q[i]), new)
        PROVE  OnceIn(m)
    <3>1. \A i \in DOMAIN m : Once(RegionSites(m[i]))
      BY <2>2, <2>3, <2>8 DEF OnceIn, Gains
    <3>2. ASSUME NEW i \in DOMAIN q, NEW j \in DOMAIN q, i # j
          PROVE  Apart(RegionSites(m[i]), RegionSites(m[j]))
      <4>1. ~(RegionKey(q[i]) = key /\ RegionKey(q[j]) = key)
        BY <2>8, <3>2 DEF KeyedOnce
      <4>2. Apart(RegionSites(q[i]), RegionSites(q[j])) /\ Apart(RegionSites(q[i]), new)
            /\ Apart(RegionSites(q[j]), new)
        BY <2>8, <3>2 DEF OnceIn
      <4>3. CASE RegionKey(q[i]) # key
        <5>1. m[i] = q[i]
          BY <2>2, <2>3, <4>3
        <5> QED BY <2>4, <4>2, <5>1 DEF Apart
      <4>4. CASE RegionKey(q[j]) # key
        <5>1. m[j] = q[j]
          BY <2>2, <2>3, <4>4
        <5> QED BY <2>4, <4>2, <5>1 DEF Apart
      <4> QED BY <4>1, <4>3, <4>4
    <3> QED BY <2>3, <3>1, <3>2 DEF OnceIn
  <2> QED BY <2>5, <2>6, <2>7, <2>8 DEF m
<1> QED BY <1>1, <1>2

(* One incoming region.                                                    *)
LEMMA MergeAdds ==
  ASSUME NEW B, NEW acc, IsMerged(B, acc), NEW in, IsRegion(B, in), NEW keys, NEW next
  PROVE  LET m == MergeRegion(acc, in, keys, next).regions
         IN /\ Adds(acc.regions, m)
            /\ KeyedOnce(acc.regions, keys) => KeyedOnce(m, keys)
            /\ \A x : Somewhere(x, m) => x \in Range(RegionSites(in)) \/ Somewhere(x, acc.regions)
            /\ /\ OnceIn(acc.regions) /\ KeyedOnce(acc.regions, keys) /\ Once(RegionSites(in))
               /\ \A i \in DOMAIN acc.regions : Apart(RegionSites(acc.regions[i]), RegionSites(in))
               => OnceIn(m)
<1> DEFINE q == acc.regions
           m == MergeRegion(acc, in, keys, next).regions
<1>1. IsTree(B, q) /\ "regions" \in DOMAIN acc
  BY DEF IsMerged
<1>2. CASE RegionKey(in) \notin keys
  <2>1. m = Append(q, in)
    BY <1>1, <1>2 DEF MergeRegion
  <2> HIDE DEF q, m
  <2>2. LET n == Append(q, in)
         IN /\ Adds(q, n)
            /\ KeyedOnce(q, keys) => KeyedOnce(n, keys)
            /\ \A x : Somewhere(x, n) => x \in Range(RegionSites(in)) \/ Somewhere(x, q)
            /\ /\ OnceIn(q) /\ Once(RegionSites(in))
               /\ \A i \in DOMAIN q : Apart(RegionSites(q[i]), RegionSites(in))
               => OnceIn(n)
    BY <1>1, <1>2, RegionJoins
  <2> QED BY <2>1, <2>2 DEF q, m
<1>3. CASE RegionKey(in) \in keys
  <2> DEFINE new == NewSites(in, acc.seen).sites
             key == RegionKey(in)
             n == Into(q, key, new, next)
  <2>1. m = n
    BY <1>3 DEF MergeRegion
  <2>2. PICK I : new = Picked(RegionSites(in), I)
    BY DEF NewSites
  <2>3. Listed(new) /\ \A i \in DOMAIN new : IsSite(B, new[i])
    BY <2>2, RegionSitesTyped
  <2>4. Listed(RegionSites(in))
    BY RegionWalk
  <2>5. Range(new) \subseteq Range(RegionSites(in)) /\ (Once(RegionSites(in)) => Once(new))
    BY <2>2, <2>4, OncePicked, ListPicked
  <2>6. \A i \in DOMAIN q : Apart(RegionSites(q[i]), RegionSites(in)) => Apart(RegionSites(q[i]), new)
    BY <2>5 DEF Apart
  <2>7. key \in keys
    BY <1>3
  <2> HIDE DEF new, q, m, key
  <2>8. /\ Adds(q, n)
        /\ KeyedOnce(q, keys) => KeyedOnce(n, keys)
        /\ \A x : Somewhere(x, n) => x \in Range(new) \/ Somewhere(x, q)
        /\ /\ OnceIn(q) /\ KeyedOnce(q, keys) /\ Once(new)
           /\ \A i \in DOMAIN q : Apart(RegionSites(q[i]), new)
           => OnceIn(n)
    BY <1>1, <2>3, <2>7, SitesJoin
  <2> HIDE DEF n
  <2>9. \A x : Somewhere(x, m) => x \in Range(RegionSites(in)) \/ Somewhere(x, q)
    BY <2>1, <2>5, <2>8
  <2>10. OnceIn(q) /\ KeyedOnce(q, keys) /\ Once(RegionSites(in))
         /\ (\A i \in DOMAIN q : Apart(RegionSites(q[i]), RegionSites(in)))
         => OnceIn(m)
    BY <2>1, <2>5, <2>6, <2>8
  <2> QED BY <2>1, <2>8, <2>9, <2>10 DEF q, m
<1> QED BY <1>2, <1>3

LEMMA AddsTwice == \A p, q, m : Adds(p, q) /\ Adds(q, m) => Adds(p, m)
<1> SUFFICES ASSUME NEW p, NEW q, NEW m, Adds(p, q), Adds(q, m), NEW i \in DOMAIN p
             PROVE  /\ i \in DOMAIN m /\ SameButSites(p[i], m[i])
                    /\ Range(RegionSites(p[i])) \subseteq Range(RegionSites(m[i]))
  BY DEF Adds
<1>1. /\ i \in DOMAIN q /\ SameButSites(p[i], q[i])
      /\ Range(RegionSites(p[i])) \subseteq Range(RegionSites(q[i]))
  BY DEF Adds
<1>2. /\ i \in DOMAIN m /\ SameButSites(q[i], m[i])
      /\ Range(RegionSites(q[i])) \subseteq Range(RegionSites(m[i]))
  BY <1>1 DEF Adds
<1> QED BY <1>1, <1>2 DEF SameButSites

(* All of them.                                                            *)
LEMMA TreeAdds ==
  ASSUME NEW B, NEW old, IsTree(B, old), NEW in, IsTree(B, in), NEW keys, NEW next
  PROVE  LET m == MergeInto(old, in, keys, next)
         IN /\ Adds(old, m)
            /\ /\ KeyedOnce(old, keys) /\ OnceIn(old) /\ OnceIn(in)
               /\ \A i \in DOMAIN old, j \in DOMAIN in : Apart(RegionSites(old[i]), RegionSites(in[j]))
               => OnceIn(m)
<1> DEFINE N == Len(in)
           Fit == /\ KeyedOnce(old, keys) /\ OnceIn(old) /\ OnceIn(in)
                  /\ \A i \in DOMAIN old, j \in DOMAIN in : Apart(RegionSites(old[i]), RegionSites(in[j]))
<1>1. N \in Nat /\ DOMAIN in = 1..N /\ Listed(in) /\ \A i \in 1..N : IsRegion(B, in[i])
  BY ListBasics DEF IsTree
<1>2. PICK merged : Merges(merged, old, in, keys, next)
  BY <1>1, Merging
<1> DEFINE Brought(x, n) == Somewhere(x, old) \/ \E j \in 1..n : x \in Range(RegionSites(in[j]))
           Are(n) == /\ IsMerged(B, merged[n]) /\ Adds(old, merged[n].regions)
                     /\ Fit => /\ OnceIn(merged[n].regions) /\ KeyedOnce(merged[n].regions, keys)
                               /\ \A x : Somewhere(x, merged[n].regions) => Brought(x, n)
           T == {n \in Nat : n <= N => Are(n)}
<1>3. 0 \in T
  <2>1. merged[0].regions = old /\ "regions" \in DOMAIN merged[0]
    BY <1>2 DEF Merges
  <2>2. Adds(old, old)
    BY DEF Adds, SameButSites
  <2>3. IsMerged(B, merged[0])
    BY <2>1 DEF IsMerged
  <2>4. Are(0)
    BY <2>1, <2>2, <2>3
  <2> QED BY <2>4
<1>4. ASSUME NEW n \in Nat, n \in T PROVE n + 1 \in T
  <2> SUFFICES ASSUME n + 1 <= N PROVE Are(n + 1)
    OBVIOUS
  <2> DEFINE q == merged[n].regions
             m == merged[n + 1].regions
             new == RegionSites(in[n + 1])
  <2>1. Are(n) /\ n \in 0..N /\ n + 1 \in 1..N
    BY <1>1, <1>4
  <2>2. merged[n + 1] = MergeRegion(merged[n], in[n + 1], keys, next)
    BY <1>2, <2>1 DEF Merges
  <2>3. /\ Adds(q, m)
        /\ KeyedOnce(q, keys) => KeyedOnce(m, keys)
        /\ \A x : Somewhere(x, m) => x \in Range(new) \/ Somewhere(x, q)
        /\ /\ OnceIn(q) /\ KeyedOnce(q, keys) /\ Once(new)
           /\ \A i \in DOMAIN q : Apart(RegionSites(q[i]), new)
           => OnceIn(m)
    BY <1>1, <2>1, <2>2, MergeAdds
  <2>4. IsMerged(B, merged[n + 1])
    BY <1>1, <2>1, <2>2, MergeStep
  <2>5. Adds(old, m)
    BY <2>1, <2>3, AddsTwice
  <2>6. ASSUME Fit PROVE OnceIn(m) /\ KeyedOnce(m, keys) /\ \A x : Somewhere(x, m) => Brought(x, n + 1)
    <3>1. OnceIn(q) /\ KeyedOnce(q, keys) /\ \A x : Somewhere(x, q) => Brought(x, n)
      BY <2>1, <2>6
    <3> HIDE DEF q, m
    <3>2. Once(new)
      BY <1>1, <2>1, <2>6 DEF OnceIn
    <3>3. \A x : Somewhere(x, m) => Brought(x, n + 1)
      <4>1. \A j \in 1..n : j \in 1..(n + 1)
        OBVIOUS
      <4>2. n + 1 \in 1..(n + 1)
        OBVIOUS
      <4>3. \A x : Brought(x, n) => Brought(x, n + 1)
        BY <4>1
      <4>4. \A x \in Range(new) : Brought(x, n + 1)
        BY <4>2
      <4> HIDE DEF Brought
      <4> QED BY <2>3, <3>1, <4>3, <4>4
    <3>4. ASSUME NEW i \in DOMAIN q, NEW x \in Range(RegionSites(q[i])), NEW y \in Range(new) PROVE x.id # y.id
      <4>1. Brought(x, n)
        BY <3>1, <3>4 DEF Somewhere
      <4>2. CASE Somewhere(x, old)
        <5>1. PICK k \in DOMAIN old : x \in Range(RegionSites(old[k]))
          BY <4>2 DEF Somewhere
        <5>2. Apart(RegionSites(old[k]), new)
          BY <1>1, <2>1, <2>6
        <5> QED BY <5>1, <5>2, <3>4 DEF Apart
      <4>3. ASSUME NEW j \in 1..n, x \in Range(RegionSites(in[j])) PROVE x.id # y.id
        <5>1. j \in DOMAIN in /\ n + 1 \in DOMAIN in /\ j # n + 1
          BY <1>1, <2>1
        <5>2. Apart(RegionSites(in[j]), new)
          BY <2>6, <5>1 DEF OnceIn
        <5> QED BY <4>3, <5>2, <3>4 DEF Apart
      <4> QED BY <4>1, <4>2, <4>3
    <3>5. \A i \in DOMAIN q : Apart(RegionSites(q[i]), new)
      BY <3>4 DEF Apart
    <3> QED BY <2>3, <3>1, <3>2, <3>3, <3>5
  <2> QED BY <2>4, <2>5, <2>6
<1>5. N \in T
  <2> HIDE DEF T
  <2> QED BY <1>1, <1>3, <1>4, Induction
<1>6. Are(N) /\ MergeInto(old, in, keys, next) = merged[N].regions
  BY <1>1, <1>2, <1>5 DEF Merges
<1> QED BY <1>6

-----------------------------------------------------------------------------
(* What a scan brings has each of its sites once.                          *)

(* Every region of a list has its own four identifiers, of which its site  *)
(* takes the last.                                                         *)
OneSite(r, id) == Once(RegionSites(r)) /\ \A x \in Range(RegionSites(r)) : x.id = id

Spaced(q, next) == Listed(q) /\ \A k \in DOMAIN q : OneSite(q[k], next + 4 * k - 1)

LEMMA SpacedOnce ==
  ASSUME NEW q, NEW next \in Nat, Spaced(q, next)
  PROVE  OnceIn(q)
<1>1. DOMAIN q = 1..Len(q) /\ Len(q) \in Nat
  BY ListBasics DEF Spaced
<1>2. ASSUME NEW i \in DOMAIN q, NEW j \in DOMAIN q, i # j PROVE Apart(RegionSites(q[i]), RegionSites(q[j]))
  <2>1. next + 4 * i - 1 # next + 4 * j - 1
    BY <1>1, <1>2
  <2> QED BY <2>1 DEF Apart, Spaced, OneSite
<1> QED BY <1>2 DEF OnceIn, Spaced, OneSite

LEMMA SpacedJoined ==
  ASSUME NEW p, NEW q, NEW next \in Nat, Spaced(p, next), Spaced(q, next + 4 * Len(p))
  PROVE  Spaced(p \o q, next)
<1> DEFINE S == Range(p) \union Range(q)
           r == p \o q
           m == Len(p)
           n == Len(q)
<1>1. p \in Seq(S) /\ q \in Seq(S)
  BY DEF Listed, Spaced
<1> HIDE DEF S
<1>2. /\ m \in Nat /\ n \in Nat /\ DOMAIN p = 1..m /\ DOMAIN q = 1..n /\ DOMAIN r = 1..(m + n)
      /\ \A i \in 1..m : r[i] = p[i]
      /\ \A i \in 1..n : r[m + i] = q[i]
  BY <1>1
<1>3. Listed(r)
  BY ListJoined DEF Spaced
<1> HIDE DEF r, m, n
<1>4. ASSUME NEW k \in DOMAIN r PROVE OneSite(r[k], next + 4 * k - 1)
  <2>1. CASE k <= m
    BY <1>2, <2>1 DEF Spaced
  <2>2. CASE k > m
    <3>1. k - m \in 1..n /\ m + (k - m) = k
      BY <1>2, <2>2
    <3>2. r[k] = q[k - m] /\ OneSite(q[k - m], (next + 4 * m) + 4 * (k - m) - 1)
      BY <1>2, <3>1 DEF Spaced, m
    <3>3. (next + 4 * m) + 4 * (k - m) - 1 = next + 4 * k - 1
      BY <1>2
    <3> QED BY <3>2, <3>3
  <2> QED BY <1>2, <2>1, <2>2
<1> QED BY <1>3, <1>4 DEF Spaced, r

(* A region from a scan.                                                   *)
LEMMA ScanRegionOnce ==
  ASSUME NEW id, NEW name, NEW type, NEW native, NEW site
  PROVE  OneSite(ScanRegion(id, name, type, native, site), site.id)
<1> DEFINE ct == UnassignedCity(id + 2, <<site>>)
           c == UnassignedCountry(id + 1, id + 2, <<site>>)
           r == ScanRegion(id, name, type, native, site)
<1>1. ct.sites = <<site>>
  BY DEF UnassignedCity
<1>2. c.cities = <<ct>>
  BY DEF UnassignedCountry
<1>3. r.countries = <<c>>
  BY DEF ScanRegion
<1> HIDE DEF ct, c, r
<1>4. RegionSites(r) = FlattenSeq(<<CitySites(c)>>) /\ CitySites(c) = FlattenSeq(<< <<site>> >>)
  <2>1. CitySites(c) = FlattenSeq(<< <<site>> >>)
    BY <1>1, <1>2 DEF CitySites, Map
  <2>2. RegionSites(r) = FlattenSeq(<<CitySites(c)>>)
    BY <1>3 DEF RegionSites, Map
  <2> QED BY <2>1, <2>2
<1>5. Listed(<<site>>) /\ DOMAIN <<site>> = {1} /\ <<site>>[1] = site
  BY ListBasics
<1>6. Range(<<site>>) = {site} /\ Once(<<site>>)
  BY <1>5 DEF Range, Once
<1>7. Listed(<< <<site>> >>) /\ \A i \in DOMAIN << <<site>> >> : Listed(<< <<site>> >>[i])
  BY <1>5, ListBasics
<1>8. Listed(CitySites(c))
  BY <1>4, <1>7, ListFlattened
<1>9. Range(RegionSites(r)) = {site} /\ Once(RegionSites(r))
  BY <1>4, <1>5, <1>6, <1>8, OnePart
<1> QED BY <1>9 DEF OneSite, r

LEMMA CloudSpaced ==
  ASSUME NEW p, NEW rows, Listed(rows), NEW next \in Nat
  PROVE  Spaced(ImportCloud(p, rows, next), next)
<1> DEFINE g == [i \in DOMAIN rows |-> Group(rows[i])]
           J == {i \in DOMAIN g : \A j \in 1..(i - 1) : g[j] # g[i]}
           gs == Picked(g, J)
           q == [k \in DOMAIN gs |-> CloudRegion(p, gs[k], rows, next + 4 * (k - 1))]
<1>1. ImportCloud(p, rows, next) = q
  BY DEF ImportCloud, Numbered, Distinct, Map
<1>2. Listed(g)
  BY ListMade
<1> HIDE DEF g, J
<1>3. Listed(gs) /\ DOMAIN gs = 1..Len(gs) /\ Len(gs) \in Nat
  BY <1>2, ListPicked, ListBasics
<1> HIDE DEF gs
<1>4. Listed(q) /\ DOMAIN q = DOMAIN gs
  BY <1>3, ListMade
<1>5. ASSUME NEW k \in DOMAIN gs PROVE OneSite(q[k], next + 4 * k - 1)
  <2> DEFINE id == next + 4 * (k - 1)
             name == Named(ShortenSource(gs[k][1]) \o " " \o gs[k][2], 0)
             title == Named(FormatCloudRegionName(p, gs[k][1], gs[k][2]), 0)
             ips == SumCount(Keep(rows, LAMBDA r : Group(r) = gs[k] /\ r.category = "Active IP"))
             site == NewSite(id + 3, name, [NoNumbers EXCEPT !.activeIPs = ips])
  <2>1. CloudRegion(p, gs[k], rows, id) = ScanRegion(id, title, p, TRUE, site)
    BY DEF CloudRegion
  <2>2. site.id = id + 3
    BY DEF NewSite
  <2>3. id + 3 = next + 4 * k - 1
    BY <1>3
  <2>4. q[k] = CloudRegion(p, gs[k], rows, id)
    OBVIOUS
  <2> HIDE DEF id, name, title, ips, site, q
  <2> QED BY <2>1, <2>2, <2>3, <2>4, ScanRegionOnce
<1> HIDE DEF q
<1> QED BY <1>1, <1>4, <1>5 DEF Spaced

LEMMA ScanOnce ==
  ASSUME NEW findings, Listed(findings), NEW next \in Nat
  PROVE  OnceIn(ScanRegions(findings, next))
<1> DEFINE Add(acc, p) == acc \o ImportCloud(p, RowsOf(p, findings), next + 4 * Len(acc))
           dir == RowsOf("microsoft", findings)
<1>1. ASSUME NEW acc, Spaced(acc, next), NEW p PROVE Spaced(Add(acc, p), next)
  <2> DEFINE rows == RowsOf(p, findings)
             new == next + 4 * Len(acc)
  <2>1. Listed(rows)
    BY ListPicked DEF RowsOf, Keep
  <2>2. new \in Nat
    BY <1>1, ListBasics DEF Spaced
  <2>3. Spaced(ImportCloud(p, rows, new), new)
    BY <2>1, <2>2, CloudSpaced
  <2> QED BY <1>1, <2>3, SpacedJoined
<1>2. Spaced(<<>>, next)
  BY ListBasics DEF Spaced
<1>3. ScanRegions(findings, next)
        = LET regions == Add(Add(Add(<<>>, "aws"), "azure"), "gcp")
          IN IF dir = <<>> THEN regions ELSE Append(regions, ImportAd(dir, next + 4 * Len(regions)))
  BY DEF ScanRegions
<1> HIDE DEF Add, dir
<1> DEFINE regions == Add(Add(Add(<<>>, "aws"), "azure"), "gcp")
<1>4. Spaced(regions, next)
  BY <1>1, <1>2
<1> HIDE DEF regions
<1>5. Spaced(Append(regions, ImportAd(dir, next + 4 * Len(regions))), next)
  <2> DEFINE id == next + 4 * Len(regions)
             r == ImportAd(dir, id)
  <2>1. Len(regions) \in Nat
    BY <1>4, ListBasics DEF Spaced
  <2>2. OneSite(r, id + 3)
    <3> DEFINE users == SumCount(UserRows(dir))
               site == NewSite(id + 3, Named(dir[1].source, 0), [NoNumbers EXCEPT !.users = users])
    <3>1. r = ScanRegion(id, Named("On-Premises", 0), "on-premises", FALSE, site)
      BY DEF ImportAd
    <3>2. site.id = id + 3
      BY DEF NewSite
    <3> HIDE DEF site, r, id
    <3> QED BY <3>1, <3>2, ScanRegionOnce
  <2>3. id + 3 = id + 4 * 1 - 1
    BY <2>1
  <2> HIDE DEF id, r
  <2>4. Spaced(<<r>>, id)
    BY <2>2, <2>3, ListBasics DEF Spaced
  <2>5. Spaced(regions \o <<r>>, next)
    BY <1>4, <2>4, SpacedJoined DEF id
  <2>6. regions \o <<r>> = Append(regions, r)
    <3> DEFINE S == Range(regions) \union {r}
    <3>1. regions \in Seq(S) /\ r \in S
      BY <1>4 DEF Spaced, Listed
    <3> HIDE DEF S
    <3> QED BY <3>1
  <2> QED BY <2>5, <2>6 DEF r, id
<1> QED BY <1>3, <1>4, <1>5, SpacedOnce DEF regions

(* Places picked from a list, and the distinct elements of one, are each   *)
(* there once.                                                             *)
Different(p) == \A i, j \in DOMAIN p : p[i] = p[j] => i = j

LEMMA PlacesPicked ==
  ASSUME NEW m, Listed(m), NEW I
  PROVE  LET p == Picked([i \in DOMAIN m |-> i], I)
         IN Listed(p) /\ Different(p) /\ \A i \in DOMAIN p : p[i] \in DOMAIN m /\ p[i] \in I
<1> DEFINE all == [i \in DOMAIN m |-> i]
           p == Picked(all, I)
<1>1. Listed(all) /\ DOMAIN all = DOMAIN m /\ DOMAIN all = 1..Len(all) /\ Len(all) \in Nat
  BY ListMade, ListBasics
<1>2. \A i \in DOMAIN m : all[i] = i
  OBVIOUS
<1> HIDE DEF all
<1>3. PICK f : Places(f, p, all, I)
  BY <1>1, PickedPlaces
<1> HIDE DEF p
<1>4. Listed(p) /\ DOMAIN p = 1..Len(p) /\ Len(p) \in Nat
  BY <1>3, ListBasics DEF Places
<1>5. \A i \in DOMAIN p : p[i] = f[i] /\ f[i] \in DOMAIN m /\ f[i] \in I
  BY <1>1, <1>2, <1>3 DEF Places
<1>6. ASSUME NEW i \in DOMAIN p, NEW j \in DOMAIN p, p[i] = p[j] PROVE i = j
  <2>1. ~(i < j) /\ ~(j < i)
    BY <1>1, <1>3, <1>5, <1>6 DEF Places
  <2> QED BY <1>4, <2>1
<1> QED BY <1>4, <1>5, <1>6 DEF Different, p, all

LEMMA DistinctPicked ==
  ASSUME NEW q, Listed(q)
  PROVE  Listed(Distinct(q)) /\ Different(Distinct(q))
<1> DEFINE I == {i \in DOMAIN q : \A j \in 1..(i - 1) : q[j] # q[i]}
           p == Picked(q, I)
<1>1. Distinct(q) = p
  BY DEF Distinct
<1>2. DOMAIN q = 1..Len(q) /\ Len(q) \in Nat
  BY ListBasics
<1>3. \A i \in I : \A j \in DOMAIN q : j < i => q[j] # q[i]
  BY <1>2
<1> HIDE DEF I
<1>4. PICK f : Places(f, p, q, I)
  BY PickedPlaces
<1> HIDE DEF p
<1>5. Listed(p) /\ DOMAIN p = 1..Len(p) /\ Len(p) \in Nat
  BY <1>4, ListBasics DEF Places
<1>6. ASSUME NEW i \in DOMAIN p, NEW j \in DOMAIN p, i < j PROVE p[i] # p[j]
  BY <1>3, <1>4, <1>6 DEF Places
<1>7. ASSUME NEW i \in DOMAIN p, NEW j \in DOMAIN p, p[i] = p[j] PROVE i = j
  BY <1>5, <1>6, <1>7
<1> QED BY <1>1, <1>5, <1>7 DEF Different

(* The i-th member is the site next + 1 + i of a city of its place, so the *)
(* cities of two places, and two countries, have no site in common.        *)
LEMMA GridCityOnce ==
  ASSUME NEW metrics, Listed(metrics), NEW next \in Nat, NEW place, NEW id
  PROVE  LET sites == GridCity(metrics, place, id, next).sites
         IN /\ Listed(sites) /\ Once(sites)
            /\ \A x \in Range(sites) : \E i \in DOMAIN metrics : x.id = next + 1 + i /\ Geo(metrics[i]) = place
<1> DEFINE I == {i \in DOMAIN metrics : Geo(metrics[i]) = place}
           p == Picked([i \in DOMAIN metrics |-> i], I)
           q == [i \in DOMAIN p |-> MemberSite(metrics[p[i]], next + 1 + p[i])]
<1>1. GridCity(metrics, place, id, next).sites = q
  BY DEF GridCity, Map
<1>2. Listed(p) /\ Different(p) /\ \A i \in DOMAIN p : p[i] \in DOMAIN metrics /\ p[i] \in I
  BY PlacesPicked
<1> HIDE DEF p
<1>3. Listed(q) /\ DOMAIN q = DOMAIN p
  BY <1>2, ListMade
<1>4. ASSUME NEW i \in DOMAIN p PROVE q[i].id = next + 1 + p[i]
  BY DEF MemberSite, NewSite
<1> HIDE DEF q
<1>5. \A i \in DOMAIN p : p[i] \in Nat
  BY <1>2, ListBasics
<1>6. Once(q)
  <2> SUFFICES ASSUME NEW i \in DOMAIN p, NEW j \in DOMAIN p, q[i].id = q[j].id PROVE i = j
    BY <1>3 DEF Once
  <2>1. p[i] = p[j]
    BY <1>4, <1>5
  <2> QED BY <1>2, <2>1 DEF Different
<1>7. \A x \in Range(q) : \E i \in DOMAIN metrics : x.id = next + 1 + i /\ Geo(metrics[i]) = place
  BY <1>2, <1>3, <1>4 DEF Range
<1> QED BY <1>1, <1>3, <1>6, <1>7

(* The region made up for a grid has each member's site once.              *)
LEMMA GridOnce ==
  ASSUME NEW B, NEW metrics, Listed(metrics), NEW next \in Nat, IsRegion(B, SynthesizeGrid(metrics, next))
  PROVE  Once(RegionSites(SynthesizeGrid(metrics, next)))
<1> DEFINE geo == [i \in DOMAIN metrics |-> Geo(metrics[i])]
           places == Distinct(geo)
           base == next + 2 + Len(metrics)
           countries == GridCountries(metrics, places, next, base)
           r == SynthesizeGrid(metrics, next)
           In(x, c) == \E i \in DOMAIN metrics : x.id = next + 1 + i /\ Geo(metrics[i]).country = c
           Of(x, place) == \E i \in DOMAIN metrics : x.id = next + 1 + i /\ Geo(metrics[i]) = place
<1>0. DOMAIN metrics \subseteq Nat
  BY ListBasics
<1>1. r.countries = countries
  BY DEF SynthesizeGrid, Map
<1> HIDE DEF r
<1>2. Listed(geo)
  BY ListMade
<1> HIDE DEF geo
<1>3. Listed(places) /\ Different(places)
  BY <1>2, DistinctPicked
<1> HIDE DEF places, base
<1> DEFINE CityOf(k) == GridCity(metrics, places[k], base + k, next)
           all == [k \in DOMAIN places |-> k]
           Ks(c) == Picked(all, {k \in DOMAIN places : places[k].country = c})
           Cities(c) == [i \in DOMAIN Ks(c) |-> CityOf(Ks(c)[i])]
           of == [i \in DOMAIN places |-> places[i].country]
           cs == Distinct(of)
<1>4. countries = [k \in DOMAIN cs |-> [id |-> base + Len(places) + 1 + 4 * (k - 1), name |-> cs[k],
                                        cities |-> Cities(cs[k])]]
  BY DEF GridCountries, Numbered, Map
<1>5. ASSUME NEW c
      PROVE  Listed(Ks(c)) /\ Different(Ks(c))
             /\ \A i \in DOMAIN Ks(c) : Ks(c)[i] \in DOMAIN places /\ places[Ks(c)[i]].country = c
  BY <1>3, PlacesPicked
<1>6. Listed(of)
  BY <1>3, ListMade
<1> HIDE DEF of, all, Ks
<1>7. Listed(cs) /\ Different(cs)
  BY <1>6, DistinctPicked
<1> HIDE DEF cs, countries
<1>8. ASSUME NEW k PROVE /\ Listed(CityOf(k).sites) /\ Once(CityOf(k).sites)
                         /\ \A x \in Range(CityOf(k).sites) : Of(x, places[k])
  BY GridCityOnce
<1> HIDE DEF CityOf
<1>9. ASSUME NEW c, NEW d, IsCountry(B, d), d.cities = Cities(c)
      PROVE  Once(CitySites(d)) /\ \A x \in Range(CitySites(d)) : In(x, c)
  <2> DEFINE ks == Ks(c)
             q == SitesIn(d)
  <2>1. Listed(ks) /\ Different(ks) /\ \A i \in DOMAIN ks : ks[i] \in DOMAIN places /\ places[ks[i]].country = c
    BY <1>5
  <2>2. /\ CitySites(d) = FlattenSeq(q) /\ Listed(d.cities) /\ q = [k \in DOMAIN d.cities |-> q[k]]
        /\ \A k \in DOMAIN d.cities : Listed(q[k])
    BY <1>9, CountryParts
  <2>3. DOMAIN d.cities = DOMAIN ks /\ \A i \in DOMAIN ks : q[i] = CityOf(ks[i]).sites
    BY <1>9 DEF SitesIn
  <2> HIDE DEF q, ks
  <2>4. \A i \in DOMAIN ks : Once(q[i]) /\ \A x \in Range(q[i]) : Of(x, places[ks[i]])
    BY <1>8, <2>3
  <2>5. ASSUME NEW i \in DOMAIN ks, NEW j \in DOMAIN ks, i # j PROVE Apart(q[i], q[j])
    <3>1. places[ks[i]] # places[ks[j]]
      BY <1>3, <2>1, <2>5 DEF Different
    <3>2. ASSUME NEW x, Of(x, places[ks[i]]), NEW y, Of(y, places[ks[j]]) PROVE x.id # y.id
      BY <1>0, <3>1, <3>2
    <3> HIDE DEF Of
    <3> QED BY <2>4, <3>2 DEF Apart
  <2>6. Once(FlattenSeq(q))
    <3>1. \A i \in DOMAIN d.cities : Once(q[i])
      BY <2>3, <2>4
    <3>2. \A i, j \in DOMAIN d.cities : i # j => Apart(q[i], q[j])
      BY <2>3, <2>5
    <3> QED BY <2>2, <3>1, <3>2, OnceSpread
  <2>7. Range(FlattenSeq(q)) = UNION {Range(q[i]) : i \in DOMAIN d.cities}
    BY <2>2, ListSpread
  <2>8. ASSUME NEW i \in DOMAIN ks, NEW x \in Range(q[i]) PROVE In(x, c)
    BY <2>1, <2>4, <2>8
  <2> HIDE DEF In
  <2> QED BY <2>2, <2>3, <2>6, <2>7, <2>8
<1> HIDE DEF Cities, Of
<1> DEFINE q == SitesUnder(r)
<1>10. /\ RegionSites(r) = FlattenSeq(q) /\ Listed(countries) /\ q = [j \in DOMAIN countries |-> q[j]]
       /\ \A j \in DOMAIN countries : Listed(q[j])
  <2>1. IsRegion(B, r)
    BY DEF r
  <2> QED BY <1>1, <2>1, RegionParts
<1>11. ASSUME NEW k \in DOMAIN cs PROVE Once(q[k]) /\ \A x \in Range(q[k]) : In(x, cs[k])
  <2>1. IsCountry(B, countries[k]) /\ k \in DOMAIN countries
    BY <1>1, <1>4 DEF IsRegion, r
  <2>2. countries[k].cities = Cities(cs[k])
    BY <1>4
  <2>3. q[k] = CitySites(countries[k])
    BY <1>1, <2>1 DEF SitesUnder
  <2> HIDE DEF In, q
  <2> QED BY <1>9, <2>1, <2>2, <2>3
<1> HIDE DEF q
<1>12. ASSUME NEW i \in DOMAIN cs, NEW j \in DOMAIN cs, i # j PROVE Apart(q[i], q[j])
  <2>1. cs[i] # cs[j]
    BY <1>7, <1>12 DEF Different
  <2>2. ASSUME NEW x, In(x, cs[i]), NEW y, In(y, cs[j]) PROVE x.id # y.id
    BY <1>0, <2>1, <2>2
  <2> HIDE DEF In
  <2> QED BY <1>11, <2>2 DEF Apart
<1>13. DOMAIN countries = DOMAIN cs
  BY <1>4
<1>14. Once(RegionSites(r))
  BY <1>10, <1>11, <1>12, <1>13, OnceSpread
<1> QED BY <1>14 DEF r

(* A walk over a region yields sites of the tree.                          *)
LEMMA SiteOfRegion ==
  ASSUME NEW B, NEW r, IsRegion(B, r), NEW x \in Range(RegionSites(r))
  PROVE  IsSite(B, x)
<1>1. PICK j \in DOMAIN r.countries :
             \E k \in DOMAIN r.countries[j].cities : x \in Range(r.countries[j].cities[k].sites)
  BY RegionWalk
<1> QED BY <1>1 DEF IsRegion, IsCountry, IsCity, Range

(* What a scan brings has each site once, under an identifier that was not *)
(* handed out before.                                                      *)
LEMMA ImportedOnce ==
  ASSUME NEW scan \in Scans, NEW next \in Nat
  PROVE  OnceIn(ImportFromScan(scan, next).regions)
<1> DEFINE f == Len(scan.findings)
           m == Len(scan.members)
           from == next + 12 * f + 4
           found == ScanRegions(scan.findings, next)
           rows == ImportNios(scan.members, from)
           grid == from + m
           made == SynthesizeGrid(scan.members, grid)
           in == WithMembers(found, scan.members, rows, grid)
<1>1. ImportFromScan(scan, next) = in
  BY DEF ImportFromScan
<1>2. Listed(scan.findings) /\ Listed(scan.members) /\ f \in Nat /\ m \in Nat
  BY ScansAssumption, ListBasics
<1>3. grid \in Nat
  <2> HIDE DEF f, m
  <2> QED BY <1>2
<1>4. OnceIn(found)
  BY <1>2, ScanOnce
<1>5. IsRegion(Only(NewIds(grid, m + 2)), made)
  BY <1>2, <1>3, GridTyped DEF Only
<1> HIDE DEF grid, found, rows
<1>6. Once(RegionSites(made))
  BY <1>2, <1>3, <1>5, GridOnce
<1> HIDE DEF made
<1>7. OnceIn(<<made>>)
  <2>1. DOMAIN <<made>> = {1} /\ <<made>>[1] = made
    BY ListBasics
  <2> QED BY <1>6, <2>1 DEF OnceIn
<1>8. in.regions = found \/ in.regions = <<made>>
  BY DEF WithMembers, made
<1> QED BY <1>1, <1>4, <1>7, <1>8

LEMMA ImportedApart ==
  ASSUME SettledInv, NEW scan \in Scans
  PROVE  \A i \in DOMAIN s.core.regions, j \in DOMAIN Incoming(scan).regions :
           Apart(RegionSites(s.core.regions[i]), RegionSites(Incoming(scan).regions[j]))
<1> DEFINE ids == NewIds(nextId, ImportSpan(scan))
           p == s.core.regions
           q == Incoming(scan).regions
<1>1. IsTree(Below(nextId), p) /\ nextId \in Nat
  BY DEF SettledInv, Sound, Planted
<1>2. IsTree(Only(ids), q)
  <2>1. Only(ids).ids = ids
    BY DEF Only
  <2> QED BY <1>1, <2>1, ImportedTree DEF Incoming
<1>3. \A m, n : m \in Below(nextId).ids /\ n \in ids => m # n
  <2> DEFINE span == ImportSpan(scan)
  <2> HIDE DEF span
  <2>1. \A m, n : m \in 0..(nextId - 1) /\ n \in nextId..(nextId + span - 1) => m # n
    BY <1>1
  <2> QED BY <2>1 DEF NewIds, Below, Only, span
<1> HIDE DEF ids, p, q
<1>4. ASSUME NEW i \in DOMAIN p, NEW x \in Range(RegionSites(p[i])) PROVE x.id \in Below(nextId).ids
  <2>1. IsRegion(Below(nextId), p[i])
    BY <1>1 DEF IsTree
  <2>2. IsSite(Below(nextId), x)
    BY <2>1, SiteOfRegion
  <2> QED BY <2>2 DEF IsSite, Below, Only
<1>5. ASSUME NEW j \in DOMAIN q, NEW x \in Range(RegionSites(q[j])) PROVE x.id \in ids
  <2>1. IsRegion(Only(ids), q[j])
    BY <1>2 DEF IsTree
  <2>2. IsSite(Only(ids), x)
    BY <2>1, SiteOfRegion
  <2> QED BY <2>2 DEF IsSite, Only
<1>6. \A i \in DOMAIN p, j \in DOMAIN q : Apart(RegionSites(p[i]), RegionSites(q[j]))
  BY <1>3, <1>4, <1>5 DEF Apart
<1> QED BY <1>6 DEF p, q

-----------------------------------------------------------------------------
(* What is on screen after an import: the live state with the scan merged  *)
(* into it, but for tiers and for what is selected.                        *)
LEMMA ImportShows ==
  ASSUME SettledInv, FormNext, Imported
  PROVE  \E scan \in Scans :
           LET inApp == ImportScan(s, Incoming(scan), MergeId(scan))
           IN /\ Shaped(inApp) /\ Shaped(s')
              /\ IsTree(Below(nextId'), inApp.core.regions) /\ Rows(Incoming(scan).niosx)
              /\ IsTree(Below(nextId'), Incoming(scan).regions)
              /\ s'.core.regions = inApp.core.regions
              /\ Untiered(s'.core.niosx) = Untiered(inApp.core.niosx)
<1>1. open /\ HandleSizerImportConfirm
  BY ImportedByImport
<1>2. PICK scan \in Scans :
           /\ nextId' = MergeId(scan) + 2 * (Len(s.core.regions) + Len(scan.findings) + 1)
           /\ LET merged == ImportScan(Loaded(stored), Incoming(scan), MergeId(scan))
              IN \/ ImportDone(Loaded(stored), merged, ImportScan(s, Incoming(scan), MergeId(scan)))
                 \/ ImportFailed(merged)
  BY <1>1, ImportCases
<1> DEFINE merged == ImportScan(Loaded(stored), Incoming(scan), MergeId(scan))
           inApp == ImportScan(s, Incoming(scan), MergeId(scan))
           landed == SetActiveStep(inApp, LandingStep(merged))
           B == Below(nextId')
<1>3. /\ nextId' \in Nat /\ nextId <= nextId'
      /\ IsTree(B, Incoming(scan).regions) /\ Rows(Incoming(scan).niosx)
  BY <1>2, ImportIds
<1>4. Sound(B, inApp)
  BY <1>3, HandedOut, MergeSound
<1>5. ImportDone(Loaded(stored), merged, inApp)
  BY <1>2 DEF ImportFailed, Imported, live
<1> HIDE DEF B, merged, inApp
<1>6. Commit(landed, "sizer", region, tab, TRUE)
  BY <1>5 DEF ImportDone
<1>7. Sound(B, landed) /\ landed.core = inApp.core /\ landed.ui.activeStep # 4
  <2>1. Sound(B, landed)
    BY <1>4, LandingSteps, InterfaceActions, AsideSound DEF Steps, Sound, Planted
  <2> QED BY <1>4, <2>1, LandingSteps DEF SetActiveStep, Sound, Planted, Shaped, IsStateAt, UIFields
<1> HIDE DEF landed
<1>8. /\ Sound(B, s')
      /\ s' = Effects(Heard(landed, "sizer"), "sizer", ActiveIn(landed, "sizer", region),
                      TabIn(landed, "sizer", tab))
  BY <1>6, <1>7, CommitStep
<1>9. BeforeLanding(s') = BeforeLanding(landed)
  BY <1>7, <1>8, LandingMasked DEF Sound, Planted, Imported
<1>10. \A t : Shaped(t) => /\ BeforeLanding(t).core.regions = t.core.regions
                           /\ BeforeLanding(t).core.niosx = Untiered(t.core.niosx)
  BY DEF BeforeLanding, Shaped, IsStateAt, CoreFields
<1>11. /\ s'.core.regions = inApp.core.regions
       /\ Untiered(s'.core.niosx) = Untiered(inApp.core.niosx)
  <2> DEFINE now == s'
  <2>1. Shaped(now) /\ Shaped(landed) /\ BeforeLanding(now) = BeforeLanding(landed)
    BY <1>7, <1>8, <1>9 DEF Sound, Planted
  <2> HIDE DEF now
  <2>2. now.core.regions = landed.core.regions /\ Untiered(now.core.niosx) = Untiered(landed.core.niosx)
    BY <1>10, <2>1
  <2> QED BY <1>7, <2>2 DEF now
<1> QED BY <1>3, <1>4, <1>8, <1>11 DEF Sound, Planted, inApp, B

(* Two rows of one name, in any spelling, go by one key.                   *)
LEMMA OneKey == \A m, n : SameMember(m, n) => NiosKey(m) = NiosKey(n)
<1> SUFFICES ASSUME NEW m, NEW n, SameMember(m, n) PROVE NiosKey(m) = NiosKey(n)
  OBVIOUS
<1> DEFINE folded == FoldedText(n.name.base)
<1>1. [[m.name EXCEPT !.base = n.name.base, !.sp = n.name.sp] EXCEPT !.base = folded, !.sp = "exact"]
        = [m.name EXCEPT !.base = folded, !.sp = "exact"]
  OBVIOUS
<1> HIDE DEF folded
<1>2. NiosKey(n) = [n.name EXCEPT !.base = folded, !.sp = "exact"]
  BY DEF NiosKey, folded
<1>3. NiosKey(m) = [m.name EXCEPT !.base = folded, !.sp = "exact"]
  BY DEF SameMember, NiosKey, folded
<1> QED BY <1>1, <1>2, <1>3 DEF SameMember

(* The rows there were are the first ones, but for their tiers, and the    *)
(* ones after them have names of their own.                                *)
LEMMA RowsShown ==
  ASSUME NEW old, Rows(old), NEW rows, RowsAdded(old, rows), NEW now, Rows(now), Untiered(now) = Untiered(rows)
  PROVE  /\ IsPrefix(Untiered(old), Untiered(now))
         /\ \A i, j \in DOMAIN now : j > Len(old) /\ i < j => ~SameMember(now[i], now[j])
<1> DEFINE Bare(q) == [i \in DOMAIN q |-> [q[i] EXCEPT !.tierName = ""]]
           m == Len(old)
           n == Len(rows)
<1>1. Untiered(now) = Bare(now) /\ Untiered(rows) = Bare(rows) /\ Untiered(old) = Bare(old)
  BY DEF Untiered, Map
<1>2. /\ m \in Nat /\ n \in Nat /\ m <= n /\ DOMAIN old = 1..m /\ DOMAIN rows = 1..n
      /\ Listed(old) /\ Listed(rows) /\ Listed(now)
  BY ListBasics DEF Rows, RowsAdded
<1>3. DOMAIN now = 1..n /\ \A i \in 1..n : [now[i] EXCEPT !.tierName = ""] = [rows[i] EXCEPT !.tierName = ""]
  <2>1. DOMAIN Bare(now) = DOMAIN now /\ DOMAIN Bare(rows) = DOMAIN rows
    OBVIOUS
  <2>2. DOMAIN now = 1..n
    BY <1>1, <1>2, <2>1
  <2>3. \A i \in 1..n : Bare(now)[i] = Bare(rows)[i]
    BY <1>1
  <2> HIDE DEF n
  <2> QED BY <1>2, <2>2, <2>3
<1>4. \A x, y : "name" \in DOMAIN x /\ "name" \in DOMAIN y /\ [x EXCEPT !.tierName = ""] = [y EXCEPT !.tierName = ""]
                => x.name = y.name
  <2> SUFFICES ASSUME NEW x, NEW y, "name" \in DOMAIN x, "name" \in DOMAIN y,
                      [x EXCEPT !.tierName = ""] = [y EXCEPT !.tierName = ""]
               PROVE  x.name = y.name
    OBVIOUS
  <2>1. [x EXCEPT !.tierName = ""].name = x.name /\ [y EXCEPT !.tierName = ""].name = y.name
    OBVIOUS
  <2> QED BY <2>1
<1> HIDE DEF m, n
<1>5. \A i \in 1..n : now[i].name = rows[i].name
  BY <1>2, <1>3, <1>4 DEF Rows, RowsAdded
<1>6. ASSUME NEW i \in DOMAIN now, NEW j \in DOMAIN now, j > m, i < j, SameMember(now[i], now[j]) PROVE FALSE
  <2>1. NiosKey(now[i]) = NiosKey(now[j])
    BY <1>6, OneKey
  <2>2. NiosKey(rows[i]) = NiosKey(rows[j])
    BY <1>3, <1>5, <2>1 DEF NiosKey
  <2> QED BY <1>2, <1>3, <1>6, <2>2 DEF RowsAdded, m
<1>7. IsPrefix(Bare(old), Bare(now))
  <2> DEFINE a == Bare(old)
             b == Bare(now)
  <2>1. /\ a = [i \in DOMAIN old |-> a[i]] /\ b = [i \in DOMAIN now |-> b[i]]
        /\ \A i \in DOMAIN old : a[i] = [old[i] EXCEPT !.tierName = ""]
        /\ \A i \in DOMAIN now : b[i] = [now[i] EXCEPT !.tierName = ""]
    OBVIOUS
  <2> HIDE DEF a, b
  <2>2. Listed(a) /\ DOMAIN a = 1..m /\ Listed(b) /\ DOMAIN b = 1..n
    BY <1>2, <1>3, <2>1, ListMade
  <2>3. \A i \in 1..m : i \in 1..n /\ rows[i] = old[i]
    BY <1>2 DEF RowsAdded
  <2>4. ASSUME NEW i \in 1..m PROVE a[i] = b[i]
    <3>1. i \in 1..n /\ rows[i] = old[i] /\ i \in DOMAIN old /\ i \in DOMAIN now
      BY <1>2, <1>3, <2>3
    <3>2. [now[i] EXCEPT !.tierName = ""] = [rows[i] EXCEPT !.tierName = ""]
      BY <1>3, <3>1
    <3>3. b[i] = [now[i] EXCEPT !.tierName = ""]
      BY <2>1, <3>1
    <3>4. a[i] = [old[i] EXCEPT !.tierName = ""]
      BY <2>1, <3>1
    <3>5. a[i] = [rows[i] EXCEPT !.tierName = ""]
      BY <3>1, <3>4
    <3> QED BY <3>2, <3>3, <3>5
  <2>5. Len(a) = m /\ Len(b) = n /\ a \in Seq(Range(a)) /\ b \in Seq(Range(b))
    BY <1>2, <2>2 DEF Listed
  <2>6. SubSeq(a, 1, m) = SubSeq(b, 1, m)
    BY <1>2, <2>2, <2>4, <2>5
  <2>7. IsPrefix(a, b)
    BY <1>2, <2>5, <2>6 DEF IsPrefix
  <2> QED BY <2>7 DEF a, b
<1> QED BY <1>1, <1>6, <1>7 DEF m

AnyInt == Only(Int)

LEMMA ImportAdditive ==
  ASSUME SettledInv, FormNext, Imported
  PROVE  /\ \A i \in DOMAIN s.core.regions :
              [s'.core.regions[i] EXCEPT !.countries = <<>>]
                = [s.core.regions[i] EXCEPT !.countries = <<>>]
         /\ Range(AllSites(s.core)) \subseteq Range(AllSites(s'.core))
         /\ IsPrefix(Untiered(s.core.niosx), Untiered(s'.core.niosx))
         /\ \A i, j \in DOMAIN s'.core.niosx :
              /\ j > Len(s.core.niosx) /\ i < j
              => ~SameMember(s'.core.niosx[i], s'.core.niosx[j])
         /\ DistinctKeys(s) /\ UniqueSites(s) => UniqueSites(s')
<1>1. PICK scan \in Scans :
           LET inApp == ImportScan(s, Incoming(scan), MergeId(scan))
           IN /\ Shaped(inApp) /\ Shaped(s')
              /\ IsTree(Below(nextId'), inApp.core.regions) /\ Rows(Incoming(scan).niosx)
              /\ IsTree(Below(nextId'), Incoming(scan).regions)
              /\ s'.core.regions = inApp.core.regions
              /\ Untiered(s'.core.niosx) = Untiered(inApp.core.niosx)
  BY ImportShows
<1> DEFINE inApp == ImportScan(s, Incoming(scan), MergeId(scan))
           in == Incoming(scan)
           old == s.core.regions
           keys == {RegionKey(r) : r \in Range(old)}
           new == MergeInto(old, in.regions, keys, MergeId(scan))
           rows == MergeNiosx(s.core.niosx, in.niosx)
           B == Below(nextId')
           now == s'
<1>2. Shaped(s) /\ IsTree(Below(nextId), old) /\ nextId \in Nat
  BY DEF SettledInv, Sound, Planted
<1>3. inApp.core.regions = new /\ inApp.core.niosx = rows
  <2>1. inApp = [s EXCEPT !.core.regions = new, !.core.niosx = rows]
    BY DEF ImportScan, MergeFullState, MergeRegions
  <2> HIDE DEF new, rows, inApp
  <2> QED BY <1>2, <2>1 DEF Shaped, IsStateAt, CoreFields
<1>4. /\ Shaped(now) /\ IsTree(B, new) /\ Rows(in.niosx) /\ IsTree(B, in.regions)
      /\ now.core.regions = new /\ Untiered(now.core.niosx) = Untiered(rows)
  BY <1>1, <1>3
<1> HIDE DEF inApp, new, rows, now
<1>5. RowsAdded(s.core.niosx, rows)
  BY <1>2, <1>4, RowsMerged DEF Shaped, rows
<1>6. /\ IsPrefix(Untiered(s.core.niosx), Untiered(now.core.niosx))
      /\ \A i, j \in DOMAIN now.core.niosx :
           j > Len(s.core.niosx) /\ i < j => ~SameMember(now.core.niosx[i], now.core.niosx[j])
  BY <1>2, <1>4, <1>5, RowsShown DEF Shaped
<1>7. /\ Adds(old, new)
      /\ /\ KeyedOnce(old, keys) /\ OnceIn(old) /\ OnceIn(in.regions)
         /\ \A i \in DOMAIN old, j \in DOMAIN in.regions :
              Apart(RegionSites(old[i]), RegionSites(in.regions[j]))
         => OnceIn(new)
  <2>1. IsTree(AnyInt, old) /\ IsTree(AnyInt, in.regions)
    <3>1. /\ Below(nextId).ids \subseteq AnyInt.ids /\ Below(nextId).sites \subseteq AnyInt.sites
          /\ B.ids \subseteq AnyInt.ids /\ B.sites \subseteq AnyInt.sites
      BY DEF AnyInt, Below, Only
    <3> HIDE DEF B, old, in
    <3> QED BY <1>2, <1>4, <3>1, SoundMore
  <2> QED BY <2>1, TreeAdds DEF new
<1>8. \A i \in DOMAIN old : [now.core.regions[i] EXCEPT !.countries = <<>>] = [old[i] EXCEPT !.countries = <<>>]
  BY <1>4, <1>7 DEF Adds, SameButSites
<1>9. Range(AllSites(s.core)) \subseteq Range(AllSites(now.core))
  <2>1. \A x \in Range(AllSites(s.core)) : Somewhere(x, old)
    BY <1>2, SiteWalk DEF Somewhere
  <2>2. \A x : Somewhere(x, now.core.regions) => x \in Range(AllSites(now.core))
    BY <1>4, SiteWalk DEF Somewhere
  <2>3. \A x : Somewhere(x, old) => Somewhere(x, new)
    BY <1>7 DEF Adds, Somewhere
  <2> QED BY <1>4, <2>1, <2>2, <2>3
<1>10. ASSUME DistinctKeys(s), UniqueSites(s) PROVE UniqueSites(now)
  <2>1. OnceIn(old)
    BY <1>2, <1>10, UniqueOnce
  <2>2. KeyedOnce(old, keys)
    BY <1>10 DEF KeyedOnce, DistinctKeys
  <2>3. OnceIn(in.regions)
    BY <1>2, ImportedOnce DEF Incoming
  <2>4. OnceIn(new)
    BY <1>7, <2>1, <2>2, <2>3, ImportedApart
  <2> QED BY <1>4, <2>4, UniqueOnce
<1> QED BY <1>6, <1>8, <1>9, <1>10 DEF now

(* An import only adds: whatever the scan, and whatever is on screen, no   *)
(* region, site or system there is changed or lost, no member comes in     *)
(* twice under two spellings of its name, and no site comes in twice when  *)
(* the regions go by keys of their own.                                    *)
THEOREM ImportsAdd == FormSpec => ImportIsAdditive
<1> DEFINE Additive == Imported =>
           /\ \A i \in DOMAIN s.core.regions :
                [s'.core.regions[i] EXCEPT !.countries = <<>>]
                  = [s.core.regions[i] EXCEPT !.countries = <<>>]
           /\ Range(AllSites(s.core)) \subseteq Range(AllSites(s'.core))
           /\ IsPrefix(Untiered(s.core.niosx), Untiered(s'.core.niosx))
           /\ \A i, j \in DOMAIN s'.core.niosx :
                /\ j > Len(s.core.niosx) /\ i < j
                => ~SameMember(s'.core.niosx[i], s'.core.niosx[j])
           /\ DistinctKeys(s) /\ UniqueSites(s) => UniqueSites(s')
<1>1. SettledInv /\ [FormNext]_formVars => [Additive]_vars
  <2> SUFFICES ASSUME SettledInv, [FormNext]_formVars PROVE [Additive]_vars
    OBVIOUS
  <2>1. CASE FormNext
    BY <2>1, ImportAdditive
  <2>2. CASE UNCHANGED formVars
    BY <2>2 DEF formVars
  <2> QED BY <2>1, <2>2
<1>2. FormSpec => [][Additive]_vars
  BY <1>1, SettledInvariant, PTL DEF FormSpec
<1> QED BY <1>2 DEF ImportIsAdditive
=============================================================================
