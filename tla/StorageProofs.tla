---------------------------- MODULE StorageProofs ----------------------------
(***************************************************************************)
(* Theorems about the block cache and the file system on it.               *)
(*                                                                         *)
(* The cache is a block device, for every set of sectors and values, every *)
(* set of requests that callers of disk.c may make, and every size of the  *)
(* largest block cached: the cached records share no sector, so that the   *)
(* cache and the medium together have one value for each sector; a flush,  *)
(* whole or in part, moves values from one to the other; and both places   *)
(* hold a value that a loss of power may leave.                            *)
(*                                                                         *)
(* The chains of clusters that the records of a FAT32 volume own stay      *)
(* disjoint, for any number of clusters, any names and any writes: first   *)
(* sequences that a table links, then what the calls of fat32.c keep of a  *)
(* volume, call by call.                                                   *)
(***************************************************************************)
EXTENDS BlockCache, Fat32, FiniteSetTheorems, SequenceTheorems, WellFoundedInduction, TLAPS

---------------------------------------------------------------------------
(* Numbers, and steps that are repeated.                                   *)

LEMMA LeastNat ==
  ASSUME NEW S \in SUBSET Nat, S # {}
  PROVE  \E n \in S : \A m \in S : n <= m
<1> DEFINE R == OpToRel(<, Nat)
<1>1. \A m, n \in Nat : m < n => <<m, n>> \in R BY DEF OpToRel
<1>2. IsWellFoundedOn(R, Nat) BY NatLessThanWellFounded
<1> HIDE DEF R
<1>3. PICK n \in S : \A m \in S : ~ (<<m, n>> \in R) BY <1>2, WFMin
<1>4. ASSUME NEW m \in S PROVE n <= m
  <2>1. m \in Nat /\ n \in Nat OBVIOUS
  <2>2. ~ (m < n) BY <1>1, <1>3, <2>1
  <2> QED BY <2>1, <2>2
<1> QED BY <1>4

LEMMA MinIsLeast ==
  ASSUME NEW S \in SUBSET Nat, S # {}
  PROVE  Min(S) \in S /\ \A m \in S : Min(S) <= m
BY LeastNat DEF Min

\* The greatest is the one of least distance to the bound.
LEMMA MaxIsGreatest ==
  ASSUME NEW n \in Nat, NEW S \in SUBSET (1 .. n), S # {}
  PROVE  Max(S) \in S /\ \A m \in S : Max(S) >= m
<1> DEFINE D == {k \in Nat : n - k \in S}
<1>1. D \in SUBSET Nat /\ D # {}
  <2>1. PICK m \in S : TRUE OBVIOUS
  <2>2. n - m \in Nat /\ n - (n - m) = m OBVIOUS
  <2> QED BY <2>2
<1>2. \A m \in S : n - m \in D OBVIOUS
<1>3. \A k \in D : k \in Nat /\ n - k \in S OBVIOUS
<1> HIDE DEF D
<1>4. PICK k \in D : \A j \in D : k <= j BY <1>1, LeastNat
<1>5. \A m \in S : n - k >= m BY <1>2, <1>3, <1>4
<1> QED BY <1>3, <1>4, <1>5 DEF Max

LEMMA Upwards ==
  ASSUME NEW n \in Nat, NEW S, 0 \in S, \A i \in 1 .. n : i - 1 \in S => i \in S
  PROVE  \A i \in 0 .. n : i \in S
<1> DEFINE B == {i \in 0 .. n : i \notin S}
<1> SUFFICES ASSUME B # {} PROVE FALSE OBVIOUS
<1>1. PICK i \in B : \A j \in B : i <= j
  <2>1. B \in SUBSET Nat OBVIOUS
  <2> HIDE DEF B
  <2> QED BY <2>1, LeastNat
<1>2. i \in 1 .. n /\ i - 1 \in 0 .. n OBVIOUS
<1>3. i - 1 \in S BY <1>1, <1>2
<1> QED BY <1>2, <1>3

\* f repeats a step, from x on.
Repeats(f, x, G, n) == f[0] = x /\ \A i \in 1 .. n : f[i] = G[f[i - 1]]

\* A step that stays in a set can be repeated.
LEMMA Iterates ==
  ASSUME NEW n \in Nat, NEW S, NEW x \in S, NEW G \in [S -> S]
  PROVE  \E f \in [0 .. n -> S] : Repeats(f, x, G, n)
<1> DEFINE Long == {k \in 0 .. n : \E f \in [0 .. k -> S] : Repeats(f, x, G, k)}
<1>1. 0 \in Long
  <2> DEFINE f == [i \in 0 .. 0 |-> x]
  <2>1. f \in [0 .. 0 -> S] /\ Repeats(f, x, G, 0) BY DEF Repeats
  <2>2. 0 \in 0 .. n OBVIOUS
  <2> HIDE DEF f
  <2> QED BY <2>1, <2>2
<1>2. ASSUME NEW k \in 1 .. n, k - 1 \in Long PROVE k \in Long
  <2>1. PICK f \in [0 .. k - 1 -> S] : Repeats(f, x, G, k - 1) BY <1>2
  <2> DEFINE g == [i \in 0 .. k |-> IF i = k THEN G[f[k - 1]] ELSE f[i]]
  <2>2. G[f[k - 1]] \in S OBVIOUS
  <2>3. g \in [0 .. k -> S] BY <2>2
  <2>4. g[0] = x BY <2>1 DEF Repeats
  <2>5. ASSUME NEW i \in 1 .. k PROVE g[i] = G[g[i - 1]]
    <3>1. CASE i = k
      <4>1. k \in 0 .. k /\ k - 1 \in 0 .. k /\ k - 1 # k OBVIOUS
      <4>2. g[k] = G[f[k - 1]] /\ g[k - 1] = f[k - 1] BY <4>1
      <4> QED BY <3>1, <4>2
    <3>2. CASE i # k
      <4>1. i \in 1 .. k - 1 /\ i \in 0 .. k /\ i - 1 \in 0 .. k /\ i - 1 # k BY <3>2
      <4>2. f[i] = G[f[i - 1]] BY <4>1, <2>1 DEF Repeats
      <4> QED BY <3>2, <4>1, <4>2
    <3> QED BY <3>1, <3>2
  <2> HIDE DEF g
  <2>6. Repeats(g, x, G, k) BY <2>4, <2>5 DEF Repeats
  <2> QED BY <2>3, <2>6
<1> HIDE DEF Long
<1>3. n \in Long BY <1>1, <1>2, Upwards
<1> QED BY <1>3 DEF Long

LEMMA Sizes ==
  /\ N \in Nat /\ N >= 5 /\ EPC \in Nat /\ EPC >= 2
  /\ Parts \in [Names -> Nat \ {0}] /\ OldFile \in Names /\ DirNames \subseteq Names
  /\ "." \notin Names /\ "." \notin Bytes /\ ".." \notin Names /\ ".." \notin Bytes
  /\ \A w \in Writes : w[1] \in Nat /\ w[2] \in Nat \ {0}
  /\ ROOT \in Clusters /\ Clusters \subseteq Nat \ {0}
BY Fat32Assumption DEF ROOT, Clusters

---------------------------------------------------------------------------
(* The records of a cache.                                                 *)

\* The requests that no other contains: the blocks that are cached.
Outer ==
  {r \in Requests : \A q \in Requests : Extent(r[1], r[2]) \subseteq Extent(q[1], q[2]) => q = r}

CacheRecord ==
  {record \in [start : Nat, count : Nat \ {0}, data : UNION {[S -> Values] : S \in SUBSET Sectors}] :
     /\ <<record.start, record.count>> \in Outer
     /\ record.data \in [Span(record) -> Values]}

\* No sector is in two records.
Tidy(c) ==
  /\ c \in Seq(CacheRecord)
  /\ \A i, j \in 1 .. Len(c) : i # j => Span(c[i]) \intersect Span(c[j]) = {}

Held(c, s) == \E i \in 1 .. Len(c) : s \in Span(c[i])

\* View, as a function of the cache and the medium.
ViewOf(c, d, s) ==
  LET i == SelectInSeq(c, LAMBDA record : s \in Span(record))
  IN  IF i = 0 THEN d[s] ELSE c[i].data[s]

\* The inductive invariant.
CacheInv ==
  /\ Tidy(cache)
  /\ disk \in [Sectors -> Values]
  /\ kept \in [Sectors -> SUBSET Values]
  /\ failed \in BOOLEAN
  /\ \A s \in Sectors : disk[s] \in kept[s] /\ ViewOf(cache, disk, s) \in kept[s]

---------------------------------------------------------------------------
(* What a cache and a medium hold together.                                *)

LEMMA Bounds ==
  /\ \A r \in Requests : r = <<r[1], r[2]>> /\ r[1] \in Nat /\ r[2] \in Nat /\ r[2] > 0
  /\ \A r \in Requests : Extent(r[1], r[2]) \subseteq Sectors
  /\ \A c \in Seq(CacheRecord) : \A i \in 1 .. Len(c) :
       /\ c[i].start \in Nat /\ c[i].count \in Nat /\ c[i].count > 0
       /\ <<c[i].start, c[i].count>> \in Outer
       /\ Span(c[i]) \subseteq Sectors
       /\ c[i].data \in [Span(c[i]) -> Values]
<1>1. \A r \in Requests : r = <<r[1], r[2]>> /\ r[1] \in Nat /\ r[2] \in Nat /\ r[2] > 0
  BY CacheAssumption
<1>2. \A r \in Requests : Extent(r[1], r[2]) \subseteq Sectors BY CacheAssumption
<1>3. ASSUME NEW record \in CacheRecord
      PROVE  /\ record.start \in Nat /\ record.count \in Nat /\ record.count > 0
             /\ <<record.start, record.count>> \in Outer
             /\ Span(record) \subseteq Sectors
             /\ record.data \in [Span(record) -> Values]
  <2>1. /\ record.start \in Nat /\ record.count \in Nat \ {0}
        /\ <<record.start, record.count>> \in Outer
        /\ record.data \in [Span(record) -> Values]
    BY DEF CacheRecord
  <2>2. <<record.start, record.count>> \in Requests BY <2>1 DEF Outer
  <2> QED BY <1>2, <2>1, <2>2 DEF Span
<1> QED BY <1>1, <1>2, <1>3

LEMMA ViewHeld ==
  ASSUME NEW c, Tidy(c), NEW d, NEW i \in 1 .. Len(c), NEW s \in Span(c[i])
  PROVE  ViewOf(c, d, s) = c[i].data[s] /\ c[i].data[s] \in Values
<1> DEFINE I == {j \in 1 .. Len(c) : s \in Span(c[j])}
<1>1. Len(c) \in Nat BY DEF Tidy
<1>2. Min(I) \in I
  <2>1. I \in SUBSET Nat /\ I # {} OBVIOUS
  <2> HIDE DEF I
  <2> QED BY <2>1, MinIsLeast
<1>3. I = {i} BY DEF Tidy
<1>4. Min(I) = i /\ i # 0 /\ I # {} BY <1>2, <1>3
<1> HIDE DEF I
<1>5. ViewOf(c, d, s) = c[i].data[s] BY <1>4 DEF ViewOf, SelectInSeq, I
<1>6. c[i].data[s] \in Values BY Bounds DEF Tidy
<1> QED BY <1>5, <1>6

LEMMA ViewMissed ==
  ASSUME NEW c, NEW d, NEW s, ~ Held(c, s)
  PROVE  ViewOf(c, d, s) = d[s]
BY DEF ViewOf, SelectInSeq, Held

LEMMA ViewIsView == \A s : View(s) = ViewOf(cache, disk, s)
BY DEF View, ViewOf

LEMMA ViewIsValue ==
  ASSUME NEW c, Tidy(c), NEW d \in [Sectors -> Values], NEW s \in Sectors
  PROVE  ViewOf(c, d, s) \in Values
<1>1. CASE Held(c, s) BY <1>1, ViewHeld DEF Held
<1>2. CASE ~ Held(c, s) BY <1>2, ViewMissed
<1> QED BY <1>1, <1>2

---------------------------------------------------------------------------
(* Writing to the medium.                                                  *)

\* Writing the first records back leaves their data in the sectors they hold.
LEMMA BackHeld ==
  ASSUME Tidy(cache), NEW medium, NEW done \in 0 .. Len(cache), NEW s \in Sectors
  PROVE  /\ \A i \in 1 .. done :
              s \in Span(cache[i]) => WrittenBack(medium, done)[s] = cache[i].data[s]
         /\ (\A i \in 1 .. done : s \notin Span(cache[i]))
              => WrittenBack(medium, done)[s] = medium[s]
<1> DEFINE I == {j \in 1 .. done : s \in Span(cache[j])}
<1>1. Len(cache) \in Nat /\ done \in Nat BY DEF Tidy
<1>2. WrittenBack(medium, done)[s] =
        LET k == IF I # {} THEN Max(I) ELSE 0 IN IF k = 0 THEN medium[s] ELSE cache[k].data[s]
  BY DEF WrittenBack, SelectLastInSubSeq
<1>3. ASSUME NEW i \in 1 .. done, s \in Span(cache[i])
      PROVE  WrittenBack(medium, done)[s] = cache[i].data[s]
  <2>0. \A j \in 1 .. done : j \in 1 .. Len(cache) BY <1>1
  <2>1. I = {i} BY <1>3, <2>0 DEF Tidy
  <2>2. I \in SUBSET (1 .. done) /\ I # {} BY <2>1
  <2> HIDE DEF I
  <2>3. Max(I) \in I BY <1>1, <2>2, MaxIsGreatest
  <2>4. Max(I) = i /\ i # 0 BY <2>1, <2>3
  <2> QED BY <1>2, <2>2, <2>4
<1>4. ASSUME \A i \in 1 .. done : s \notin Span(cache[i])
      PROVE  WrittenBack(medium, done)[s] = medium[s]
  <2>1. I = {} BY <1>4
  <2> HIDE DEF I
  <2> QED BY <1>2, <2>1
<1> QED BY <1>3, <1>4

\* A flush, as far as it comes, gives some of the sectors that the cache holds
\* the values that it has for them; one that succeeds gives them to all.
LEMMA FlushMoves ==
  ASSUME Tidy(cache), NEW medium \in [Sectors -> Values], NEW outcome \in FlushOutcomes
  PROVE  LET flushed == Flushed(medium, outcome[1], outcome[2]) IN
         /\ flushed \in [Sectors -> Values]
         /\ \A s \in Sectors :
              \/ flushed[s] = medium[s] /\ (outcome[1] = Len(cache) => ~ Held(cache, s))
              \/ Held(cache, s) /\ flushed[s] = ViewOf(cache, disk, s)
<1> DEFINE back    == WrittenBack(medium, outcome[1])
           flushed == Flushed(medium, outcome[1], outcome[2])
<1>1. Len(cache) \in Nat BY DEF Tidy
<1>2. /\ outcome[1] \in 0 .. Len(cache) /\ outcome[2] \in Nat
      /\ outcome[2] # 0 => /\ outcome[1] \in 0 .. Len(cache) - 1
                           /\ outcome[2] \in 0 .. cache[outcome[1] + 1].count
  BY <1>1 DEF FlushOutcomes
<1>3. ASSUME NEW s \in Sectors
      PROVE  \/ back[s] = medium[s] /\ (outcome[1] = Len(cache) => ~ Held(cache, s))
             \/ Held(cache, s) /\ back[s] = ViewOf(cache, disk, s)
  <2>1. CASE \E i \in 1 .. outcome[1] : s \in Span(cache[i])
    <3>1. PICK i \in 1 .. outcome[1] : s \in Span(cache[i]) BY <2>1
    <3>2. i \in 1 .. Len(cache) BY <1>1, <1>2
    <3>3. back[s] = cache[i].data[s] BY <1>2, <3>1, BackHeld
    <3>4. ViewOf(cache, disk, s) = cache[i].data[s] BY <3>1, <3>2, ViewHeld
    <3> QED BY <3>1, <3>2, <3>3, <3>4 DEF Held
  <2>2. CASE \A i \in 1 .. outcome[1] : s \notin Span(cache[i])
    <3>1. back[s] = medium[s] BY <1>2, <2>2, BackHeld
    <3>2. outcome[1] = Len(cache) => ~ Held(cache, s) BY <2>2 DEF Held
    <3> QED BY <3>1, <3>2
  <2> QED BY <2>1, <2>2
<1>4. DOMAIN back = Sectors /\ back = [s \in Sectors |-> back[s]] BY DEF WrittenBack
<1>5. \A s \in Sectors : back[s] \in Values
  <2> HIDE DEF back
  <2>1. TAKE s \in Sectors
  <2>2. CASE back[s] = medium[s] BY <2>2
  <2>3. CASE Held(cache, s) /\ back[s] = ViewOf(cache, disk, s)
    BY <2>3, ViewHeld DEF Held
  <2> QED BY <1>3, <2>2, <2>3
<1> HIDE DEF back
<1>6. CASE outcome[2] = 0
  <2>1. flushed = back BY <1>6 DEF Flushed, back
  <2> QED BY <1>3, <1>4, <1>5, <2>1
<1>7. CASE outcome[2] # 0
  <2> DEFINE i == outcome[1] + 1
             part == Extent(cache[i].start, outcome[2])
  <2>1. i \in 1 .. Len(cache) /\ outcome[1] # Len(cache) BY <1>1, <1>2, <1>7
  <2>2. part \subseteq Span(cache[i])
    <3>1. cache[i].start \in Nat /\ cache[i].count \in Nat BY <2>1, Bounds DEF Tidy
    <3> QED BY <1>2, <1>7, <3>1, SMTT(30) DEF Extent, Span
  <2>3. flushed = [s \in Sectors |-> IF s \in part THEN cache[i].data[s] ELSE back[s]]
    BY <1>7 DEF Flushed, Written, back
  <2>4. ASSUME NEW s \in Sectors
        PROVE  /\ flushed[s] \in Values
               /\ \/ flushed[s] = medium[s]
                  \/ Held(cache, s) /\ flushed[s] = ViewOf(cache, disk, s)
    <3>1. CASE s \in part
      <4>1. s \in Span(cache[i]) BY <2>2, <3>1
      <4>2. ViewOf(cache, disk, s) = cache[i].data[s] /\ cache[i].data[s] \in Values
        BY <2>1, <4>1, ViewHeld
      <4> QED BY <2>1, <2>3, <3>1, <4>1, <4>2 DEF Held
    <3>2. CASE s \notin part BY <1>3, <1>5, <2>3, <3>2
    <3> QED BY <3>1, <3>2
  <2> HIDE DEF flushed, part
  <2>5. flushed \in [Sectors -> Values] BY <2>3, <2>4
  <2> QED BY <2>1, <2>4, <2>5 DEF flushed
<1> QED BY <1>6, <1>7
---------------------------------------------------------------------------
(* Requests that hit and requests that miss.                               *)

LEMMA Covering ==
  ASSUME Tidy(cache), NEW start, NEW count
  PROVE  LET i == disk_get_covering(start, count)
             Covers(k) == /\ start >= cache[k].start
                          /\ start + count <= cache[k].start + cache[k].count
         IN  /\ i # 0 => i \in 1 .. Len(cache) /\ Covers(i)
             /\ i = 0 => \A k \in 1 .. Len(cache) : ~ Covers(k)
<1> DEFINE I == {k \in 1 .. Len(cache) :
                   start >= cache[k].start /\ start + count <= cache[k].start + cache[k].count}
<1>1. disk_get_covering(start, count) = IF I # {} THEN Min(I) ELSE 0
  BY DEF disk_get_covering, SelectInSeq
<1>2. Len(cache) \in Nat BY DEF Tidy
<1>3. I # {} => Min(I) \in I
  <2>1. I \in SUBSET Nat OBVIOUS
  <2> HIDE DEF I
  <2> QED BY <2>1, MinIsLeast
<1>4. \A k \in I : k \in 1 .. Len(cache) /\ k # 0 /\ start >= cache[k].start
                   /\ start + count <= cache[k].start + cache[k].count
  OBVIOUS
<1>5. I = {} => \A k \in 1 .. Len(cache) :
        ~ (start >= cache[k].start /\ start + count <= cache[k].start + cache[k].count)
  OBVIOUS
<1> HIDE DEF I
<1> QED BY <1>1, <1>3, <1>4, <1>5

\* A request that hits is inside the record that it hits.
LEMMA HitInside ==
  ASSUME Tidy(cache), NEW r \in Requests, disk_get_covering(r[1], r[2]) # 0
  PROVE  LET i == disk_get_covering(r[1], r[2]) IN
         i \in 1 .. Len(cache) /\ Extent(r[1], r[2]) \subseteq Span(cache[i])
<1> DEFINE i == disk_get_covering(r[1], r[2])
<1>1. /\ i \in 1 .. Len(cache)
      /\ r[1] >= cache[i].start /\ r[1] + r[2] <= cache[i].start + cache[i].count
  BY Covering
<1>2. r[1] \in Nat /\ r[2] \in Nat /\ cache[i].start \in Nat /\ cache[i].count \in Nat
  BY <1>1, Bounds DEF Tidy
<1> HIDE DEF i
<1>3. ASSUME NEW x \in Extent(r[1], r[2]) PROVE x \in Span(cache[i])
  <2> DEFINE start == cache[i].start
             count == cache[i].count
  <2>1. x \in r[1] .. r[1] + r[2] - 1 BY DEF Extent
  <2>2. start \in Nat /\ count \in Nat /\ r[1] >= start /\ r[1] + r[2] <= start + count
    BY <1>1, <1>2
  <2>3. Span(cache[i]) = start .. start + count - 1 BY DEF Span, Extent
  <2> HIDE DEF start, count
  <2> QED BY <1>2, <2>1, <2>2, <2>3
<1> QED BY <1>1, <1>3 DEF i

\* A request that misses is for a whole block, none of which is cached.
LEMMA MissOutside ==
  ASSUME Tidy(cache), NEW r \in Requests,
         Disciplined(r[1], r[2]), disk_get_covering(r[1], r[2]) = 0
  PROVE  r \in Outer /\ \A i \in 1 .. Len(cache) : Span(cache[i]) \intersect Extent(r[1], r[2]) = {}
<1>1. /\ r = <<r[1], r[2]>> /\ r[1] \in Nat /\ r[2] \in Nat /\ r[2] > 0
  BY Bounds
<1>2. ASSUME NEW i \in 1 .. Len(cache) PROVE ~ (Extent(r[1], r[2]) \subseteq Span(cache[i]))
  <2>1. cache[i].start \in Nat /\ cache[i].count \in Nat BY Bounds DEF Tidy
  <2>2. ~ (r[1] >= cache[i].start /\ r[1] + r[2] <= cache[i].start + cache[i].count)
    BY Covering
  <2>3. r[1] \in Extent(r[1], r[2]) /\ r[1] + r[2] - 1 \in Extent(r[1], r[2]) BY <1>1 DEF Extent
  <2>4. SUFFICES ASSUME r[1] \in Span(cache[i]), r[1] + r[2] - 1 \in Span(cache[i]) PROVE FALSE
    BY <2>3
  <2> QED BY <1>1, <2>1, <2>2, <2>4 DEF Span, Extent
<1>3. ASSUME NEW q \in Requests, Extent(r[1], r[2]) \subseteq Extent(q[1], q[2]), q # r
      PROVE  FALSE
  <2>1. disk_get_covering(q[1], q[2]) # 0 BY <1>1, <1>3 DEF Disciplined
  <2>2. PICK i \in 1 .. Len(cache) : Extent(q[1], q[2]) \subseteq Span(cache[i])
    BY <2>1, HitInside
  <2> QED BY <1>2, <1>3, <2>2
<1>4. r \in Outer BY <1>3 DEF Outer
<1>5. ASSUME NEW i \in 1 .. Len(cache), Span(cache[i]) \intersect Extent(r[1], r[2]) # {}
      PROVE  FALSE
  <2> DEFINE q == <<cache[i].start, cache[i].count>>
  <2>1. q \in Outer /\ q \in Requests BY Bounds DEF Tidy, Outer
  <2>2. Extent(q[1], q[2]) = Span(cache[i]) BY DEF Span
  <2>3. ~ (Extent(r[1], r[2]) \subseteq Extent(q[1], q[2])) BY <1>2, <2>2
  <2>4. Extent(q[1], q[2]) \subseteq Extent(r[1], r[2])
    BY <1>5, <2>1, <2>2, <2>3, CacheAssumption
  <2>5. q = r BY <2>1, <2>4 DEF Outer
  <2> QED BY <2>3, <2>5
<1> QED BY <1>4, <1>5

---------------------------------------------------------------------------
(* Adding a record.                                                        *)

\* When the new record shares no sector with the cache, all others are left.
LEMMA AllLeft ==
  ASSUME Tidy(cache), NEW record,
         \A i \in 1 .. Len(cache) : Span(cache[i]) \intersect Span(record) = {}
  PROVE  Left(record)[Len(cache)] = cache
<1> DEFINE Step(f) == [i \in 0 .. Len(cache) |->
                         IF i = 0 THEN <<>>
                         ELSE IF Span(cache[i]) \intersect Span(record) = {}
                              THEN Append(f[i - 1], cache[i]) ELSE f[i - 1]]
           all == [i \in 0 .. Len(cache) |-> SubSeq(cache, 1, i)]
           some == Left(record)
<1>1. Len(cache) \in Nat /\ cache \in Seq(CacheRecord) BY DEF Tidy
<1>2. \A i \in 1 .. Len(cache) :
        SubSeq(cache, 1, i) = Append(SubSeq(cache, 1, i - 1), cache[i])
  BY <1>1
<1>3. SubSeq(cache, 1, 0) = <<>> BY <1>1
<1>4. all = Step(all)
  <2>1. ASSUME NEW i \in 0 .. Len(cache) PROVE all[i] = Step(all)[i]
    <3>1. CASE i = 0 BY <1>3, <3>1
    <3>2. CASE i # 0
      <4>1. i \in 1 .. Len(cache) /\ i - 1 \in 0 .. Len(cache) BY <1>1, <3>2
      <4>2. all[i - 1] = SubSeq(cache, 1, i - 1) BY <4>1
      <4> QED BY <1>2, <3>2, <4>1, <4>2
    <3> QED BY <3>1, <3>2
  <2> QED BY <2>1
<1>5. some = CHOOSE f : f = Step(f) BY DEF Left
<1> HIDE DEF some, all
<1>6. some = Step(some) BY <1>4, <1>5
<1> DEFINE S == {i \in 0 .. Len(cache) : some[i] # SubSeq(cache, 1, i)}
<1>7. S = {}
  <2>1. SUFFICES ASSUME S # {} PROVE FALSE OBVIOUS
  <2>2. S \in SUBSET Nat BY <1>1
  <2>3. PICK i \in S : \A j \in S : i <= j BY <2>1, <2>2, LeastNat
  <2>4. i \in 0 .. Len(cache) /\ some[i] # SubSeq(cache, 1, i) OBVIOUS
  <2>5. some[i] = Step(some)[i] BY <1>6
  <2>6. i # 0 BY <1>3, <2>4, <2>5
  <2>7. i \in 1 .. Len(cache) /\ i - 1 \in 0 .. Len(cache) /\ i - 1 \notin S
    BY <1>1, <2>3, <2>4, <2>6
  <2>8. some[i - 1] = SubSeq(cache, 1, i - 1) BY <2>7
  <2>9. some[i] = Append(some[i - 1], cache[i]) BY <2>4, <2>5, <2>6, <2>7
  <2> QED BY <1>2, <2>4, <2>7, <2>8, <2>9
<1>8. some[Len(cache)] = SubSeq(cache, 1, Len(cache)) BY <1>1, <1>7
<1>9. SubSeq(cache, 1, Len(cache)) = cache BY <1>1
<1> QED BY <1>8, <1>9 DEF some

LEMMA AddedTo ==
  ASSUME Tidy(cache), NEW r \in Requests, NEW value \in [Sectors -> Values],
         Disciplined(r[1], r[2]), disk_get_covering(r[1], r[2]) = 0
  PROVE  LET after == Added(Record(r[1], r[2], value)) IN
         /\ Tidy(after)
         /\ \A s \in Extent(r[1], r[2]) : \A d :
              ViewOf(after, d, s) = IF r[2] > DISK_MAX_CACHE_BLOCK THEN d[s] ELSE value[s]
         /\ \A s \in Sectors \ Extent(r[1], r[2]) : \A d, e :
              ViewOf(after, d, s) = IF Held(cache, s) THEN ViewOf(cache, e, s) ELSE d[s]
<1> DEFINE record == Record(r[1], r[2], value)
           after == Added(record)
           range == Extent(r[1], r[2])
<1>1. /\ r = <<r[1], r[2]>> /\ r[1] \in Nat /\ r[2] \in Nat /\ r[2] > 0 /\ range \subseteq Sectors
  BY Bounds
<1>2. r \in Outer /\ \A i \in 1 .. Len(cache) : Span(cache[i]) \intersect range = {}
  BY MissOutside
<1>3. /\ record.start = r[1] /\ record.count = r[2] /\ Span(record) = range
      /\ record.data = [s \in range |-> value[s]]
  BY DEF Record, Span
<1>4. record \in CacheRecord
  <2>1. record.data \in [range -> Values] BY <1>1, <1>3
  <2>2. record.data \in UNION {[S -> Values] : S \in SUBSET Sectors} BY <1>1, <2>1
  <2>3. record = [start |-> r[1], count |-> r[2], data |-> record.data] BY DEF Record
  <2>4. r[2] \in Nat \ {0} BY <1>1
  <2> HIDE DEF record
  <2>5. record \in [start : Nat, count : Nat \ {0},
                    data : UNION {[S -> Values] : S \in SUBSET Sectors}]
    BY <1>1, <2>2, <2>3, <2>4
  <2>6. <<record.start, record.count>> \in Outer BY <1>1, <1>2, <1>3
  <2> QED BY <1>3, <2>1, <2>5, <2>6 DEF CacheRecord
<1>5. Len(cache) \in Nat /\ cache \in Seq(CacheRecord) BY DEF Tidy
<1>6. ASSUME NEW s \in range PROVE ~ Held(cache, s) BY <1>2 DEF Held
<1>7. CASE r[2] > DISK_MAX_CACHE_BLOCK
  <2>1. after = cache BY <1>3, <1>7 DEF Added
  <2>2. ASSUME NEW s, NEW d, NEW e
        PROVE  ViewOf(cache, d, s) = IF Held(cache, s) THEN ViewOf(cache, e, s) ELSE d[s]
    <3>1. CASE Held(cache, s)
      <4>1. PICK i \in 1 .. Len(cache) : s \in Span(cache[i]) BY <3>1 DEF Held
      <4> QED BY <3>1, <4>1, ViewHeld
    <3>2. CASE ~ Held(cache, s) BY <3>2, ViewMissed
    <3> QED BY <3>1, <3>2
  <2>3. \A s \in range : \A d : ViewOf(cache, d, s) = d[s] BY <1>6, ViewMissed
  <2> QED BY <1>7, <2>1, <2>2, <2>3
<1>8. CASE ~ (r[2] > DISK_MAX_CACHE_BLOCK)
  <2> DEFINE n == Len(cache)
  <2>1. Left(record)[n] = cache BY <1>2, <1>3, AllLeft
  <2>2. after = Append(cache, record) BY <1>3, <1>8, <2>1 DEF Added
  <2> HIDE DEF record
  <2>3. /\ after \in Seq(CacheRecord) /\ Len(after) = n + 1 /\ after[n + 1] = record
        /\ \A i \in 1 .. n : after[i] = cache[i] /\ i \in 1 .. n + 1
    BY <1>4, <1>5, <2>2
  <2> HIDE DEF after
  <2>4. \A i \in 1 .. n + 1 : i \in 1 .. n \/ i = n + 1 BY <1>5
  <2>5. Tidy(after)
    <3>1. ASSUME NEW i \in 1 .. n + 1, NEW j \in 1 .. n + 1, i # j
          PROVE  Span(after[i]) \intersect Span(after[j]) = {}
      <4>1. CASE i \in 1 .. n /\ j \in 1 .. n BY <2>3, <3>1, <4>1 DEF Tidy
      <4>2. CASE i = n + 1 \/ j = n + 1 BY <1>2, <1>3, <2>3, <2>4, <3>1, <4>2
      <4> QED BY <2>4, <4>1, <4>2
    <3> QED BY <2>3, <3>1 DEF Tidy
  <2>6. ASSUME NEW s \in range, NEW d PROVE ViewOf(after, d, s) = value[s]
    <3>1. n + 1 \in 1 .. Len(after) /\ s \in Span(after[n + 1]) BY <1>3, <1>5, <2>3
    <3>2. ViewOf(after, d, s) = after[n + 1].data[s] BY <2>5, <3>1, ViewHeld
    <3> QED BY <1>3, <2>3, <3>2
  <2>7. ASSUME NEW s \in Sectors \ range, NEW d, NEW e
        PROVE  ViewOf(after, d, s) = IF Held(cache, s) THEN ViewOf(cache, e, s) ELSE d[s]
    <3>1. CASE Held(cache, s)
      <4>1. PICK i \in 1 .. n : s \in Span(cache[i]) BY <3>1 DEF Held
      <4>2. ViewOf(cache, e, s) = cache[i].data[s] BY <4>1, ViewHeld, ZenonT(60)
      <4>3. i \in 1 .. Len(after) /\ s \in Span(after[i]) BY <2>3, <4>1
      <4>4. ViewOf(after, d, s) = after[i].data[s] BY <2>5, <4>3, ViewHeld, ZenonT(60)
      <4> QED BY <2>3, <3>1, <4>2, <4>4
    <3>2. CASE ~ Held(cache, s)
      <4>1. ~ Held(after, s)
        <5>1. s \notin Span(after[n + 1]) BY <1>3, <2>3
        <5>2. \A i \in 1 .. n : s \notin Span(after[i]) BY <2>3, <3>2 DEF Held
        <5> QED BY <2>3, <2>4, <5>1, <5>2 DEF Held
      <4> QED BY <3>2, <4>1, ViewMissed
    <3> QED BY <3>1, <3>2
  <2> QED BY <1>8, <2>5, <2>6, <2>7 DEF after, record
<1> QED BY <1>7, <1>8

\* A miss, with the flush that comes before the record is added.
LEMMA MissMoves ==
  ASSUME Tidy(cache), NEW r \in Requests,
         Disciplined(r[1], r[2]), disk_get_covering(r[1], r[2]) = 0,
         NEW value \in [Sectors -> Values], NEW medium \in [Sectors -> Values],
         \A s \in Extent(r[1], r[2]) : medium[s] = value[s],
         \A s \in Sectors \ Extent(r[1], r[2]) : medium[s] = disk[s],
         NEW outcome \in AddOutcomes(r[2])
  PROVE  LET after   == Added(Record(r[1], r[2], value))
             flushed == Flushed(medium, outcome[1], outcome[2])
         IN  /\ Tidy(after)
             /\ flushed \in [Sectors -> Values]
             /\ \A s \in Extent(r[1], r[2]) :
                  flushed[s] = value[s] /\ ViewOf(after, flushed, s) = value[s]
             /\ \A s \in Sectors \ Extent(r[1], r[2]) :
                  /\ flushed[s] \in {disk[s], ViewOf(cache, disk, s)}
                  /\ ViewOf(after, flushed, s) = ViewOf(cache, disk, s)
<1> DEFINE after   == Added(Record(r[1], r[2], value))
           flushed == Flushed(medium, outcome[1], outcome[2])
           range   == Extent(r[1], r[2])
<1>1. outcome \in FlushOutcomes
  <2>1. Len(cache) \in Nat /\ (Len(cache) # 0 => cache[1].count \in Nat)
    <3>1. Len(cache) \in Nat /\ cache \in Seq(CacheRecord) BY DEF Tidy
    <3>2. Len(cache) # 0 => 1 \in 1 .. Len(cache) BY <3>1
    <3> QED BY <3>1, <3>2, Bounds
  <2>2. CASE TransferWorks /\ Len(cache) # 0
    <3>1. 0 \in 0 .. Len(cache) - 1 /\ 0 \in 0 .. cache[0 + 1].count BY <2>1, <2>2
    <3> QED BY <2>2, <3>1 DEF AddOutcomes, FlushOutcomes
  <2>3. CASE TransferWorks /\ Len(cache) = 0 BY <2>3 DEF AddOutcomes, FlushOutcomes
  <2>4. CASE ~ TransferWorks BY <2>4 DEF AddOutcomes, FlushOutcomes
  <2> QED BY <2>2, <2>3, <2>4
<1>2. /\ flushed \in [Sectors -> Values]
      /\ \A s \in Sectors : \/ flushed[s] = medium[s]
                            \/ Held(cache, s) /\ flushed[s] = ViewOf(cache, disk, s)
  BY <1>1, FlushMoves
<1>3. /\ Tidy(after)
      /\ \A s \in range : \A d :
           ViewOf(after, d, s) = IF r[2] > DISK_MAX_CACHE_BLOCK THEN d[s] ELSE value[s]
      /\ \A s \in Sectors \ range : \A d, e :
           ViewOf(after, d, s) = IF Held(cache, s) THEN ViewOf(cache, e, s) ELSE d[s]
  BY AddedTo
<1>4. \A s \in range : s \in Sectors /\ ~ Held(cache, s)
  BY MissOutside, Bounds DEF Held
<1> HIDE DEF after, flushed
<1>5. ASSUME NEW s \in range PROVE flushed[s] = value[s] /\ ViewOf(after, flushed, s) = value[s]
  BY <1>2, <1>3, <1>4
<1>6. ASSUME NEW s \in Sectors \ range
      PROVE  /\ flushed[s] \in {disk[s], ViewOf(cache, disk, s)}
             /\ ViewOf(after, flushed, s) = ViewOf(cache, disk, s)
  <2>1. CASE Held(cache, s) BY <1>2, <1>3, <2>1
  <2>2. CASE ~ Held(cache, s)
    <3>1. flushed[s] = disk[s] BY <1>2, <2>2
    <3>2. ViewOf(cache, disk, s) = disk[s] BY <2>2, ViewMissed
    <3>3. ViewOf(after, flushed, s) = flushed[s] BY <1>3, <2>2
    <3> QED BY <3>1, <3>2, <3>3
  <2> QED BY <2>1, <2>2
<1> QED BY <1>2, <1>3, <1>5, <1>6 DEF after, flushed
---------------------------------------------------------------------------
(* The steps.                                                              *)

\* What a read of each sector returns.
Now(c, d) == [s \in Sectors |-> ViewOf(c, d, s)]

LEMMA NowIsRead ==
  /\ [s \in Sectors |-> View(s)] = Now(cache, disk)
  /\ [s \in Sectors |-> View(s)]' = Now(cache', disk')
<1>1. \A s : View(s) = ViewOf(cache, disk, s) BY ViewIsView
<1>2. \A s : View(s)' = ViewOf(cache', disk', s) BY DEF View, ViewOf, SelectInSeq
<1> QED BY <1>1, <1>2 DEF Now

\* A flush changes no view.
LEMMA FlushShows ==
  ASSUME Tidy(cache), NEW flushed,
         \A s \in Sectors : \/ flushed[s] = disk[s]
                            \/ Held(cache, s) /\ flushed[s] = ViewOf(cache, disk, s)
  PROVE  \A s \in Sectors : /\ ViewOf(cache, flushed, s) = ViewOf(cache, disk, s)
                            /\ flushed[s] \in {disk[s], ViewOf(cache, disk, s)}
<1>1. ASSUME NEW s \in Sectors
      PROVE  /\ ViewOf(cache, flushed, s) = ViewOf(cache, disk, s)
             /\ flushed[s] \in {disk[s], ViewOf(cache, disk, s)}
  <2>1. CASE Held(cache, s)
    <3>1. PICK i \in 1 .. Len(cache) : s \in Span(cache[i]) BY <2>1 DEF Held
    <3> QED BY <3>1, ViewHeld
  <2>2. CASE ~ Held(cache, s) BY <2>2, ViewMissed
  <2> QED BY <2>1, <2>2
<1> QED BY <1>1

LEMMA ReadStep ==
  ASSUME CacheInv, NEW r \in Requests, disk_read_sync(r[1], r[2])
  PROVE  CacheInv' /\ BD!Other
<1> DEFINE range == Extent(r[1], r[2])
<1>1. /\ Disciplined(r[1], r[2]) /\ disk_get_covering(r[1], r[2]) = 0
      /\ Tidy(cache) /\ disk \in [Sectors -> Values]
  BY DEF disk_read_sync, CacheInv
<1>2. failed' = FALSE /\ kept' = kept BY DEF disk_read_sync
<1>3. /\ Tidy(cache')
      /\ disk' \in [Sectors -> Values]
      /\ \A s \in Sectors : /\ disk'[s] \in {disk[s], ViewOf(cache, disk, s)}
                            /\ ViewOf(cache', disk', s) = ViewOf(cache, disk, s)
  <2>1. CASE UNCHANGED <<disk, cache>> BY <1>1, <2>1
  <2>2. CASE \E outcome \in AddOutcomes(r[2]) :
               /\ disk' = Flushed(disk, outcome[1], outcome[2])
               /\ cache' = Added(Record(r[1], r[2], disk))
    <3>1. PICK outcome \in AddOutcomes(r[2]) :
               /\ disk' = Flushed(disk, outcome[1], outcome[2])
               /\ cache' = Added(Record(r[1], r[2], disk))
      BY <2>2
    <3>2. /\ Tidy(cache') /\ disk' \in [Sectors -> Values]
          /\ \A s \in range : disk'[s] = disk[s] /\ ViewOf(cache', disk', s) = disk[s]
          /\ \A s \in Sectors \ range :
               /\ disk'[s] \in {disk[s], ViewOf(cache, disk, s)}
               /\ ViewOf(cache', disk', s) = ViewOf(cache, disk, s)
      BY <1>1, <3>1, MissMoves
    <3>3. \A s \in range : ViewOf(cache, disk, s) = disk[s]
      BY <1>1, MissOutside, ViewMissed DEF Held
    <3> QED BY <3>2, <3>3
  <2> QED BY <2>1, <2>2 DEF disk_read_sync
<1>4. CacheInv' BY <1>2, <1>3 DEF CacheInv
<1>5. Now(cache', disk') = Now(cache, disk) BY <1>3 DEF Now
<1> QED BY <1>2, <1>4, <1>5, NowIsRead DEF BD!Other

\* The record that a write changes is as tidy, and shows what was written.
LEMMA HitShows ==
  ASSUME Tidy(cache), NEW r \in Requests, NEW v \in Values, WriteHit(r[1], r[2], v)
  PROVE  /\ Tidy(cache')
         /\ \A s \in Sectors :
              ViewOf(cache', disk, s) = IF s \in Extent(r[1], r[2]) THEN v ELSE ViewOf(cache, disk, s)
<1> DEFINE range == Extent(r[1], r[2])
           i == disk_get_covering(r[1], r[2])
           old == cache[i]
           record == [old EXCEPT !.data =
                        [s \in DOMAIN @ |-> IF s \in range THEN v ELSE @[s]]]
<1>1. i \in 1 .. Len(cache) /\ range \subseteq Span(old) BY HitInside DEF WriteHit
<1>2. cache \in Seq(CacheRecord) /\ Len(cache) \in Nat BY DEF Tidy
<1>4. cache' = [cache EXCEPT ![i] = record] BY DEF WriteHit
<1> HIDE DEF i
<1>3. old \in CacheRecord /\ old.data \in [Span(old) -> Values]
  <2>1. old \in CacheRecord BY <1>1, <1>2
  <2> QED BY <2>1 DEF CacheRecord
<1> HIDE DEF old
<1>5. /\ record.start = old.start /\ record.count = old.count /\ Span(record) = Span(old)
      /\ record.data = [s \in Span(old) |-> IF s \in range THEN v ELSE old.data[s]]
  BY <1>3 DEF CacheRecord, Span
<1>6. record \in CacheRecord
  <2>1. record.data \in [Span(old) -> Values] BY <1>3, <1>5
  <2>2. Span(old) \in SUBSET Sectors BY <1>1, <1>2, Bounds DEF old
  <2>3. record.data \in UNION {[S -> Values] : S \in SUBSET Sectors} BY <2>1, <2>2
  <2>4. record \in [start : Nat, count : Nat \ {0},
                    data : UNION {[S -> Values] : S \in SUBSET Sectors}]
    BY <1>3, <2>3 DEF CacheRecord
  <2>5. <<record.start, record.count>> \in Outer BY <1>3, <1>5 DEF CacheRecord
  <2> HIDE DEF record
  <2> QED BY <1>5, <2>1, <2>4, <2>5 DEF CacheRecord
<1> HIDE DEF record
<1>7. /\ cache' \in Seq(CacheRecord) /\ Len(cache') = Len(cache) /\ cache'[i] = record
      /\ \A j \in 1 .. Len(cache) : j # i => cache'[j] = cache[j]
  BY <1>1, <1>2, <1>4, <1>6
<1>8. \A j \in 1 .. Len(cache) : Span(cache'[j]) = Span(cache[j]) BY <1>5, <1>7 DEF old
<1>9. Tidy(cache') BY <1>7, <1>8 DEF Tidy
<1>10. ASSUME NEW s \in Sectors
       PROVE  ViewOf(cache', disk, s) = IF s \in range THEN v ELSE ViewOf(cache, disk, s)
  <2>1. CASE Held(cache, s)
    <3>1. PICK j \in 1 .. Len(cache) : s \in Span(cache[j]) BY <2>1 DEF Held
    <3>2. ViewOf(cache, disk, s) = cache[j].data[s] BY <3>1, ViewHeld
    <3>3. j \in 1 .. Len(cache') /\ s \in Span(cache'[j]) BY <1>7, <1>8, <3>1
    <3>4. ViewOf(cache', disk, s) = cache'[j].data[s] BY <1>9, <3>3, ViewHeld
    <3>5. CASE j = i BY <1>5, <1>7, <3>1, <3>2, <3>4, <3>5 DEF old
    <3>6. CASE j # i
      <4>1. s \notin range BY <1>1, <3>1, <3>6 DEF Tidy, old
      <4> QED BY <1>7, <3>2, <3>4, <3>6, <4>1
    <3> QED BY <3>5, <3>6
  <2>2. CASE ~ Held(cache, s)
    <3>1. s \notin range BY <1>1, <2>2 DEF Held, old
    <3>2. ~ Held(cache', s) BY <1>7, <1>8, <2>2 DEF Held
    <3> QED BY <2>2, <3>1, <3>2, ViewMissed
  <2> QED BY <2>1, <2>2
<1> QED BY <1>9, <1>10

LEMMA WriteStep ==
  ASSUME CacheInv, NEW r \in Requests, NEW v \in Values, disk_write_sync(r[1], r[2], v)
  PROVE  CacheInv' /\ (BD!Write(Extent(r[1], r[2]), v) \/ BD!WriteFails(Extent(r[1], r[2]), v))
<1> DEFINE range == Extent(r[1], r[2])
           record == Record(r[1], r[2], [s \in Sectors |-> v])
<1>1. /\ Disciplined(r[1], r[2]) /\ Tidy(cache) /\ disk \in [Sectors -> Values]
      /\ kept \in [Sectors -> SUBSET Values]
      /\ \A s \in Sectors : disk[s] \in kept[s] /\ ViewOf(cache, disk, s) \in kept[s]
  BY DEF disk_write_sync, CacheInv
<1>2. kept' = [s \in Sectors |-> IF s \in range THEN kept[s] \union {v} ELSE kept[s]]
  BY DEF disk_write_sync
<1>3. range \subseteq Sectors BY Bounds
<1> DEFINE Kept ==
      /\ Tidy(cache') /\ disk' \in [Sectors -> Values]
      /\ \A s \in Sectors :
           /\ disk'[s] \in IF s \in range THEN {v, disk[s], ViewOf(cache, disk, s)}
                                           ELSE {disk[s], ViewOf(cache, disk, s)}
           /\ ViewOf(cache', disk', s)
                \in IF s \in range THEN {v, disk[s]} ELSE {ViewOf(cache, disk, s)}
<1>4. ASSUME Kept, failed' \in BOOLEAN PROVE CacheInv'
  <2>1. kept' \in [Sectors -> SUBSET Values] BY <1>1, <1>2
  <2>2. \A s \in Sectors : disk'[s] \in kept'[s] /\ ViewOf(cache', disk', s) \in kept'[s]
    BY <1>1, <1>2, <1>4
  <2> QED BY <1>4, <2>1, <2>2 DEF CacheInv
<1>5. ASSUME Kept, ~ failed',
             \A s \in range : ViewOf(cache', disk', s) = v
      PROVE  CacheInv' /\ BD!Write(range, v)
  <2>1. CacheInv' BY <1>4, <1>5 DEF disk_write_sync, WriteHit, WriteMiss
  <2>2. Now(cache', disk') = [s \in Sectors |-> IF s \in range THEN v ELSE Now(cache, disk)[s]]
    BY <1>5 DEF Now
  <2>3. BD!Write(range, v) BY <1>2, <1>5, <2>2, NowIsRead DEF BD!Write, BD!Kept
  <2> QED BY <2>1, <2>3
<1>6. CASE WriteHit(r[1], r[2], v)
  <2>1. disk' = disk /\ failed' = FALSE BY <1>6 DEF WriteHit
  <2>2. /\ Tidy(cache')
        /\ \A s \in Sectors :
             ViewOf(cache', disk, s) = IF s \in range THEN v ELSE ViewOf(cache, disk, s)
    BY <1>1, <1>6, HitShows
  <2> QED BY <1>1, <1>3, <1>5, <2>1, <2>2
<1>7. CASE WriteMiss(r[1], r[2], v)
  <2> DEFINE value == [s \in Sectors |-> v]
  <2>1. disk_get_covering(r[1], r[2]) = 0 BY <1>7 DEF WriteMiss
  <2>2. \A n, s : Written(disk, record, n) =
          [t \in Sectors |-> IF t \in Extent(r[1], n) THEN record.data[t] ELSE disk[t]]
    BY DEF Written, Record
  <2>3. \A s \in range : record.data[s] = v BY <1>3 DEF Record
  <2>4. CASE \E outcome \in AddOutcomes(r[2]) :
               /\ disk' = Flushed(Written(disk, record, r[2]), outcome[1], outcome[2])
               /\ cache' = Added(record) /\ failed' = FALSE
    <3> DEFINE medium == Written(disk, record, r[2])
    <3>1. PICK outcome \in AddOutcomes(r[2]) :
               /\ disk' = Flushed(medium, outcome[1], outcome[2])
               /\ cache' = Added(record) /\ failed' = FALSE
      BY <2>4
    <3>2. /\ medium \in [Sectors -> Values]
          /\ \A s \in range : medium[s] = value[s]
          /\ \A s \in Sectors \ range : medium[s] = disk[s]
      <4>1. medium = [t \in Sectors |-> IF t \in range THEN record.data[t] ELSE disk[t]] BY <2>2
      <4> QED BY <1>1, <1>3, <2>3, <4>1
    <3>3. value \in [Sectors -> Values] OBVIOUS
    <3> HIDE DEF medium
    <3>4. /\ Tidy(cache') /\ disk' \in [Sectors -> Values]
          /\ \A s \in range : disk'[s] = value[s] /\ ViewOf(cache', disk', s) = value[s]
          /\ \A s \in Sectors \ range :
               /\ disk'[s] \in {disk[s], ViewOf(cache, disk, s)}
               /\ ViewOf(cache', disk', s) = ViewOf(cache, disk, s)
      BY <1>1, <2>1, <3>1, <3>2, <3>3, MissMoves
    <3>5. Kept /\ \A s \in range : ViewOf(cache', disk', s) = v BY <1>3, <3>4
    <3> QED BY <1>5, <3>1, <3>5
  <2>5. CASE /\ \E n \in 0 .. r[2] : disk' = Written(disk, record, n)
             /\ cache' = cache /\ failed' = TRUE
    <3>1. PICK n \in 0 .. r[2] : disk' = Written(disk, record, n) BY <2>5
    <3> DEFINE reached == Extent(r[1], n)
    <3>2. reached \subseteq range
      <4>1. r[1] \in Nat /\ r[2] \in Nat BY Bounds
      <4> QED BY <4>1 DEF Extent
    <3>3. disk' = [s \in Sectors |-> IF s \in reached THEN v ELSE disk[s]]
      BY <2>2, <2>3, <3>1, <3>2
    <3>4. disk' \in [Sectors -> Values] BY <1>1, <3>3
    <3>5. \A s \in range : ~ Held(cache, s) BY <1>1, <2>1, MissOutside DEF Held
    <3>6. ASSUME NEW s \in Sectors
          PROVE  ViewOf(cache', disk', s) = IF s \in reached THEN v ELSE ViewOf(cache, disk, s)
      <4>1. CASE Held(cache, s)
        <5>1. PICK j \in 1 .. Len(cache) : s \in Span(cache[j]) BY <4>1 DEF Held
        <5>2. s \notin reached BY <3>2, <3>5, <4>1
        <5> QED BY <1>1, <2>5, <5>1, <5>2, ViewHeld, ZenonT(60)
      <4>2. CASE ~ Held(cache, s) BY <2>5, <3>3, <4>2, ViewMissed
      <4> QED BY <4>1, <4>2
    <3>7. \A s \in range : ViewOf(cache, disk, s) = disk[s] BY <3>5, ViewMissed
    <3>8. Kept BY <1>1, <2>5, <3>2, <3>3, <3>4, <3>6, <3>7
    <3>9. Now(cache', disk') = [s \in Sectors |-> IF s \in reached THEN v ELSE Now(cache, disk)[s]]
      BY <3>6 DEF Now
    <3>10. BD!WriteFails(range, v)
      BY <1>2, <2>5, <3>2, <3>9, NowIsRead DEF BD!WriteFails, BD!Kept
    <3> QED BY <1>4, <2>5, <3>8, <3>10
  <2>6. 0 \in 0 .. r[2] BY Bounds
  <2> QED BY <1>7, <2>4, <2>5, <2>6 DEF WriteMiss
<1> QED BY <1>6, <1>7 DEF disk_write_sync

LEMMA FlushStep ==
  ASSUME CacheInv, disk_flush_cache_sync
  PROVE  CacheInv' /\ (BD!Flush \/ BD!Other)
<1>1. PICK outcome \in FlushOutcomes :
        /\ disk' = Flushed(disk, outcome[1], outcome[2])
        /\ kept' = IF outcome[1] = Len(cache) THEN [s \in Sectors |-> {View(s)}] ELSE kept
  BY DEF disk_flush_cache_sync
<1>2. /\ Tidy(cache) /\ disk \in [Sectors -> Values] /\ kept \in [Sectors -> SUBSET Values]
      /\ \A s \in Sectors : disk[s] \in kept[s] /\ ViewOf(cache, disk, s) \in kept[s]
  BY DEF CacheInv
<1>3. cache' = cache /\ failed' = FALSE BY DEF disk_flush_cache_sync
<1>4. /\ disk' \in [Sectors -> Values]
      /\ \A s \in Sectors :
           \/ disk'[s] = disk[s] /\ (outcome[1] = Len(cache) => ~ Held(cache, s))
           \/ Held(cache, s) /\ disk'[s] = ViewOf(cache, disk, s)
  BY <1>1, <1>2, FlushMoves
<1>5. \A s \in Sectors : /\ ViewOf(cache', disk', s) = ViewOf(cache, disk, s)
                         /\ disk'[s] \in {disk[s], ViewOf(cache, disk, s)}
  BY <1>2, <1>3, <1>4, FlushShows
<1>6. Now(cache', disk') = Now(cache, disk) BY <1>5 DEF Now
<1>7. CASE outcome[1] = Len(cache)
  <2>1. kept' = [s \in Sectors |-> {ViewOf(cache, disk, s)}] BY <1>1, <1>7, ViewIsView
  <2>2. \A s \in Sectors : disk'[s] = ViewOf(cache, disk, s) BY <1>4, <1>7, ViewMissed
  <2>3. kept' \in [Sectors -> SUBSET Values] BY <1>2, <2>1, ViewIsValue
  <2>4. CacheInv' BY <1>2, <1>3, <1>4, <1>5, <2>1, <2>2, <2>3 DEF CacheInv
  <2>5. kept' = [s \in Sectors |-> {Now(cache, disk)[s]}] BY <2>1 DEF Now
  <2> QED BY <1>3, <1>6, <2>4, <2>5, NowIsRead DEF BD!Flush
<1>8. CASE outcome[1] # Len(cache)
  <2>1. kept' = kept BY <1>1, <1>8
  <2>2. CacheInv' BY <1>2, <1>3, <1>4, <1>5, <2>1 DEF CacheInv
  <2> QED BY <1>3, <1>6, <2>1, <2>2, NowIsRead DEF BD!Other
<1> QED BY <1>7, <1>8

\* The cache is lost, and the medium is what a loss of power may leave.
LEMMA StopStep ==
  ASSUME CacheInv, ShutDown \/ PowerLost
  PROVE  CacheInv' /\ BD!PowerLost
<1>1. /\ Tidy(cache) /\ disk \in [Sectors -> Values] /\ kept \in [Sectors -> SUBSET Values]
      /\ \A s \in Sectors : disk[s] \in kept[s] /\ ViewOf(cache, disk, s) \in kept[s]
  BY DEF CacheInv
<1>2. cache' = <<>> /\ failed' = FALSE /\ kept' = [s \in Sectors |-> {disk'[s]}]
  BY DEF ShutDown, PowerLost
<1>3. disk' \in [Sectors -> Values] /\ \A s \in Sectors : disk'[s] \in kept[s]
  <2>1. CASE PowerLost BY <1>1, <2>1 DEF PowerLost
  <2>2. CASE \E outcome \in FlushOutcomes : disk' = Flushed(disk, outcome[1], outcome[2])
    <3>1. PICK outcome \in FlushOutcomes : disk' = Flushed(disk, outcome[1], outcome[2])
      BY <2>2
    <3>2. /\ disk' \in [Sectors -> Values]
          /\ \A s \in Sectors : disk'[s] \in {disk[s], ViewOf(cache, disk, s)}
      BY <1>1, <3>1, FlushMoves
    <3> QED BY <1>1, <3>2
  <2>3. CASE disk' = Flushed(disk, 0, 0)
    <3>1. Len(cache) \in Nat BY <1>1 DEF Tidy
    <3>2. \A s \in Sectors : WrittenBack(disk, 0)[s] = disk[s] BY <1>1, <3>1, BackHeld
    <3>3. WrittenBack(disk, 0) = [s \in Sectors |-> WrittenBack(disk, 0)[s]] BY DEF WrittenBack
    <3>4. disk' = disk BY <1>1, <2>3, <3>2, <3>3 DEF Flushed
    <3> QED BY <1>1, <3>4
  <2> QED BY <2>1, <2>2, <2>3 DEF ShutDown
<1>4. Tidy(cache') BY <1>2 DEF Tidy
<1>5. \A s \in Sectors : ViewOf(cache', disk', s) = disk'[s]
  <2>1. \A s : ~ Held(cache', s) BY <1>2 DEF Held
  <2> QED BY <2>1, ViewMissed
<1>6. CacheInv' BY <1>2, <1>3, <1>4, <1>5 DEF CacheInv
<1>7. Now(cache', disk') = disk' BY <1>3, <1>5 DEF Now
<1> QED BY <1>2, <1>3, <1>6, <1>7, NowIsRead DEF BD!PowerLost

LEMMA CacheInit ==
  ASSUME Init
  PROVE  CacheInv /\ BD!Init
<1>1. disk \in [Sectors -> Values] BY CacheAssumption DEF Init
<1>2. Tidy(cache) /\ \A s : ~ Held(cache, s) BY DEF Init, Tidy, Held
<1>3. \A s \in Sectors : ViewOf(cache, disk, s) = disk[s] BY <1>2, ViewMissed
<1>4. kept = [s \in Sectors |-> {disk[s]}] /\ failed = FALSE BY DEF Init
<1>5. kept \in [Sectors -> SUBSET Values] BY <1>1, <1>4
<1>6. CacheInv BY <1>1, <1>2, <1>3, <1>4, <1>5 DEF CacheInv
<1>7. Now(cache, disk) = disk BY <1>1, <1>3 DEF Now
<1> QED BY <1>1, <1>4, <1>6, <1>7, NowIsRead DEF BD!Init

LEMMA CacheStep ==
  ASSUME CacheInv, [Next]_vars
  PROVE  CacheInv' /\ [BD!Next]_(BD!vars)
<1>1. ASSUME NEW r \in Requests, disk_read_sync(r[1], r[2])
      PROVE  CacheInv' /\ [BD!Next]_(BD!vars)
  BY <1>1, ReadStep DEF BD!Next
<1>2. ASSUME NEW r \in Requests, NEW v \in Values, disk_write_sync(r[1], r[2], v)
      PROVE  CacheInv' /\ [BD!Next]_(BD!vars)
  <2>1. Extent(r[1], r[2]) \in {Extent(q[1], q[2]) : q \in Requests} OBVIOUS
  <2> QED BY <1>2, <2>1, WriteStep DEF BD!Next
<1>3. CASE disk_flush_cache_sync BY <1>3, FlushStep DEF BD!Next
<1>4. CASE ShutDown \/ PowerLost BY <1>4, StopStep DEF BD!Next
<1>5. CASE UNCHANGED <<disk, cache, kept, failed>>
  <2>1. CacheInv' BY <1>5 DEF CacheInv
  <2>2. Now(cache', disk') = Now(cache, disk) BY <1>5
  <2> QED BY <1>5, <2>1, <2>2, NowIsRead DEF BD!vars
<1> QED BY <1>1, <1>2, <1>3, <1>4, <1>5 DEF Next, vars, disk_init

\* The records of the cache share no sector, and both the medium and the cache
\* hold only what a loss of power may leave, in every reachable state.
THEOREM CacheSound == Spec => []CacheInv
<1>1. Init => CacheInv BY CacheInit
<1>2. CacheInv /\ [Next]_vars => CacheInv' BY CacheStep
<1> QED BY <1>1, <1>2, PTL DEF Spec

\* Through hits, misses, transfers that fail half-way and power that fails, the
\* cache of disk.c before its medium is an array of sectors with a flush that
\* makes everything durable (disk.c:97): BlockCache implements BlockDevice.
THEOREM CacheIsDevice == Spec => DevicePromise
<1>1. Init => BD!Init BY CacheInit
<1>2. CacheInv /\ [Next]_vars => [BD!Next]_(BD!vars) BY CacheStep
<1> QED BY <1>1, <1>2, CacheSound, PTL DEF Spec, DevicePromise, BD!Spec
---------------------------------------------------------------------------
(* The volumes, and what is sound about one.                               *)

Kinds == {"zero", "data", "lfn", "file", "dir", "deleted"}
Words == Names \union Bytes \union {"", ".", ".."}
SlotRecords == [kind : Kinds, name : Words, part : Nat, cluster : 0 .. N, size : Nat]
Places == Clusters \X (1 .. EPC)
Entries == Clusters \union {EMPTY_CLUSTER, LAST_CLUSTER, BAD_CLUSTER}

Volumes ==
  [fat : [Clusters -> Entries], data : [Clusters -> [1 .. EPC -> SlotRecords]],
   hint : 2 .. N + 1, over : BOOLEAN]

\* No entry of the table leads to cluster k.
NoPred(d, k) == \A p \in Clusters : d.fat[p] # k

\* Cluster k begins a chain.
Leads(d, k) == k \in Clusters /\ NoPred(d, k) /\ d.fat[k] \in Clusters \union {LAST_CLUSTER}

\* The slots that say which cluster is theirs.
Claims(d) ==
  {at \in Places : At(d, at).kind # "deleted" /\ At(d, at).name # "." /\ At(d, at).cluster # 0}

\* A cluster follows one other at most, and a chain does not run into a free one.
Linked(d) ==
  /\ \A p, q \in Clusters : d.fat[p] \in Clusters /\ d.fat[p] = d.fat[q] => p = q
  /\ \A p \in Clusters : d.fat[p] \in Clusters => d.fat[d.fat[p]] \in Clusters \union {LAST_CLUSTER}

\* The record "." is the first of a cluster that has been taken and that, free
\* or not, no other leads to.
DotsFirst(d) ==
  \A at \in Places : At(d, at).name = "." =>
    /\ at[2] = 1 /\ at[1] < d.hint /\ NoPred(d, at[1])
    /\ At(d, at).kind \in {"dir", "deleted"}

\* The clusters claimed begin chains, each of one claim, none that of the root.
Sound(d) ==
  /\ d \in Volumes /\ Linked(d) /\ NoPred(d, ROOT) /\ DotsFirst(d)
  /\ \A at \in Claims(d) : Leads(d, At(d, at).cluster) /\ At(d, at).cluster # ROOT
  /\ \A p, q \in Claims(d) : At(d, p).cluster = At(d, q).cluster => p = q

---------------------------------------------------------------------------
(* Chains.  w follows the table from cluster c on.                         *)

Follows(d, c, w) ==
  /\ w \in Seq(Clusters) /\ Len(w) \in Nat \ {0} /\ w[1] = c
  /\ \A i \in 1 .. Len(w) - 1 : w[i + 1] = d.fat[w[i]]

\* It has come to an end, or it has k clusters.
Walked(d, c, w, k) ==
  Follows(d, c, w) /\ Len(w) <= k /\ (Len(w) = k \/ d.fat[w[Len(w)]] \notin Clusters)

LEMMA FatAt == \A d : \A c \in Clusters : fat32_fat_at(d, c) = d.fat[c]
BY DEF fat32_fat_at

LEMMA Goes ==
  ASSUME NEW d \in Volumes, NEW c \in Clusters, NEW w, NEW k \in Nat, Walked(d, c, w, k)
  PROVE  LET next == fat32_fat_at(d, Last(w))
         IN  Walked(d, c, IF next \in Clusters THEN Append(w, next) ELSE w, k + 1)
<1> DEFINE next == fat32_fat_at(d, Last(w))
           n == Len(w)
           v == Append(w, next)
<1>1. w \in Seq(Clusters) /\ n \in Nat \ {0} /\ n <= k BY DEF Walked, Follows
<1>2. w[n] \in Clusters /\ next = d.fat[w[n]]
  <2>1. n \in 1 .. n BY <1>1
  <2>2. w[n] \in Clusters BY <1>1, <2>1
  <2> QED BY <2>2, FatAt DEF Last
<1>3. CASE next \in Clusters
  <2>1. n = k BY <1>2, <1>3 DEF Walked
  <2> HIDE DEF next
  <2>2. v \in Seq(Clusters) /\ Len(v) = n + 1 /\ v[n + 1] = next BY <1>1, <1>3
  <2>3. \A i \in 1 .. n : v[i] = w[i] BY <1>1, <1>3
  <2>4. ASSUME NEW i \in 1 .. n PROVE v[i + 1] = d.fat[v[i]]
    <3>1. CASE i = n BY <1>2, <2>2, <2>3, <3>1
    <3>2. CASE i # n
      <4>1. i \in 1 .. n - 1 /\ i + 1 \in 1 .. n BY <1>1, <3>2
      <4>2. w[i + 1] = d.fat[w[i]] BY <4>1 DEF Walked, Follows
      <4> QED BY <2>3, <4>1, <4>2
    <3> QED BY <3>1, <3>2
  <2>5. v[1] = c BY <1>1, <2>3 DEF Walked, Follows
  <2> HIDE DEF v
  <2>6. Walked(d, c, v, k + 1) BY <1>1, <2>1, <2>2, <2>4, <2>5 DEF Walked, Follows
  <2> QED BY <1>3, <2>6 DEF next, v
<1>4. CASE next \notin Clusters
  <2>1. d.fat[w[n]] \notin Clusters BY <1>2, <1>4
  <2>2. Walked(d, c, w, k + 1) BY <1>1, <2>1 DEF Walked
  <2> QED BY <1>4, <2>2
<1> QED BY <1>3, <1>4

LEMMA ChainWalks ==
  ASSUME NEW d \in Volumes, NEW c \in Clusters
  PROVE  Walked(d, c, Chain(d, c), N + 1)
<1> DEFINE S == {w \in Seq(Clusters) : \E k \in Nat : Walked(d, c, w, k)}
           G == [w \in S |-> LET next == fat32_fat_at(d, Last(w))
                             IN  IF next \in Clusters THEN Append(w, next) ELSE w]
           Step(g) == [i \in 0 .. N |->
                         IF i = 0 THEN <<c>>
                         ELSE LET walked == g[i - 1]
                                  next   == fat32_fat_at(d, Last(walked))
                              IN  IF next \in Clusters THEN Append(walked, next) ELSE walked]
           walk == CHOOSE g : g = Step(g)
<1>1. N \in Nat BY Sizes
<1>2. Walked(d, c, <<c>>, 1)
  <2>1. <<c>> \in Seq(Clusters) /\ Len(<<c>>) = 1 /\ <<c>>[1] = c OBVIOUS
  <2> QED BY <2>1 DEF Walked, Follows
<1>3. <<c>> \in S BY <1>2
<1>4. ASSUME NEW w \in S PROVE G[w] \in S
  <2>1. PICK k \in Nat : Walked(d, c, w, k) OBVIOUS
  <2>2. Walked(d, c, G[w], k + 1) BY <2>1, Goes
  <2>3. G[w] \in Seq(Clusters) BY <2>2 DEF Walked, Follows
  <2> HIDE DEF G
  <2> QED BY <2>2, <2>3
<1>5. G \in [S -> S]
  <2>1. \A w \in S : G[w] \in S BY <1>4
  <2>2. G = [w \in S |-> G[w]] OBVIOUS
  <2> HIDE DEF S, G
  <2> QED BY <2>1, <2>2
<1>6. PICK f \in [0 .. N -> S] : Repeats(f, <<c>>, G, N)
  <2> HIDE DEF S, G
  <2> QED BY <1>1, <1>3, <1>5, Iterates
<1>7. f = Step(f)
  <2>1. ASSUME NEW i \in 0 .. N PROVE f[i] = Step(f)[i]
    <3>1. CASE i = 0 BY <1>6, <3>1 DEF Repeats
    <3>2. CASE i # 0
      <4>1. i \in 1 .. N /\ i - 1 \in 0 .. N BY <1>1, <3>2
      <4>2. f[i] = G[f[i - 1]] BY <1>6, <4>1 DEF Repeats
      <4>3. f[i - 1] \in S BY <1>6, <4>1
      <4> QED BY <3>2, <4>2, <4>3
    <3> QED BY <3>1, <3>2
  <2> QED BY <1>6, <2>1
<1>8. walk = Step(walk) BY <1>7
<1>9. Chain(d, c) = walk[N] BY DEF Chain
<1> HIDE DEF walk
<1>a. walk[0] = <<c>> BY <1>1, <1>8
<1>b. \A i \in 1 .. N : walk[i] = LET walked == walk[i - 1]
                                      next   == fat32_fat_at(d, Last(walked))
                                  IN  IF next \in Clusters THEN Append(walked, next) ELSE walked
  <2> SUFFICES ASSUME NEW i \in 1 .. N
               PROVE  walk[i] = LET walked == walk[i - 1]
                                    next   == fat32_fat_at(d, Last(walked))
                                IN  IF next \in Clusters THEN Append(walked, next) ELSE walked
    OBVIOUS
  <2>1. i \in 0 .. N /\ i # 0 BY <1>1
  <2>2. walk[i] = Step(walk)[i] BY <1>8
  <2> QED BY <2>1, <2>2
<1> DEFINE Done == {i \in 0 .. N : Walked(d, c, walk[i], i + 1)}
<1>10. 0 \in Done
  <2>1. Walked(d, c, walk[0], 0 + 1) BY <1>2, <1>a
  <2> QED BY <1>1, <2>1
<1>11. ASSUME NEW i \in 1 .. N, i - 1 \in Done PROVE i \in Done
  <2> DEFINE w == walk[i - 1]
             next == fat32_fat_at(d, Last(w))
  <2>1. i \in Nat /\ Walked(d, c, w, i) BY <1>11
  <2>2. walk[i] = IF next \in Clusters THEN Append(w, next) ELSE w BY <1>b
  <2> HIDE DEF w
  <2>3. Walked(d, c, walk[i], i + 1) BY <2>1, <2>2, Goes
  <2> QED BY <2>3
<1> HIDE DEF Done
<1>m. \A i \in 1 .. N : i - 1 \in Done => i \in Done BY <1>11
<1>12. \A i \in 0 .. N : i \in Done BY <1>1, <1>10, <1>m, Upwards
<1>13. N \in Done BY <1>1, <1>12
<1> QED BY <1>9, <1>13 DEF Done

LEMMA ChainIs ==
  ASSUME NEW d \in Volumes, NEW c \in Clusters
  PROVE  LET chain == Chain(d, c)
             n     == Len(chain)
         IN  /\ chain \in Seq(Clusters) /\ n \in 1 .. N + 1 /\ chain[1] = c
             /\ DOMAIN chain = 1 .. n /\ \A i \in 1 .. n : chain[i] \in Clusters
             /\ \A i \in 1 .. n - 1 : chain[i + 1] = d.fat[chain[i]]
             /\ Last(chain) = chain[n] /\ Last(chain) \in Clusters
             /\ n <= N => d.fat[Last(chain)] \notin Clusters
             /\ Range(chain) = {chain[i] : i \in 1 .. n}
             /\ Range(chain) \subseteq Clusters /\ c \in Range(chain)
<1> DEFINE chain == Chain(d, c)
           n == Len(chain)
<1>1. N \in Nat BY Sizes
<1>2. Walked(d, c, chain, N + 1) BY ChainWalks
<1> HIDE DEF chain
<1>3. chain \in Seq(Clusters) /\ n \in Nat \ {0} /\ n <= N + 1 /\ chain[1] = c
  BY <1>2 DEF Walked, Follows
<1>4. DOMAIN chain = 1 .. n /\ \A i \in 1 .. n : chain[i] \in Clusters BY <1>3
<1>5. \A i \in 1 .. n - 1 : chain[i + 1] = d.fat[chain[i]] BY <1>2 DEF Walked, Follows
<1>6. Last(chain) = chain[n] /\ Last(chain) \in Clusters BY <1>3, <1>4 DEF Last
<1>7. n <= N => d.fat[Last(chain)] \notin Clusters BY <1>1, <1>2, <1>3, <1>6 DEF Walked
<1>8. Range(chain) = {chain[i] : i \in 1 .. n} BY <1>4 DEF Range
<1>9. Range(chain) \subseteq Clusters /\ c \in Range(chain)
  <2>1. 1 \in 1 .. n BY <1>3
  <2> QED BY <1>3, <1>4, <1>8, <2>1
<1> QED BY <1>1, <1>3, <1>4, <1>5, <1>6, <1>7, <1>8, <1>9 DEF chain

\* The chains of two clusters that no other leads to never meet.
LEMMA HeadsMeet ==
  ASSUME NEW d \in Volumes, Linked(d),
         NEW c \in Clusters, NoPred(d, c), NEW e \in Clusters, NoPred(d, e),
         NEW i \in 1 .. Len(Chain(d, c)), NEW j \in 1 .. Len(Chain(d, e)),
         Chain(d, c)[i] = Chain(d, e)[j]
  PROVE  c = e /\ i = j
<1> DEFINE w == Chain(d, c)
           v == Chain(d, e)
           m == Len(w)
           n == Len(v)
           S == {k \in 1 .. m : \E l \in 1 .. n : w[k] = v[l] /\ ~ (c = e /\ k = l)}
<1>1. /\ m \in Nat /\ w[1] = c /\ \A k \in 1 .. m : w[k] \in Clusters
      /\ \A k \in 1 .. m - 1 : w[k + 1] = d.fat[w[k]]
  BY ChainIs
<1>2. /\ n \in Nat /\ v[1] = e /\ \A k \in 1 .. n : v[k] \in Clusters
      /\ \A k \in 1 .. n - 1 : v[k + 1] = d.fat[v[k]]
  BY ChainIs
<1> SUFFICES ASSUME S # {} PROVE FALSE OBVIOUS
<1> HIDE DEF w, v
<1>3. PICK k \in S : \A l \in S : k <= l
  <2>1. S \in SUBSET Nat OBVIOUS
  <2> HIDE DEF S
  <2> QED BY <2>1, LeastNat
<1>4. PICK l \in 1 .. n : w[k] = v[l] /\ ~ (c = e /\ k = l) OBVIOUS
<1>5. k \in 1 .. m OBVIOUS
<1>6. CASE k = 1 /\ l = 1 BY <1>1, <1>2, <1>4, <1>6
<1>7. CASE k = 1 /\ l # 1
  <2>1. l - 1 \in 1 .. n - 1 /\ l - 1 \in 1 .. n BY <1>2, <1>7
  <2>2. v[(l - 1) + 1] = d.fat[v[l - 1]] BY <1>2, <2>1
  <2>3. v[l] = d.fat[v[l - 1]] /\ v[l - 1] \in Clusters BY <1>2, <2>1, <2>2
  <2> QED BY <1>1, <1>4, <1>7, <2>3 DEF NoPred
<1>8. CASE k # 1 /\ l = 1
  <2>1. k - 1 \in 1 .. m - 1 /\ k - 1 \in 1 .. m BY <1>1, <1>5, <1>8
  <2>2. w[(k - 1) + 1] = d.fat[w[k - 1]] BY <1>1, <2>1
  <2>3. w[k] = d.fat[w[k - 1]] /\ w[k - 1] \in Clusters BY <1>1, <1>5, <2>1, <2>2
  <2> QED BY <1>2, <1>4, <1>8, <2>3 DEF NoPred
<1>9. CASE k # 1 /\ l # 1
  <2>1. /\ l - 1 \in 1 .. n - 1 /\ l - 1 \in 1 .. n
        /\ k - 1 \in 1 .. m - 1 /\ k - 1 \in 1 .. m
        /\ (k - 1) + 1 = k /\ (l - 1) + 1 = l
    BY <1>1, <1>2, <1>5, <1>9
  <2>2. w[(k - 1) + 1] = d.fat[w[k - 1]] /\ v[(l - 1) + 1] = d.fat[v[l - 1]]
    BY <1>1, <1>2, <2>1
  <2>3. /\ w[k] = d.fat[w[k - 1]] /\ w[k - 1] \in Clusters /\ w[k] \in Clusters
        /\ v[l] = d.fat[v[l - 1]] /\ v[l - 1] \in Clusters
    BY <1>1, <1>2, <1>5, <2>1, <2>2
  <2>4. w[k - 1] = v[l - 1] BY <1>4, <2>3 DEF Linked
  <2>5. ~ (c = e /\ k - 1 = l - 1) BY <1>4, <1>5
  <2>6. k - 1 \in S BY <2>1, <2>4, <2>5
  <2> QED BY <1>3, <1>5, <2>6
<1> QED BY <1>6, <1>7, <1>8, <1>9

\* More clusters than there are cannot be in a row, so that the row has an end.
LEMMA HeadsEnd ==
  ASSUME NEW d \in Volumes, Linked(d), NEW c \in Clusters, NoPred(d, c)
  PROVE  d.fat[Last(Chain(d, c))] \notin Clusters
<1> DEFINE w == Chain(d, c)
           n == Len(w)
<1>1. /\ N \in Nat /\ n \in 1 .. N + 1 /\ w \in Seq(Clusters)
      /\ \A i \in 1 .. n : w[i] \in Clusters
      /\ n <= N => d.fat[Last(w)] \notin Clusters
  BY ChainIs, Sizes
<1>2. \A i, j \in 1 .. n : w[i] = w[j] => i = j BY HeadsMeet
<1> HIDE DEF w
<1> SUFFICES ASSUME n = N + 1 PROVE FALSE BY <1>1 DEF w
<1>3. IsFiniteSet(1 .. n) /\ Cardinality(1 .. n) = N + 1
  BY <1>1, FS_Interval
<1>4. IsFiniteSet(Clusters) /\ Cardinality(Clusters) = N
  BY <1>1, FS_Interval DEF Clusters
<1>5. w \in [1 .. n -> Clusters] BY <1>1
<1>6. Cardinality(Clusters) < Cardinality(1 .. n) BY <1>1, <1>3, <1>4
<1>7. \E x, y \in 1 .. n : x # y /\ w[x] = w[y] BY <1>3, <1>4, <1>5, <1>6, FS_PigeonHole
<1> QED BY <1>2, <1>7

LEMMA HeadsComplete ==
  ASSUME NEW d \in Volumes, Linked(d), NEW c, Leads(d, c)
  PROVE  Complete(d, c)
<1> DEFINE w == Chain(d, c)
           n == Len(w)
<1>1. c \in Clusters /\ NoPred(d, c) BY DEF Leads
<1>2. /\ n \in 1 .. N + 1 /\ w[1] = c /\ \A i \in 1 .. n : w[i] \in Clusters
      /\ \A i \in 1 .. n - 1 : w[i + 1] = d.fat[w[i]]
      /\ Last(w) = w[n] /\ Last(w) \in Clusters
  BY <1>1, ChainIs
<1>3. d.fat[Last(w)] \notin Clusters BY <1>1, HeadsEnd
<1> HIDE DEF w
<1>4. d.fat[w[n]] \in Clusters \union {LAST_CLUSTER}
  <2>1. CASE n = 1 BY <1>2, <2>1 DEF Leads
  <2>2. CASE n # 1
    <3>a. n \in Nat /\ n >= 1 BY <1>2, Sizes
    <3>b. \A m \in Nat : m >= 1 /\ m # 1 =>
            m - 1 \in 1 .. m - 1 /\ m - 1 \in 1 .. m /\ m \in 1 .. m /\ (m - 1) + 1 = m
      OBVIOUS
    <3>1. n - 1 \in 1 .. n - 1 /\ n - 1 \in 1 .. n /\ n \in 1 .. n /\ (n - 1) + 1 = n
      BY <2>2, <3>a, <3>b
    <3>2. w[n] = d.fat[w[n - 1]] /\ w[n - 1] \in Clusters /\ w[n] \in Clusters
      BY <1>2, <3>1
    <3> QED BY <3>2 DEF Linked
  <2> QED BY <2>1, <2>2
<1>5. fat32_fat_at(d, Last(w)) = LAST_CLUSTER BY <1>2, <1>3, <1>4, FatAt
<1> QED BY <1>5 DEF Complete, w

---------------------------------------------------------------------------
(* Slots: where they are, and what is written to them.                     *)

LEMMA Quotient ==
  ASSUME NEW m \in Nat, NEW n \in Nat \ {0}, NEW k \in 1 .. m * n
  PROVE  /\ (k - 1) \div n + 1 \in 1 .. m /\ ((k - 1) % n) + 1 \in 1 .. n
         /\ k = n * ((k - 1) \div n) + ((k - 1) % n) + 1
<1> DEFINE q == (k - 1) \div n
           r == (k - 1) % n
<1>1. k \in Nat /\ k >= 1 /\ k <= m * n
  <2>1. m * n \in Nat OBVIOUS
  <2> QED BY <2>1
<1>2. q \in Int /\ r \in 0 .. n - 1 /\ k - 1 = n * q + r BY <1>1
<1> HIDE DEF q, r
<1>3. q >= 0
  <2>1. SUFFICES ASSUME q <= -1 PROVE FALSE BY <1>2
  <2>2. n * q <= -n BY <1>2, <2>1
  <2> QED BY <1>1, <1>2, <2>2
<1>4. q < m
  <2>1. SUFFICES ASSUME q >= m PROVE FALSE BY <1>2
  <2>2. n * q >= n * m BY <1>2, <2>1
  <2>3. n * m = m * n OBVIOUS
  <2>4. n * q \in Int /\ n * m \in Int BY <1>2
  <2> QED BY <1>1, <1>2, <2>2, <2>3, <2>4
<1>5. q + 1 \in 1 .. m /\ r + 1 \in 1 .. n BY <1>2, <1>3, <1>4
<1>6. k = n * q + r + 1
  <2>1. n * q \in Int BY <1>2
  <2> QED BY <1>1, <1>2, <2>1
<1> QED BY <1>5, <1>6 DEF q, r

\* Slot j of the cluster i of a chain is slot EPC * (i - 1) + j.
LEMMA SlotsAre ==
  ASSUME NEW d \in Volumes, NEW c \in Clusters
  PROVE  LET at == Slots(d, c)
         IN  /\ at \in Seq(Places) /\ DOMAIN at = 1 .. Len(at) /\ Len(at) \in Nat \ {0}
             /\ \A k \in 1 .. Len(at) :
                  /\ at[k] \in Places /\ at[k] = <<at[k][1], at[k][2]>>
                  /\ \E i \in 1 .. Len(Chain(d, c)) :
                       k = EPC * (i - 1) + at[k][2] /\ at[k][1] = Chain(d, c)[i]
             /\ at[1] = <<c, 1>>
<1> DEFINE chain == Chain(d, c)
           m == Len(chain)
           at == Slots(d, c)
<1>1. m \in Nat \ {0} /\ chain[1] = c /\ \A i \in 1 .. m : chain[i] \in Clusters
  BY ChainIs, Sizes
<1>2. EPC \in Nat \ {0} /\ EPC >= 2 BY Sizes
<1>3. at = [k \in 1 .. m * EPC |-> <<chain[(k - 1) \div EPC + 1], ((k - 1) % EPC) + 1>>]
  BY DEF Slots
<1> HIDE DEF at, chain, m
<1>4. m * EPC \in Nat \ {0}
  <2>1. m * EPC >= 1 * EPC BY <1>1, <1>2
  <2> QED BY <1>1, <1>2, <2>1
<1>5. ASSUME NEW k \in 1 .. m * EPC
      PROVE  /\ at[k] \in Places /\ at[k] = <<at[k][1], at[k][2]>>
             /\ \E i \in 1 .. m : k = EPC * (i - 1) + at[k][2] /\ at[k][1] = chain[i]
  <2> DEFINE i == (k - 1) \div EPC + 1
             j == ((k - 1) % EPC) + 1
  <2>1. i \in 1 .. m /\ j \in 1 .. EPC /\ k = EPC * (i - 1) + j
    <3>1. /\ (k - 1) \div EPC + 1 \in 1 .. m /\ ((k - 1) % EPC) + 1 \in 1 .. EPC
          /\ k = EPC * ((k - 1) \div EPC) + ((k - 1) % EPC) + 1
      BY <1>1, <1>2, Quotient
    <3>2. i - 1 = (k - 1) \div EPC BY <1>2, <1>4
    <3>3. (k - 1) % EPC \in Nat /\ EPC * ((k - 1) \div EPC) \in Int BY <1>2, <1>4
    <3>4. k = EPC * ((k - 1) \div EPC) + j BY <3>1, <3>3
    <3> QED BY <3>1, <3>2, <3>4
  <2>2. at[k] = <<chain[i], j>> BY <1>3
  <2> HIDE DEF i, j
  <2>3. at[k][1] = chain[i] /\ at[k][2] = j BY <2>2
  <2>4. at[k] \in Places BY <1>1, <2>1, <2>2 DEF Places
  <2> QED BY <2>1, <2>2, <2>3, <2>4
<1>6. at \in Seq(Places) /\ Len(at) = m * EPC
  <2>1. at \in [1 .. m * EPC -> Places] BY <1>3, <1>5
  <2> QED BY <1>4, <2>1
<1>7. at[1] = <<c, 1>>
  <2>1. (1 - 1) \div EPC = 0 /\ (1 - 1) % EPC = 0 BY <1>2
  <2>2. 1 \in 1 .. m * EPC BY <1>4
  <2> QED BY <1>1, <1>3, <2>1, <2>2
<1> QED BY <1>4, <1>5, <1>6, <1>7 DEF at, chain, m

\* Chains that do not meet have no slot in common.
LEMMA SlotsMeet ==
  ASSUME NEW d \in Volumes, Linked(d),
         NEW c \in Clusters, NoPred(d, c), NEW e \in Clusters, NoPred(d, e),
         NEW k \in 1 .. Len(Slots(d, c)), NEW l \in 1 .. Len(Slots(d, e)),
         Slots(d, c)[k] = Slots(d, e)[l]
  PROVE  c = e /\ k = l
<1> DEFINE at == Slots(d, c)
           et == Slots(d, e)
<1>1. PICK i \in 1 .. Len(Chain(d, c)) : k = EPC * (i - 1) + at[k][2] /\ at[k][1] = Chain(d, c)[i]
  BY SlotsAre
<1>2. PICK j \in 1 .. Len(Chain(d, e)) : l = EPC * (j - 1) + et[l][2] /\ et[l][1] = Chain(d, e)[j]
  BY SlotsAre
<1>3. Chain(d, c)[i] = Chain(d, e)[j] BY <1>1, <1>2
<1>4. c = e /\ i = j BY <1>3, HeadsMeet
<1> QED BY <1>1, <1>2, <1>4

\* The first slot of a cluster that no other leads to begins what it is read in.
LEMMA SlotFirst ==
  ASSUME NEW d \in Volumes, NEW c \in Clusters, NEW k \in 1 .. Len(Slots(d, c)),
         Slots(d, c)[k][2] = 1, NoPred(d, Slots(d, c)[k][1])
  PROVE  k = 1
<1> DEFINE at == Slots(d, c)
           chain == Chain(d, c)
<1>1. PICK i \in 1 .. Len(chain) : k = EPC * (i - 1) + at[k][2] /\ at[k][1] = chain[i]
  BY SlotsAre
<1>2. EPC \in Nat BY Sizes
<1>3. /\ Len(chain) \in Nat /\ \A j \in 1 .. Len(chain) : chain[j] \in Clusters
      /\ \A j \in 1 .. Len(chain) - 1 : chain[j + 1] = d.fat[chain[j]]
  BY ChainIs, Sizes
<1> HIDE DEF chain
<1>4. i = 1
  <2> SUFFICES ASSUME i # 1 PROVE FALSE OBVIOUS
  <2>1. i - 1 \in 1 .. Len(chain) - 1 /\ i - 1 \in 1 .. Len(chain) /\ (i - 1) + 1 = i BY <1>3
  <2>2. chain[i] = d.fat[chain[i - 1]] /\ chain[i - 1] \in Clusters BY <1>3, <2>1
  <2> QED BY <1>1, <2>2 DEF NoPred
<1>5. EPC * (1 - 1) = 0 BY <1>2
<1> QED BY <1>1, <1>4, <1>5

LEMMA AtIs ==
  ASSUME NEW d \in Volumes, NEW at \in Places
  PROVE  /\ At(d, at) \in SlotRecords /\ at[1] \in Clusters /\ at[2] \in 1 .. EPC
         /\ at = <<at[1], at[2]>>
<1>1. at[1] \in Clusters /\ at[2] \in 1 .. EPC /\ at = <<at[1], at[2]>> BY DEF Places
<1>2. d.data \in [Clusters -> [1 .. EPC -> SlotRecords]] BY DEF Volumes
<1> QED BY <1>1, <1>2 DEF At

---------------------------------------------------------------------------
(* What the changes of slots keep.  e differs from d in slots only, and    *)
(* none of them begins to claim a cluster.                                 *)

Keeps(d, e) ==
  /\ e \in Volumes /\ e.fat = d.fat /\ e.hint = d.hint /\ e.over = d.over
  /\ \A at \in Places :
       \/ At(e, at) = At(d, at)
       \/ At(e, at).cluster = 0 /\ At(e, at).name # "."
       \/ /\ At(e, at).name = At(d, at).name
          /\ \/ At(e, at).cluster = 0 /\ At(e, at).kind = At(d, at).kind
             \/ At(e, at).kind = "deleted"
       \/ /\ At(e, at).name = "." /\ At(e, at).kind = "dir"
          /\ at[2] = 1 /\ at[1] < d.hint /\ NoPred(d, at[1])

LEMMA KeepsClaims ==
  ASSUME NEW d \in Volumes, NEW e, Keeps(d, e), NEW at \in Claims(e)
  PROVE  at \in Claims(d) /\ At(e, at) = At(d, at)
BY DEF Keeps, Claims

LEMMA KeepsSound ==
  ASSUME NEW d, Sound(d), NEW e, Keeps(d, e)
  PROVE  Sound(e)
<1>1. e \in Volumes /\ e.fat = d.fat /\ e.hint = d.hint /\ d \in Volumes BY DEF Sound, Keeps
<1>2. Linked(e) /\ \A k : NoPred(e, k) = NoPred(d, k) /\ Leads(e, k) = Leads(d, k)
  BY <1>1 DEF Sound, Linked, NoPred, Leads
<1>3. \A at \in Claims(e) : at \in Claims(d) /\ At(e, at) = At(d, at) BY <1>1, KeepsClaims
<1>4. DotsFirst(e)
  <2> SUFFICES ASSUME NEW at \in Places, At(e, at).name = "."
               PROVE  /\ at[2] = 1 /\ at[1] < e.hint /\ NoPred(e, at[1])
                      /\ At(e, at).kind \in {"dir", "deleted"}
    BY DEF DotsFirst
  <2>1. At(d, at).name = "." =>
          /\ at[2] = 1 /\ at[1] < d.hint /\ NoPred(d, at[1])
          /\ At(d, at).kind \in {"dir", "deleted"}
    BY DEF Sound, DotsFirst
  <2> QED BY <1>1, <1>2, <2>1 DEF Keeps
<1>5. NoPred(e, ROOT) BY <1>2 DEF Sound
<1>6. \A at \in Claims(e) : Leads(e, At(e, at).cluster) /\ At(e, at).cluster # ROOT
  BY <1>2, <1>3 DEF Sound
<1>7. \A p, q \in Claims(e) : At(e, p).cluster = At(e, q).cluster => p = q
  BY <1>3 DEF Sound
<1> QED BY <1>1, <1>2, <1>4, <1>5, <1>6, <1>7 DEF Sound

\* A slot written holds one of the records that went there.
LEMMA PutIs ==
  ASSUME NEW d \in Volumes, NEW P, NEW places \in Seq(P), NEW records \in Seq(SlotRecords)
  PROVE  LET e == Put(d, places, records)
         IN  /\ e \in Volumes /\ e.fat = d.fat /\ e.hint = d.hint /\ e.over = d.over
             /\ \A at \in Places :
                  \/ At(e, at) = At(d, at)
                  \/ \E k \in 1 .. Len(places) :
                       k \in 1 .. Len(records) /\ places[k] = at /\ At(e, at) = records[k]
<1> DEFINE To(c, i) == {k \in DOMAIN places \intersect DOMAIN records : places[k] = <<c, i>>}
           Cell(c, i) == IF To(c, i) = {} THEN d.data[c][i] ELSE records[Max(To(c, i))]
           made == [c \in Clusters |-> [i \in 1 .. EPC |-> Cell(c, i)]]
           e == Put(d, places, records)
<1>1. d.data \in [Clusters -> [1 .. EPC -> SlotRecords]] BY DEF Volumes
<1>2. e = [d EXCEPT !.data = made] BY DEF Put
<1>3. ASSUME NEW c \in Clusters, NEW i \in 1 .. EPC
      PROVE  /\ Cell(c, i) \in SlotRecords
             /\ \/ Cell(c, i) = d.data[c][i]
                \/ \E k \in 1 .. Len(places) :
                     k \in 1 .. Len(records) /\ places[k] = <<c, i>> /\ Cell(c, i) = records[k]
  <2>1. CASE To(c, i) = {} BY <1>1, <2>1
  <2>2. CASE To(c, i) # {}
    <3>1. To(c, i) \in SUBSET (1 .. Len(places)) /\ Len(places) \in Nat OBVIOUS
    <3>2. Max(To(c, i)) \in To(c, i)
      <4> HIDE DEF To
      <4> QED BY <2>2, <3>1, MaxIsGreatest
    <3> DEFINE k == Max(To(c, i))
    <3>3. k \in 1 .. Len(places) /\ k \in 1 .. Len(records) /\ places[k] = <<c, i>>
      <4> HIDE DEF k
      <4>1. k \in To(c, i) BY <3>2 DEF k
      <4>2. DOMAIN places = 1 .. Len(places) /\ DOMAIN records = 1 .. Len(records) OBVIOUS
      <4>3. k \in DOMAIN places /\ k \in DOMAIN records /\ places[k] = <<c, i>> BY <4>1
      <4> QED BY <4>2, <4>3
    <3>4. Cell(c, i) = records[k] BY <2>2
    <3> HIDE DEF k, Cell, To
    <3> QED BY <3>3, <3>4
  <2> QED BY <2>1, <2>2
<1>4. made \in [Clusters -> [1 .. EPC -> SlotRecords]]
  <2> HIDE DEF Cell
  <2> QED BY <1>3
<1>5. \A c \in Clusters : \A i \in 1 .. EPC : made[c][i] = Cell(c, i)
  <2> HIDE DEF Cell
  <2> QED OBVIOUS
<1> HIDE DEF made, Cell, To
<1>6. e \in Volumes /\ e.fat = d.fat /\ e.hint = d.hint /\ e.over = d.over /\ e.data = made
  BY <1>2, <1>4 DEF Volumes
<1>7. ASSUME NEW at \in Places
      PROVE  \/ At(e, at) = At(d, at)
             \/ \E k \in 1 .. Len(places) :
                  k \in 1 .. Len(records) /\ places[k] = at /\ At(e, at) = records[k]
  <2>1. at[1] \in Clusters /\ at[2] \in 1 .. EPC /\ at = <<at[1], at[2]>> BY AtIs
  <2>2. At(e, at) = Cell(at[1], at[2]) BY <1>5, <1>6, <2>1 DEF At
  <2>3. At(d, at) = d.data[at[1]][at[2]] BY DEF At
  <2> HIDE DEF e
  <2> QED BY <1>3, <2>1, <2>2, <2>3
<1> QED BY <1>6, <1>7

LEMMA UpdateIs ==
  ASSUME NEW d \in Volumes, NEW file, file.entry \in Places, file.kind \in Kinds,
         file.cluster \in 0 .. N, file.size \in Nat
  PROVE  LET e == fat32_update_directory_entry(d, file)
         IN  /\ e \in Volumes /\ e.fat = d.fat /\ e.hint = d.hint /\ e.over = d.over
             /\ At(e, file.entry).name = At(d, file.entry).name
             /\ At(e, file.entry).kind = file.kind /\ At(e, file.entry).cluster = file.cluster
             /\ \A at \in Places \ {file.entry} : At(e, at) = At(d, at)
<1> DEFINE c == file.entry[1]
           i == file.entry[2]
           new == [d.data[c][i] EXCEPT !.kind = file.kind, !.cluster = file.cluster, !.size = file.size]
           e == fat32_update_directory_entry(d, file)
<1>1. c \in Clusters /\ i \in 1 .. EPC /\ file.entry = <<c, i>> BY DEF Places
<1>2. d.data \in [Clusters -> [1 .. EPC -> SlotRecords]] BY DEF Volumes
<1>3. new \in SlotRecords
  <2>1. d.data[c][i] \in SlotRecords BY <1>1, <1>2
  <2> HIDE DEF c, i
  <2> QED BY <2>1 DEF SlotRecords
<1>4. e = [d EXCEPT !.data[c][i] = new] BY DEF fat32_update_directory_entry
<1>5. /\ new.name = At(d, file.entry).name /\ new.kind = file.kind /\ new.cluster = file.cluster
  <2>1. d.data[c][i] \in SlotRecords BY <1>1, <1>2
  <2>2. At(d, file.entry) = d.data[c][i] BY DEF At
  <2> HIDE DEF c, i
  <2> QED BY <2>1, <2>2 DEF SlotRecords
<1> HIDE DEF new
<1>6. e.data = [d.data EXCEPT ![c][i] = new] /\ e.fat = d.fat /\ e.hint = d.hint /\ e.over = d.over
  BY <1>4 DEF Volumes
<1>7. e.data \in [Clusters -> [1 .. EPC -> SlotRecords]] BY <1>1, <1>2, <1>3, <1>6
<1>8. e \in Volumes
  <2>1. e = [d EXCEPT !.data = e.data] BY <1>4 DEF Volumes
  <2> HIDE DEF e
  <2> QED BY <1>7, <2>1 DEF Volumes
<1>9. e.data[c][i] = new
  <2> HIDE DEF e, c, i
  <2> QED BY <1>1, <1>2, <1>6
<1>10. ASSUME NEW at \in Places \ {file.entry} PROVE At(e, at) = At(d, at)
  <2>1. at[1] \in Clusters /\ at[2] \in 1 .. EPC /\ at = <<at[1], at[2]>> BY AtIs
  <2>2. at[1] # c \/ at[2] # i BY <1>1, <2>1
  <2>3. e.data[at[1]][at[2]] = d.data[at[1]][at[2]]
    <3> HIDE DEF c, i, e
    <3> QED BY <1>1, <1>2, <1>6, <2>1, <2>2
  <2> QED BY <2>3 DEF At
<1>11. At(e, file.entry) = new BY <1>9 DEF At
<1> QED BY <1>5, <1>6, <1>8, <1>10, <1>11

---------------------------------------------------------------------------
(* Clusters that are taken, one after the other.                           *)

\* e is d after clusters have been taken, or the search has run past the end.
Grown(d, e) ==
  /\ Sound(e) /\ e.data = d.data /\ d.hint <= e.hint /\ (d.over => e.over)
  /\ \A k \in Clusters : Leads(d, k) => Leads(e, k)

LEMMA TakenInside ==
  ASSUME NEW d \in Volumes
  PROVE  Taken(d) \in Clusters
<1>1. FreeFrom(d) \union {N} \in SUBSET Nat /\ N \in Clusters /\ FreeFrom(d) \subseteq Clusters
  BY Sizes DEF FreeFrom, Volumes, Clusters
<1>2. Min(FreeFrom(d) \union {N}) \in FreeFrom(d) \union {N} BY <1>1, MinIsLeast
<1> QED BY <1>1, <1>2 DEF Taken

LEMMA GrownAgain ==
  ASSUME NEW d, Sound(d), NEW e, Grown(d, e), NEW f, Grown(e, f)
  PROVE  Grown(d, f)
<1>1. d.hint \in Nat /\ e.hint \in Nat /\ f.hint \in Nat BY Sizes DEF Grown, Sound, Volumes
<1> QED BY <1>1 DEF Grown

\* A free cluster follows none, so that it can be put behind any, or begin a
\* chain of its own.
LEMMA TakeKeeps ==
  ASSUME NEW d, Sound(d), NEW prev \in Clusters \union {0}
  PROVE  LET e == fat32_take_new_cluster(d, prev)
             t == Taken(d)
         IN  /\ Grown(d, e)
             /\ ~ e.over =>
                  /\ t \in Clusters /\ t # ROOT /\ t < e.hint
                  /\ \A at \in Claims(e) : At(e, at).cluster # t
                  /\ prev = 0 => Leads(e, t)
<1> DEFINE e == fat32_take_new_cluster(d, prev)
           t == Taken(d)
           p == IF prev = 0 THEN t ELSE prev
           free == FreeFrom(d)
           next == Min((free \ {t}) \union {N + 1})
<1>1. d \in Volumes /\ d.hint \in 2 .. N + 1 /\ d.fat \in [Clusters -> Entries] /\ N \in Nat
  BY Sizes DEF Sound, Volumes
<1>2. CASE free = {}
  <2>1. e = [d EXCEPT !.over = TRUE] BY <1>2 DEF fat32_take_new_cluster
  <2>2. /\ e \in Volumes /\ e.fat = d.fat /\ e.data = d.data /\ e.hint = d.hint /\ e.over = TRUE
    BY <1>1, <2>1 DEF Volumes
  <2> HIDE DEF e
  <2>3. \A at : At(e, at) = At(d, at) BY <2>2 DEF At
  <2>4. \A k : NoPred(e, k) = NoPred(d, k) /\ Leads(e, k) = Leads(d, k)
    BY <2>2 DEF NoPred, Leads
  <2>5. Claims(e) = Claims(d) BY <2>3 DEF Claims
  <2>6. Linked(e) /\ DotsFirst(e) BY <2>2, <2>3, <2>4 DEF Linked, DotsFirst, Sound
  <2>7. Sound(e) BY <2>2, <2>3, <2>4, <2>5, <2>6 DEF Sound
  <2>8. Grown(d, e) BY <1>1, <2>2, <2>4, <2>7 DEF Grown
  <2> QED BY <2>2, <2>8 DEF e
<1>3. CASE free # {}
  <2>1. free \subseteq d.hint .. N /\ \A k \in free : d.fat[k] = EMPTY_CLUSTER BY DEF FreeFrom
  <2>2. t \in free
    <3>1. free \union {N} \in SUBSET Nat /\ N \in free \union {N} BY <1>1, <2>1
    <3> HIDE DEF free
    <3>2. /\ Min(free \union {N}) \in free \union {N}
          /\ \A m \in free \union {N} : Min(free \union {N}) <= m
      BY <3>1, MinIsLeast
    <3>a. PICK k \in free : TRUE BY <1>3
    <3>b. k \in d.hint .. N BY <2>1, <3>a
    <3>3. k \in free /\ k \in Nat /\ k <= N BY <1>1, <3>a, <3>b
    <3>4. Min(free \union {N}) \in free BY <1>1, <3>2, <3>3
    <3> QED BY <3>4 DEF Taken, free
  <2>3. t \in Clusters /\ t # ROOT /\ d.fat[t] = EMPTY_CLUSTER /\ t >= d.hint
    BY <1>1, <2>1, <2>2 DEF Clusters, ROOT
  <2>4. next \in 2 .. N + 1 /\ d.hint <= next /\ t < next
    <3> DEFINE later == (free \ {t}) \union {N + 1}
    <3>1. later \in SUBSET Nat /\ N + 1 \in later BY <1>1, <2>1
    <3>2. \A k \in later : k \in t + 1 .. N + 1
      <4>1. \A k \in free : t <= k
        <5>1. free \union {N} \in SUBSET Nat /\ N \in free \union {N} BY <1>1, <2>1
        <5>2. \A m \in free \union {N} : Min(free \union {N}) <= m
          <6> HIDE DEF free
          <6> QED BY <5>1, MinIsLeast
        <5> QED BY <5>2 DEF Taken
      <4> SUFFICES ASSUME NEW k \in free, k # t PROVE k \in t + 1 .. N + 1 BY <1>1, <2>3 DEF Clusters
      <4>2. k \in d.hint .. N /\ t \in Nat /\ t <= k BY <2>1, <2>3, <4>1, Sizes
      <4> HIDE DEF t
      <4> QED BY <1>1, <4>2
    <3>3. next \in later
      <4> HIDE DEF later
      <4> QED BY <3>1, MinIsLeast DEF later
    <3>4. next \in t + 1 .. N + 1 BY <3>2, <3>3
    <3>5. t \in Nat BY <2>3, Sizes
    <3> HIDE DEF next, t
    <3> QED BY <1>1, <2>3, <3>4, <3>5
  <2>5. e = [d EXCEPT !.hint = next, !.fat[p] = t, !.fat[t] = LAST_CLUSTER]
    BY <1>3 DEF fat32_take_new_cluster
  <2>6. p \in Clusters BY <2>3
  <2> DEFINE f == [d.fat EXCEPT ![p] = t, ![t] = LAST_CLUSTER]
  <2>7. /\ e.fat = f /\ e.data = d.data /\ e.hint = next /\ e.over = d.over
        /\ e = [d EXCEPT !.fat = f, !.hint = next]
    BY <2>5, <1>1 DEF Volumes
  <2>8. f \in [Clusters -> Entries]
        /\ \A k \in Clusters : f[k] = IF k = t THEN LAST_CLUSTER ELSE IF k = p THEN t ELSE d.fat[k]
    <3> HIDE DEF t, p
    <3> QED BY <1>1, <2>3, <2>6 DEF Entries
  <2> HIDE DEF e, f, t, next, free
  <2>9. e \in Volumes BY <1>1, <2>4, <2>7, <2>8 DEF Volumes
  <2>10. NoPred(d, t)
    <3> SUFFICES ASSUME NEW k \in Clusters, d.fat[k] = t PROVE FALSE BY DEF NoPred
    <3>1. d.fat[t] \in Clusters \union {LAST_CLUSTER} BY <2>3 DEF Sound, Linked
    <3> QED BY <2>3, <3>1, Sizes DEF EMPTY_CLUSTER, LAST_CLUSTER, Clusters
  <2>11. LAST_CLUSTER \notin Clusters BY DEF LAST_CLUSTER, Clusters
  <2>12. \A k \in Clusters : NoPred(d, k) /\ k # t => NoPred(e, k)
    <3> SUFFICES ASSUME NEW k \in Clusters, NoPred(d, k), k # t, NEW q \in Clusters, e.fat[q] = k
                 PROVE  FALSE
      BY DEF NoPred
    <3> QED BY <2>7, <2>8, <2>11 DEF NoPred
  <2>13. \A k \in Clusters : Leads(d, k) => Leads(e, k)
    <3> SUFFICES ASSUME NEW k \in Clusters, Leads(d, k) PROVE Leads(e, k) OBVIOUS
    <3>1. k # t BY <2>3 DEF Leads, EMPTY_CLUSTER, LAST_CLUSTER, Clusters
    <3>2. e.fat[k] \in Clusters \union {LAST_CLUSTER} BY <2>3, <2>7, <2>8 DEF Leads
    <3> QED BY <2>12, <3>1, <3>2 DEF Leads
  <2>14. Linked(e)
    <3>1. ASSUME NEW q \in Clusters, NEW r \in Clusters, f[q] \in Clusters, f[q] = f[r]
          PROVE  q = r
      <4>1. q # t /\ r # t BY <2>8, <2>11, <3>1
      <4>2. q = p => r = p BY <2>8, <2>10, <3>1, <4>1 DEF NoPred
      <4>3. r = p => q = p BY <2>8, <2>10, <3>1, <4>1 DEF NoPred
      <4> QED BY <2>8, <3>1, <4>1, <4>2, <4>3 DEF Sound, Linked
    <3>2. ASSUME NEW q \in Clusters, f[q] \in Clusters
          PROVE  f[f[q]] \in Clusters \union {LAST_CLUSTER}
      <4>1. q # t BY <2>8, <2>11, <3>2
      <4>2. CASE q = p BY <2>3, <2>8, <4>1, <4>2
      <4>3. CASE q # p
        <5>1. f[q] = d.fat[q] BY <2>8, <4>1, <4>3
        <5>2. d.fat[d.fat[q]] \in Clusters \union {LAST_CLUSTER} BY <3>2, <5>1 DEF Sound, Linked
        <5> QED BY <2>3, <2>8, <3>2, <5>1, <5>2
      <4> QED BY <4>2, <4>3
    <3> QED BY <2>7, <3>1, <3>2 DEF Linked
  <2>15. \A at : At(e, at) = At(d, at) BY <2>7 DEF At
  <2>16. Claims(e) = Claims(d) BY <2>15 DEF Claims
  <2>17. \A at \in Claims(d) : At(d, at).cluster \in Clusters /\ Leads(d, At(d, at).cluster)
    BY DEF Sound, Leads
  <2>18. DotsFirst(e)
    <3> SUFFICES ASSUME NEW at \in Places, At(e, at).name = "."
                 PROVE  /\ at[2] = 1 /\ at[1] < e.hint /\ NoPred(e, at[1])
                        /\ At(e, at).kind \in {"dir", "deleted"}
      BY DEF DotsFirst
    <3>1. /\ at[2] = 1 /\ at[1] < d.hint /\ NoPred(d, at[1])
          /\ At(d, at).kind \in {"dir", "deleted"}
      BY <2>15 DEF Sound, DotsFirst
    <3>2. at[1] \in Clusters BY <1>1, AtIs
    <3>a. at[1] \in Nat /\ t \in Nat BY <2>3, <3>2, Sizes
    <3>b. next \in Nat BY <1>1, <2>4
    <3>3. at[1] \in Nat /\ t \in Nat /\ next \in Nat BY <3>a, <3>b
    <3>4. at[1] # t BY <1>1, <2>3, <3>1, <3>3
    <3> QED BY <1>1, <2>4, <2>7, <2>12, <2>15, <3>1, <3>2, <3>3, <3>4
  <2>19. NoPred(e, ROOT) BY <2>3, <2>12, Sizes DEF Sound
  <2>20. Sound(e)
    BY <2>9, <2>13, <2>14, <2>15, <2>16, <2>17, <2>18, <2>19 DEF Sound
  <2>21. Grown(d, e) BY <2>4, <2>7, <2>13, <2>20 DEF Grown
  <2>22. \A at \in Claims(e) : At(e, at).cluster # t
    BY <2>3, <2>15, <2>16, <2>17 DEF Leads, EMPTY_CLUSTER, LAST_CLUSTER, Clusters
  <2>23. prev = 0 => Leads(e, t)
    <3> SUFFICES ASSUME prev = 0 PROVE Leads(e, t) OBVIOUS
    <3>1. p = t OBVIOUS
    <3>2. NoPred(e, t)
      <4> SUFFICES ASSUME NEW q \in Clusters, f[q] = t PROVE FALSE BY <2>7 DEF NoPred
      <4> QED BY <2>3, <2>8, <2>10, <2>11, <3>1 DEF NoPred
    <3> QED BY <2>3, <2>7, <2>8, <3>2 DEF Leads
  <2> QED BY <2>3, <2>4, <2>7, <2>21, <2>22, <2>23 DEF e, t
<1> QED BY <1>2, <1>3

---------------------------------------------------------------------------
(* Clusters that are released.                                             *)

LEMMA SameFat ==
  ASSUME NEW d, NEW e, e.fat = d.fat
  PROVE  \A c : Chain(e, c) = Chain(d, c) /\ Slots(e, c) = Slots(d, c) /\ Complete(e, c) = Complete(d, c)
<1>1. \A c : fat32_fat_at(e, c) = fat32_fat_at(d, c) BY DEF fat32_fat_at
<1>2. ASSUME NEW c PROVE Chain(e, c) = Chain(d, c)
  <2> DEFINE Step(x, g) == [i \in 0 .. N |->
               IF i = 0 THEN <<c>>
               ELSE LET walked == g[i - 1]
                        next   == fat32_fat_at(x, Last(walked))
                    IN  IF next \in Clusters THEN Append(walked, next) ELSE walked]
             walk(x) == CHOOSE g : g = Step(x, g)
  <2>1. \A g : Step(e, g) = Step(d, g) BY <1>1
  <2>2. \A x : Chain(x, c) = walk(x)[N] BY DEF Chain
  <2> HIDE DEF Step
  <2>3. walk(e) = walk(d) BY <2>1, Zenon
  <2> HIDE DEF walk
  <2> QED BY <2>2, <2>3
<1> QED BY <1>1, <1>2 DEF Slots, Complete

\* A chain from a cluster that no other leads to is left, and entered, nowhere.
LEMMA ChainClosed ==
  ASSUME NEW d \in Volumes, Linked(d), NEW c \in Clusters, NoPred(d, c)
  PROVE  /\ \A p \in Clusters : d.fat[p] \in Range(Chain(d, c)) => p \in Range(Chain(d, c))
         /\ \A k \in Range(Chain(d, c)) : NoPred(d, k) => k = c
<1> DEFINE w == Chain(d, c)
           n == Len(w)
<1>1. /\ n \in Nat /\ w[1] = c /\ \A i \in 1 .. n : w[i] \in Clusters
      /\ \A i \in 1 .. n - 1 : w[i + 1] = d.fat[w[i]]
      /\ Range(w) = {w[i] : i \in 1 .. n}
  BY ChainIs, Sizes
<1> HIDE DEF w
<1>2. ASSUME NEW i \in 1 .. n, i # 1 PROVE \E q \in Range(w) \intersect Clusters : d.fat[q] = w[i]
  <2>1. i - 1 \in 1 .. n - 1 /\ i - 1 \in 1 .. n /\ (i - 1) + 1 = i BY <1>1, <1>2
  <2>2. w[i] = d.fat[w[i - 1]] /\ w[i - 1] \in Clusters /\ w[i - 1] \in Range(w) BY <1>1, <2>1
  <2> QED BY <2>2
<1>3. ASSUME NEW p \in Clusters, d.fat[p] \in Range(w) PROVE p \in Range(w)
  <2>1. PICK i \in 1 .. n : d.fat[p] = w[i] BY <1>1, <1>3
  <2>2. i # 1 BY <1>1, <2>1 DEF NoPred
  <2>3. PICK q \in Range(w) \intersect Clusters : d.fat[q] = w[i] BY <1>2, <2>2
  <2>4. w[i] \in Clusters BY <1>1
  <2> QED BY <2>1, <2>3, <2>4 DEF Linked
<1>4. ASSUME NEW k \in Range(w), NoPred(d, k) PROVE k = c
  <2>1. PICK i \in 1 .. n : k = w[i] BY <1>1
  <2>2. i = 1 BY <1>2, <1>4, <2>1 DEF NoPred
  <2> QED BY <1>1, <2>1, <2>2
<1> QED BY <1>3, <1>4 DEF w

LEMMA ReleaseKeeps ==
  ASSUME NEW d, Sound(d), NEW c \in Clusters, NoPred(d, c),
         \A at \in Claims(d) : At(d, at).cluster # c
  PROVE  LET e == fat32_release_clusters(d, c)
         IN  /\ Sound(e) /\ e.data = d.data /\ e.hint = d.hint /\ e.over = d.over
             /\ \A k \in Clusters : Leads(d, k) /\ k # c => Leads(e, k)
<1> DEFINE e == fat32_release_clusters(d, c)
           R == Range(Chain(d, c))
           f == [k \in Clusters |-> IF k \in R THEN EMPTY_CLUSTER ELSE d.fat[k]]
<1>1. d \in Volumes /\ d.fat \in [Clusters -> Entries] /\ Linked(d) BY DEF Sound, Volumes
<1>2. e = [d EXCEPT !.fat = f] BY DEF fat32_release_clusters
<1>3. f \in [Clusters -> Entries] /\ \A k \in Clusters : f[k] = IF k \in R THEN 0 ELSE d.fat[k]
  BY <1>1 DEF Entries, EMPTY_CLUSTER
<1> HIDE DEF f
<1>4. e \in Volumes /\ e.fat = f /\ e.data = d.data /\ e.hint = d.hint /\ e.over = d.over
  BY <1>1, <1>2, <1>3 DEF Volumes
<1>5. /\ \A p \in Clusters : d.fat[p] \in R => p \in R
      /\ \A k \in R : NoPred(d, k) => k = c
      /\ R \subseteq Clusters
  BY <1>1, ChainClosed, ChainIs
<1> HIDE DEF e, R
<1>6. 0 \notin Clusters BY DEF Clusters
<1>7. \A k \in Clusters : NoPred(d, k) => NoPred(e, k) BY <1>3, <1>4, <1>6 DEF NoPred
<1>8. \A k \in Clusters : Leads(d, k) /\ k # c => Leads(e, k)
  BY <1>3, <1>4, <1>5, <1>7 DEF Leads
<1>9. Linked(e)
  <2>1. ASSUME NEW p \in Clusters, NEW q \in Clusters, f[p] \in Clusters, f[p] = f[q]
        PROVE  p = q
    BY <1>1, <1>3, <1>6, <2>1 DEF Linked
  <2>2. ASSUME NEW p \in Clusters, f[p] \in Clusters
        PROVE  f[f[p]] \in Clusters \union {LAST_CLUSTER}
    <3>1. p \notin R /\ f[p] = d.fat[p] BY <1>3, <1>6, <2>2
    <3>2. d.fat[p] \notin R BY <1>5, <3>1
    <3>3. f[f[p]] = d.fat[d.fat[p]] BY <1>3, <2>2, <3>1, <3>2
    <3> QED BY <1>1, <2>2, <3>1, <3>3 DEF Linked
  <2> QED BY <1>4, <2>1, <2>2 DEF Linked
<1>10. \A at : At(e, at) = At(d, at) BY <1>4 DEF At
<1>11. Claims(e) = Claims(d) BY <1>10 DEF Claims
<1>12. DotsFirst(e)
  <2> SUFFICES ASSUME NEW at \in Places, At(e, at).name = "."
               PROVE  /\ at[2] = 1 /\ at[1] < e.hint /\ NoPred(e, at[1])
                      /\ At(e, at).kind \in {"dir", "deleted"}
    BY DEF DotsFirst
  <2>1. at[1] \in Clusters BY <1>1, AtIs
  <2> QED BY <1>4, <1>7, <1>10, <2>1 DEF Sound, DotsFirst
<1>13. NoPred(e, ROOT) BY <1>7, Sizes DEF Sound
<1>14. ASSUME NEW at \in Claims(e)
       PROVE  Leads(e, At(e, at).cluster) /\ At(e, at).cluster # ROOT
  <2>1. /\ Leads(d, At(d, at).cluster) /\ At(d, at).cluster # ROOT
        /\ At(d, at).cluster # c
    BY <1>11 DEF Sound
  <2> QED BY <1>8, <1>10, <2>1 DEF Leads
<1>15. \A p, q \in Claims(e) : At(e, p).cluster = At(e, q).cluster => p = q
  BY <1>10, <1>11 DEF Sound
<1>16. Sound(e) BY <1>4, <1>9, <1>12, <1>13, <1>14, <1>15 DEF Sound
<1> QED BY <1>4, <1>8, <1>16 DEF e

---------------------------------------------------------------------------
(* Files, as the directories list them.                                    *)

IsFile(file) ==
  /\ file = [x \in DOMAIN file |-> file[x]] /\ {"kind", "cluster", "size", "entry"} \subseteq DOMAIN file
  /\ file.kind \in Kinds /\ file.cluster \in 0 .. N /\ file.size \in Nat /\ file.entry \in Places

\* The cluster of the file, if it has one, begins a chain of its own.
Alone(d, file) ==
  file.cluster # 0 =>
    /\ NoPred(d, file.cluster)
    /\ \A at \in Claims(d) : At(d, at).cluster = file.cluster => at = file.entry

With(file, c, s) == [file EXCEPT !.cluster = c, !.size = s]

LEMMA Changed ==
  ASSUME NEW file, IsFile(file), NEW c \in 0 .. N, NEW s \in Nat
  PROVE  LET new == With(file, c, s)
         IN  /\ IsFile(new) /\ new.kind = file.kind /\ new.entry = file.entry
             /\ new.cluster = c /\ new.size = s
<1> DEFINE new == With(file, c, s)
<1>1. /\ new.kind = file.kind /\ new.entry = file.entry /\ new.cluster = c /\ new.size = s
      /\ new = [x \in DOMAIN new |-> new[x]] /\ DOMAIN new = DOMAIN file
  BY DEF IsFile, With
<1> HIDE DEF new
<1>2. IsFile(new) BY <1>1 DEF IsFile
<1> QED BY <1>1, <1>2 DEF new

LEMMA EraseKeeps ==
  ASSUME NEW d, Sound(d), NEW file, IsFile(file), file.kind = At(d, file.entry).kind, Alone(d, file)
  PROVE  LET e == fat32_erase_file(d, file)
         IN  /\ Sound(e) /\ e.hint = d.hint /\ e.over = d.over
             /\ At(e, file.entry).name = At(d, file.entry).name
             /\ \A k \in Clusters : Leads(d, k) /\ k # file.cluster => Leads(e, k)
             /\ \A at \in Places \ {file.entry} : At(e, at) = At(d, at)
<1> DEFINE new == With(file, 0, 0)
           e == fat32_erase_file(d, file)
           d1 == fat32_update_directory_entry(d, new)
           c == file.cluster
           freed == IF c = 0 THEN d ELSE fat32_release_clusters(d, c)
<1>1. d \in Volumes /\ file.entry \in Places /\ c \in 0 .. N BY DEF Sound, IsFile
<1>2. /\ IsFile(new) /\ new.kind = file.kind /\ new.entry = file.entry
      /\ new.cluster = 0 /\ new.size = 0
  <2>1. 0 \in 0 .. N /\ 0 \in Nat BY Sizes
  <2>2. IsFile(file) OBVIOUS
  <2> QED BY <2>1, <2>2, Changed
<1>3. e = fat32_update_directory_entry(freed, new) BY DEF fat32_erase_file, With
<1> HIDE DEF new
<1>4. /\ d1 \in Volumes /\ d1.fat = d.fat /\ d1.hint = d.hint /\ d1.over = d.over
      /\ At(d1, file.entry).name = At(d, file.entry).name
      /\ At(d1, file.entry).kind = file.kind /\ At(d1, file.entry).cluster = 0
      /\ \A at \in Places \ {file.entry} : At(d1, at) = At(d, at)
  <2>1. /\ new.entry \in Places /\ new.kind \in Kinds /\ new.cluster \in 0 .. N
        /\ new.size \in Nat
    BY <1>2 DEF IsFile
  <2>2. /\ d1 \in Volumes /\ d1.fat = d.fat /\ d1.hint = d.hint /\ d1.over = d.over
        /\ At(d1, new.entry).name = At(d, new.entry).name
        /\ At(d1, new.entry).kind = new.kind /\ At(d1, new.entry).cluster = new.cluster
        /\ \A at \in Places \ {new.entry} : At(d1, at) = At(d, at)
    BY <1>1, <2>1, UpdateIs
  <2> HIDE DEF d1
  <2> QED BY <1>2, <2>2
<1>6. /\ At(d1, file.entry).name = At(d, file.entry).name
      /\ At(d1, file.entry).kind = At(d, file.entry).kind
      /\ At(d1, file.entry).cluster = 0
  <2> HIDE DEF d1
  <2> QED BY <1>4
<1>7. Keeps(d, d1)
  <2> HIDE DEF d1
  <2> QED BY <1>4, <1>6 DEF Keeps
<1>8. Sound(d1) BY <1>7, KeepsSound
<1>9. CASE c = 0
  <2>1. e = d1 BY <1>3, <1>9
  <2>2. \A k : Leads(e, k) = Leads(d, k) BY <1>4, <2>1 DEF Leads, NoPred
  <2> HIDE DEF d1, e
  <2>3. \A at \in Places \ {file.entry} : At(e, at) = At(d, at) BY <1>4, <2>1
  <2> QED BY <1>4, <1>6, <1>8, <2>1, <2>2, <2>3 DEF e
<1>10. CASE c # 0
  <2>1. c \in Clusters BY <1>1, <1>10, Sizes DEF Clusters
  <2> DEFINE r == fat32_release_clusters(d1, c)
             s == fat32_release_clusters(d, c)
  <2>2. NoPred(d1, c) BY <1>4, <1>10 DEF Alone, NoPred
  <2>3. \A at \in Claims(d1) : At(d1, at).cluster # c
    <3> SUFFICES ASSUME NEW at \in Claims(d1), At(d1, at).cluster = c PROVE FALSE OBVIOUS
    <3>1. at \in Claims(d) /\ At(d1, at) = At(d, at) BY <1>1, <1>7, KeepsClaims
    <3>2. at = file.entry BY <1>10, <3>1 DEF Alone
    <3> HIDE DEF d1
    <3> QED BY <1>6, <1>10, <3>2
  <2>4. /\ Sound(r) /\ r.data = d1.data /\ r.hint = d1.hint /\ r.over = d1.over
        /\ \A k \in Clusters : Leads(d1, k) /\ k # c => Leads(r, k)
    <3> HIDE DEF d1
    <3> QED BY <1>8, <2>1, <2>2, <2>3, ReleaseKeeps
  <2>5. Range(Chain(d1, c)) = Range(Chain(d, c)) BY <1>4, SameFat
  <2>6. /\ s.fat = r.fat /\ s.hint = d.hint /\ s.over = d.over /\ s.data = d.data
        /\ s \in Volumes
    <3> DEFINE f == [k \in Clusters |-> IF k \in Range(Chain(d, c)) THEN EMPTY_CLUSTER ELSE d.fat[k]]
    <3>1. s = [d EXCEPT !.fat = f] BY DEF fat32_release_clusters
    <3>2. r = [d1 EXCEPT !.fat = f]
      <4> HIDE DEF d1
      <4> QED BY <1>4, <2>5 DEF fat32_release_clusters
    <3>3. d.fat \in [Clusters -> Entries] BY <1>1 DEF Volumes
    <3>4. f \in [Clusters -> Entries] BY <3>3 DEF Entries
    <3> HIDE DEF f, r, s, d1
    <3>5. r.fat = f BY <1>4, <3>2 DEF Volumes
    <3> QED BY <1>1, <3>1, <3>4, <3>5 DEF Volumes
  <2>7. e = fat32_update_directory_entry(s, new) BY <1>3, <1>10
  <2>8. \A at : At(s, at) = At(d, at) BY <2>6 DEF At
  <2> HIDE DEF s, r
  <2>9. /\ e \in Volumes /\ e.fat = s.fat /\ e.hint = s.hint /\ e.over = s.over
        /\ At(e, file.entry).name = At(s, file.entry).name
        /\ At(e, file.entry).kind = file.kind /\ At(e, file.entry).cluster = 0
        /\ \A at \in Places \ {file.entry} : At(e, at) = At(s, at)
    <3>1. /\ new.entry \in Places /\ new.kind \in Kinds /\ new.cluster \in 0 .. N
          /\ new.size \in Nat
      BY <1>2 DEF IsFile
    <3>2. /\ e \in Volumes /\ e.fat = s.fat /\ e.hint = s.hint /\ e.over = s.over
          /\ At(e, new.entry).name = At(s, new.entry).name
          /\ At(e, new.entry).kind = new.kind /\ At(e, new.entry).cluster = new.cluster
          /\ \A at \in Places \ {new.entry} : At(e, at) = At(s, at)
      <4> HIDE DEF e
      <4> QED BY <2>6, <2>7, <3>1, UpdateIs
    <3> HIDE DEF e
    <3> QED BY <1>2, <3>2
  <2>10. \A at : At(r, at) = At(d1, at) BY <2>4 DEF At
  <2> HIDE DEF d1, e
  <2>11. /\ \A at \in Places \ {file.entry} : At(e, at) = At(r, at)
         /\ At(e, file.entry).name = At(r, file.entry).name
         /\ At(e, file.entry).kind = At(r, file.entry).kind
         /\ At(e, file.entry).cluster = 0
    BY <1>1, <1>4, <2>8, <2>9, <2>10
  <2>12. e.fat = r.fat /\ e.hint = r.hint /\ e.over = r.over BY <1>4, <2>4, <2>6, <2>9
  <2>13. Keeps(r, e) BY <2>9, <2>11, <2>12 DEF Keeps
  <2>14. Sound(e) BY <2>4, <2>13, KeepsSound
  <2>15. \A k \in Clusters : Leads(d, k) /\ k # c => Leads(e, k)
    <3>1. \A k : Leads(d1, k) = Leads(d, k) /\ Leads(e, k) = Leads(r, k)
      BY <1>4, <2>12 DEF Leads, NoPred
    <3> QED BY <2>4, <3>1
  <2>16. At(e, file.entry).name = At(d, file.entry).name BY <2>8, <2>9
  <2>17. \A at \in Places \ {file.entry} : At(e, at) = At(d, at) BY <2>8, <2>9
  <2> QED BY <2>6, <2>9, <2>14, <2>15, <2>16, <2>17 DEF e
<1> QED BY <1>9, <1>10

---------------------------------------------------------------------------
(* Writes.                                                                 *)

LEMMA GrownSame ==
  ASSUME NEW d, Sound(d)
  PROVE  Grown(d, d)
<1>1. d.hint \in Nat BY Sizes DEF Sound, Volumes
<1> QED BY <1>1 DEF Grown

LEMMA ExtendedKeeps ==
  ASSUME NEW d, Sound(d), NEW c \in Clusters, NEW k \in Nat
  PROVE  Grown(d, Extended(d, c, k))
<1> DEFINE missing == k - Len(Chain(d, c))
           S == {e \in Volumes : Grown(d, e)}
           G == [e \in S |-> fat32_take_new_cluster(e, Last(Chain(e, c)))]
           Step(g) == [i \in 0 .. missing |->
                         IF i = 0 THEN d
                         ELSE LET grown == g[i - 1]
                              IN  fat32_take_new_cluster(grown, Last(Chain(grown, c)))]
           grow == CHOOSE g : g = Step(g)
<1>1. d \in Volumes BY DEF Sound
<1>2. missing \in Int BY <1>1, ChainIs, Sizes
<1>3. CASE missing <= 0
  <2>1. Extended(d, c, k) = d BY <1>3 DEF Extended
  <2> QED BY <2>1, GrownSame
<1>4. CASE ~ (missing <= 0)
  <2>1. missing \in Nat BY <1>2, <1>4
  <2>2. Extended(d, c, k) = grow[missing] BY <1>4 DEF Extended
  <2>3. d \in S BY <1>1, GrownSame
  <2>4. ASSUME NEW e \in S PROVE G[e] \in S
    <3>1. Last(Chain(e, c)) \in Clusters BY ChainIs
    <3>2. Grown(d, e) /\ Sound(e) BY DEF Grown
    <3>3. Grown(e, G[e]) BY <3>1, <3>2, TakeKeeps
    <3> HIDE DEF G
    <3>4. Grown(d, G[e]) BY <3>2, <3>3, GrownAgain
    <3>5. G[e] \in Volumes BY <3>4 DEF Grown, Sound
    <3> QED BY <3>4, <3>5
  <2>5. G \in [S -> S]
    <3>1. \A e \in S : G[e] \in S BY <2>4
    <3>2. G = [e \in S |-> G[e]] OBVIOUS
    <3> HIDE DEF S, G
    <3> QED BY <3>1, <3>2
  <2>6. PICK f \in [0 .. missing -> S] : Repeats(f, d, G, missing)
    <3> HIDE DEF S, G, missing
    <3> QED BY <2>1, <2>3, <2>5, Iterates
  <2>7. f = Step(f)
    <3>1. ASSUME NEW i \in 0 .. missing PROVE f[i] = Step(f)[i]
      <4>1. CASE i = 0 BY <2>6, <4>1 DEF Repeats
      <4>2. CASE i # 0
        <5>1. i \in 1 .. missing /\ i - 1 \in 0 .. missing BY <2>1, <4>2
        <5>2. f[i] = G[f[i - 1]] BY <2>6, <5>1 DEF Repeats
        <5>3. f[i - 1] \in S BY <2>6, <5>1
        <5> QED BY <4>2, <5>2, <5>3
      <4> QED BY <4>1, <4>2
    <3> HIDE DEF missing
    <3> QED BY <2>6, <3>1
  <2>8. grow = Step(grow) BY <2>7
  <2> HIDE DEF grow
  <2> DEFINE Done == {i \in 0 .. missing : Grown(d, grow[i])}
  <2>9. 0 \in Done
    <3>1. grow[0] = d BY <2>1, <2>8
    <3> QED BY <2>1, <3>1, GrownSame
  <2>10. ASSUME NEW i \in 1 .. missing, i - 1 \in Done PROVE i \in Done
    <3> DEFINE e == grow[i - 1]
    <3>1. i \in 0 .. missing /\ i # 0 BY <2>1
    <3>2. grow[i] = Step(grow)[i] BY <2>8
    <3>3. grow[i] = fat32_take_new_cluster(e, Last(Chain(e, c))) BY <3>1, <3>2
    <3>4. Grown(d, e) BY <2>10
    <3>5. Sound(e) /\ e \in Volumes BY <3>4 DEF Grown, Sound
    <3> HIDE DEF e
    <3>6. Last(Chain(e, c)) \in Clusters BY <3>5, ChainIs
    <3>7. Grown(e, grow[i]) BY <3>3, <3>5, <3>6, TakeKeeps
    <3>8. Grown(d, grow[i]) BY <3>4, <3>7, GrownAgain
    <3> QED BY <3>1, <3>8
  <2> HIDE DEF Done, missing
  <2>m. \A i \in 1 .. missing : i - 1 \in Done => i \in Done BY <2>10
  <2>11. \A i \in 0 .. missing : i \in Done BY <2>1, <2>9, <2>m, Upwards
  <2>12. missing \in Done BY <2>1, <2>11
  <2> QED BY <2>2, <2>12 DEF Done
<1> QED BY <1>3, <1>4

\* What may be written: records that claim no cluster and, as the first of a
\* cluster of its own, the record ".".
Plain(slot) == slot.cluster = 0 /\ slot.name # "."

Writable(d, file, start, slots) ==
  /\ start \in Nat /\ slots \in Seq(SlotRecords) /\ Len(slots) \in Nat \ {0}
  /\ \/ /\ \A i \in 1 .. Len(slots) : Plain(slots[i])
        /\ file.kind = "dir" \/ At(d, file.entry).name # "."
     \/ /\ file.kind = "dir" /\ file.cluster # 0 /\ file.cluster < d.hint /\ start = 0
        /\ slots[1].name = "." /\ slots[1].kind = "dir"
        /\ \A i \in 2 .. Len(slots) : Plain(slots[i])

\* A record takes a cluster that begins a chain and that no other record has.
LEMMA ClaimKeeps ==
  ASSUME NEW d, Sound(d), NEW file, IsFile(file),
         Leads(d, file.cluster), file.cluster # ROOT,
         \A at \in Claims(d) : At(d, at).cluster = file.cluster => at = file.entry,
         file.kind = "dir" \/ At(d, file.entry).name # "."
  PROVE  LET e == fat32_update_directory_entry(d, file)
         IN  /\ Sound(e) /\ e.hint = d.hint /\ e.over = d.over
             /\ \A k : Leads(e, k) = Leads(d, k)
             /\ \A at \in Claims(e) : At(e, at).cluster = file.cluster => at = file.entry
<1> DEFINE e == fat32_update_directory_entry(d, file)
           cluster == file.cluster
<1>1. d \in Volumes /\ file.entry \in Places BY DEF Sound, IsFile
<1>2. /\ e \in Volumes /\ e.fat = d.fat /\ e.hint = d.hint /\ e.over = d.over
       /\ At(e, file.entry).name = At(d, file.entry).name
       /\ At(e, file.entry).kind = file.kind /\ At(e, file.entry).cluster = cluster
       /\ \A at \in Places \ {file.entry} : At(e, at) = At(d, at)
  BY <1>1, UpdateIs DEF IsFile
<1> HIDE DEF e
<1>3. \A k : NoPred(e, k) = NoPred(d, k) /\ Leads(e, k) = Leads(d, k)
  BY <1>2 DEF NoPred, Leads
<1>4. \A at \in Claims(e) : at # file.entry => at \in Claims(d) /\ At(e, at) = At(d, at)
  BY <1>2 DEF Claims
<1>5. DotsFirst(e)
  <2> SUFFICES ASSUME NEW at \in Places, At(e, at).name = "."
               PROVE  /\ at[2] = 1 /\ at[1] < e.hint /\ NoPred(e, at[1])
                      /\ At(e, at).kind \in {"dir", "deleted"}
    BY DEF DotsFirst
  <2>1. At(d, at).name = "." BY <1>2
  <2>2. /\ at[2] = 1 /\ at[1] < d.hint /\ NoPred(d, at[1])
        /\ At(d, at).kind \in {"dir", "deleted"}
    BY <2>1 DEF Sound, DotsFirst
  <2>3. At(e, at).kind \in {"dir", "deleted"} BY <1>2, <2>1, <2>2
  <2> QED BY <1>2, <1>3, <2>2, <2>3
<1>6. ASSUME NEW at \in Claims(e)
       PROVE  Leads(e, At(e, at).cluster) /\ At(e, at).cluster # ROOT
  <2>1. CASE at = file.entry BY <1>2, <1>3, <2>1
  <2>2. CASE at # file.entry
    <3>1. Leads(d, At(d, at).cluster) /\ At(d, at).cluster # ROOT BY <1>4, <2>2 DEF Sound
    <3> QED BY <1>3, <1>4, <2>2, <3>1
  <2> QED BY <2>1, <2>2
<1>11. \A r \in Claims(e) : At(e, r).cluster = cluster => r = file.entry BY <1>4
<1>7. ASSUME NEW p \in Claims(e), NEW q \in Claims(e), At(e, p).cluster = At(e, q).cluster
       PROVE  p = q
  <2>2. CASE p = file.entry BY <1>2, <1>7, <1>11, <2>2
  <2>3. CASE q = file.entry BY <1>2, <1>7, <1>11, <2>3
  <2>4. CASE p # file.entry /\ q # file.entry BY <1>4, <1>7, <2>4 DEF Sound
  <2> QED BY <2>2, <2>3, <2>4
<1>8. Linked(e) BY <1>2 DEF Linked, Sound
<1>9. NoPred(e, ROOT) BY <1>3 DEF Sound
<1>10. Sound(e) BY <1>2, <1>5, <1>6, <1>7, <1>8, <1>9 DEF Sound
<1> QED BY <1>2, <1>3, <1>10, <1>11 DEF e

LEMMA WriteKeeps ==
  ASSUME NEW d, Sound(d), NEW file, IsFile(file), Alone(d, file),
         file.cluster # 0 => Leads(d, file.cluster) /\ file.cluster # ROOT,
         NEW start, NEW slots, Writable(d, file, start, slots)
  PROVE  LET e == fat32_write_file(d, file, start, slots)
         IN  ~ e.over => Sound(e) /\ \A k \in Clusters : Leads(d, k) => Leads(e, k)
<1> DEFINE started == IF file.cluster = 0 THEN fat32_take_new_cluster(d, 0) ELSE d
           cluster == IF file.cluster = 0 THEN Taken(d) ELSE file.cluster
           grown   == Extended(started, cluster, (start + Len(slots) - 1) \div EPC + 1)
           places  == SubSeq(Slots(grown, cluster), start + 1, start + Len(slots))
           written == Put(grown, places, slots)
           size    == IF file.kind = "dir" THEN file.size
                      ELSE Max({file.size, start + Len(slots)})
           new     == With(file, cluster, size)
           e       == fat32_write_file(d, file, start, slots)
<1>1. e = IF grown.over THEN grown ELSE fat32_update_directory_entry(written, new)
  BY DEF fat32_write_file, With
<1>2. d \in Volumes /\ file.entry \in Places /\ file.cluster \in 0 .. N /\ file.kind \in Kinds
      /\ file.size \in Nat
  BY DEF Sound, IsFile
<1>3. /\ Grown(d, started)
      /\ ~ started.over =>
           /\ cluster \in Clusters /\ Leads(started, cluster) /\ cluster # ROOT
           /\ \A at \in Claims(started) : At(started, at).cluster = cluster => at = file.entry
  <2>1. CASE file.cluster = 0
    <3>1. started = fat32_take_new_cluster(d, 0) /\ cluster = Taken(d) BY <2>1
    <3> HIDE DEF started, cluster
    <3> QED BY <3>1, TakeKeeps
  <2>2. CASE file.cluster # 0
    <3>1. started = d /\ cluster = file.cluster BY <2>2
    <3> HIDE DEF started, cluster
    <3> QED BY <2>2, <3>1, GrownSame DEF Alone, Leads
  <2> QED BY <2>1, <2>2
<1>4. start \in Nat /\ slots \in Seq(SlotRecords) /\ Len(slots) \in Nat \ {0} BY DEF Writable
<1>5. (start + Len(slots) - 1) \div EPC + 1 \in Nat
  <2>1. EPC \in Nat \ {0} BY Sizes
  <2>2. start + Len(slots) - 1 \in Nat BY <1>4
  <2>3. \A m \in Nat : m \div EPC \in Nat BY <2>1
  <2> QED BY <2>2, <2>3
<1>6. size \in Nat
  <2>1. CASE file.kind = "dir" BY <1>2, <2>1
  <2>2. CASE file.kind # "dir"
    <3> DEFINE both == {file.size, start + Len(slots)}
    <3>2. \E x \in both : \A y \in both : x >= y BY <1>2, <1>4
    <3>3. Max(both) \in both BY <3>2 DEF Max
    <3>4. size = Max(both) BY <2>2
    <3>5. both \subseteq Nat BY <1>2, <1>4
    <3> HIDE DEF both, size
    <3> QED BY <3>3, <3>4, <3>5
  <2> QED BY <2>1, <2>2
<1> SUFFICES ASSUME ~ e.over
             PROVE  Sound(e) /\ \A k \in Clusters : Leads(d, k) => Leads(e, k)
  OBVIOUS
<1>7. ~ grown.over /\ e = fat32_update_directory_entry(written, new)
  <2> HIDE DEF grown, written, new
  <2> QED BY <1>1
<1>8. ~ started.over /\ cluster \in Clusters /\ Grown(started, grown)
  <2>1. started.over \in BOOLEAN /\ Sound(started) /\ started \in Volumes
    BY <1>3 DEF Grown, Sound, Volumes
  <2> HIDE DEF started, cluster
  <2>2. CASE ~ started.over
    <3>1. Grown(started, grown) BY <1>3, <1>5, <2>1, <2>2, ExtendedKeeps
    <3> QED BY <1>3, <2>2, <3>1
  <2>3. CASE started.over
    <3>1. cluster \in Clusters => Grown(started, grown) BY <1>5, <2>1, ExtendedKeeps
    <3>2. cluster \notin Clusters \/ grown.over BY <2>3, <3>1 DEF Grown
    <3>3. cluster \in Clusters
      <4>1. CASE file.cluster = 0 BY <1>2, <4>1, TakenInside DEF cluster
      <4>2. CASE file.cluster # 0 BY <4>2 DEF cluster, Leads
      <4> QED BY <4>1, <4>2
    <3> QED BY <1>7, <3>2, <3>3
  <2> QED BY <2>2, <2>3
<1> HIDE DEF started
<1>9. /\ Sound(grown) /\ Leads(grown, cluster) /\ cluster # ROOT /\ grown.hint \in Nat
      /\ \A at \in Claims(grown) : At(grown, at).cluster = cluster => at = file.entry
      /\ \A k \in Clusters : Leads(d, k) => Leads(grown, k)
      /\ grown.data = d.data /\ d.hint <= grown.hint /\ d.hint \in Nat
  <2>1. Grown(d, grown)
    <3> HIDE DEF grown
    <3> QED BY <1>3, <1>8, GrownAgain
  <2>2. Leads(grown, cluster) /\ grown.data = started.data
    <3> HIDE DEF grown, cluster
    <3> QED BY <1>3, <1>8 DEF Grown
  <2>3. \A at : At(grown, at) = At(started, at) BY <2>2 DEF At
  <2>4. Claims(grown) = Claims(started) BY <2>3 DEF Claims
  <2> HIDE DEF grown, cluster
  <2>5. grown.hint \in Nat /\ d.hint \in Nat BY <1>2, <2>1, Sizes DEF Grown, Sound, Volumes
  <2> QED BY <1>3, <1>8, <2>1, <2>2, <2>3, <2>4, <2>5 DEF Grown
<1>10. grown \in Volumes BY <1>9 DEF Sound
<1> HIDE DEF grown
<1> DEFINE P == {Slots(grown, cluster)[i] : i \in start + 1 .. start + Len(slots)}
<1>11. /\ places \in Seq(P) /\ Len(places) = Len(slots)
       /\ \A i \in 1 .. Len(slots) : places[i] = Slots(grown, cluster)[start + i]
  <2> DEFINE s == Slots(grown, cluster)
             m == start + 1
             n == start + Len(slots)
  <2>1. m \in Int /\ n \in Int /\ m <= n /\ n - m + 1 = Len(slots) BY <1>4
  <2>2. \A i \in m .. n : s[i] \in P OBVIOUS
  <2> HIDE DEF P, s
  <2>3. /\ SubSeq(s, m, n) \in Seq(P)
        /\ Len(SubSeq(s, m, n)) = Len(slots)
        /\ \A i \in 1 .. n - m + 1 : SubSeq(s, m, n)[i] = s[m + i - 1]
    <3> HIDE DEF m, n
    <3> QED BY <2>1, <2>2, SubSeqProperties
  <2>4. \A i \in 1 .. Len(slots) : m + i - 1 = start + i BY <1>4
  <2> QED BY <2>1, <2>3, <2>4 DEF s
<1> HIDE DEF P, places
<1>12. /\ written \in Volumes /\ written.fat = grown.fat /\ written.hint = grown.hint
       /\ written.over = grown.over
       /\ \A at \in Places :
            \/ At(written, at) = At(grown, at)
            \/ \E k \in 1 .. Len(places) :
                 k \in 1 .. Len(slots) /\ places[k] = at /\ At(written, at) = slots[k]
  BY <1>4, <1>10, <1>11, PutIs
<1> HIDE DEF written
<1>13. Keeps(grown, written)
  <2>1. ASSUME NEW at \in Places, NEW k \in 1 .. Len(slots), places[k] = at,
               At(written, at) = slots[k]
        PROVE  \/ At(written, at).cluster = 0 /\ At(written, at).name # "."
               \/ /\ At(written, at).name = "." /\ At(written, at).kind = "dir"
                  /\ at[2] = 1 /\ at[1] < grown.hint /\ NoPred(grown, at[1])
    <3>1. CASE Plain(slots[k]) BY <2>1, <3>1 DEF Plain
    <3>2. CASE ~ Plain(slots[k])
      <4>1. /\ file.kind = "dir" /\ file.cluster # 0 /\ file.cluster < d.hint /\ start = 0
            /\ slots[1].name = "." /\ slots[1].kind = "dir" /\ k = 1
        BY <1>4, <3>2 DEF Writable
      <4>2. cluster = file.cluster BY <4>1
      <4>3. at = Slots(grown, cluster)[start + 1] BY <1>11, <2>1, <4>1
      <4>4. at = <<cluster, 1>> BY <1>8, <1>10, <4>1, <4>3, SlotsAre
      <4>5. cluster < grown.hint /\ NoPred(grown, cluster)
        <5> HIDE DEF cluster
        <5>1. cluster \in Nat BY <1>8, Sizes
        <5> QED BY <1>9, <4>1, <4>2, <5>1 DEF Leads
      <4> HIDE DEF cluster
      <4> QED BY <2>1, <4>1, <4>4, <4>5
    <3> QED BY <3>1, <3>2
  <2> QED BY <1>12, <2>1 DEF Keeps
<1>14. Sound(written) BY <1>9, <1>13, KeepsSound
<1>15. \A k : Leads(written, k) = Leads(grown, k) BY <1>12 DEF Leads, NoPred
<1>16. \A at \in Claims(written) : At(written, at).cluster = cluster => at = file.entry
  <2> HIDE DEF cluster
  <2> QED BY <1>9, <1>10, <1>13, KeepsClaims
<1>17. file.kind = "dir" \/ At(written, file.entry).name # "."
  <2>1. At(grown, file.entry) = At(d, file.entry) BY <1>9 DEF At
  <2> QED BY <1>2, <1>12, <2>1 DEF Writable, Plain
<1> HIDE DEF cluster, size
<1>18. /\ IsFile(new) /\ new.kind = file.kind /\ new.entry = file.entry /\ new.cluster = cluster
  <2>1. cluster \in 0 .. N BY <1>8, Sizes DEF Clusters
  <2> QED BY <1>6, <2>1, Changed
<1> HIDE DEF new
<1>19. Sound(e) /\ \A k : Leads(e, k) = Leads(written, k)
  <2>1. /\ Leads(written, new.cluster) /\ new.cluster # ROOT
        /\ \A at \in Claims(written) : At(written, at).cluster = new.cluster => at = new.entry
        /\ new.kind = "dir" \/ At(written, new.entry).name # "."
    BY <1>9, <1>15, <1>16, <1>17, <1>18
  <2> HIDE DEF e
  <2> QED BY <1>7, <1>14, <1>18, <2>1, ClaimKeeps
<1> HIDE DEF e
<1> QED BY <1>9, <1>15, <1>19

---------------------------------------------------------------------------
(* Files and directories that are created and removed.                     *)

LEMMA PlaceKeeps ==
  ASSUME NEW d, Sound(d), NEW c \in Clusters, NEW need
  PROVE  LET place == Place(d, c, need)
         IN  Grown(d, place.d) /\ place.start \in Places
<1> DEFINE at == Slots(d, c)
           Free(from, to) == \A k \in from .. to : At(d, at[k]).kind \in {"zero", "deleted"}
           runs == {k \in DOMAIN at : \E e \in k .. Len(at) :
                      Free(k, e) /\ (e - k + 1 >= need \/ At(d, at[e]).kind = "zero")}
           tails == {k \in DOMAIN at : Free(k, Len(at))}
           last == Last(Chain(d, c))
           place == Place(d, c, need)
<1>1. place = IF runs # {} THEN [d |-> d, start |-> at[Min(runs)]]
              ELSE IF tails = {}
              THEN [d |-> fat32_take_new_cluster(fat32_take_new_cluster(d, last), last),
                    start |-> <<Taken(d), 1>>]
              ELSE [d |-> fat32_take_new_cluster(d, last), start |-> at[Min(tails)]]
  BY DEF Place
<1>2. d \in Volumes BY DEF Sound
<1>3. /\ DOMAIN at = 1 .. Len(at) /\ Len(at) \in Nat
      /\ \A k \in 1 .. Len(at) : at[k] \in Places
  BY <1>2, SlotsAre
<1>4. last \in Clusters BY <1>2, ChainIs
<1>5. runs \subseteq DOMAIN at /\ tails \subseteq DOMAIN at OBVIOUS
<1> HIDE DEF at, runs, tails, last, place
<1>6. \A K : K \subseteq DOMAIN at /\ K # {} => at[Min(K)] \in Places
  <2> SUFFICES ASSUME NEW K, K \subseteq DOMAIN at, K # {} PROVE at[Min(K)] \in Places OBVIOUS
  <2>1. K \in SUBSET Nat BY <1>3
  <2>2. Min(K) \in K BY <2>1, MinIsLeast
  <2> QED BY <1>3, <2>2
<1>7. Grown(d, fat32_take_new_cluster(d, last)) BY <1>4, TakeKeeps
<1>8. Grown(d, fat32_take_new_cluster(fat32_take_new_cluster(d, last), last))
  <2> DEFINE e == fat32_take_new_cluster(d, last)
  <2>1. Grown(d, e) /\ Sound(e) BY <1>7 DEF Grown
  <2> HIDE DEF e
  <2>2. Grown(e, fat32_take_new_cluster(e, last)) BY <1>4, <2>1, TakeKeeps
  <2>3. Grown(d, fat32_take_new_cluster(e, last)) BY <2>1, <2>2, GrownAgain
  <2> QED BY <2>3 DEF e
<1>9. CASE runs # {} BY <1>1, <1>5, <1>6, <1>9, GrownSame DEF place
<1>10. CASE runs = {} /\ tails = {}
  <2>1. <<Taken(d), 1>> \in Places BY <1>2, TakenInside, Sizes DEF Places
  <2> QED BY <1>1, <1>8, <1>10, <2>1 DEF place
<1>11. CASE runs = {} /\ tails # {} BY <1>1, <1>5, <1>6, <1>7, <1>11 DEF place
<1> QED BY <1>9, <1>10, <1>11

LEMMA FromAre ==
  ASSUME NEW d \in Volumes, NEW start \in Places
  PROVE  From(d, start) \in Seq(Places)
<1> DEFINE s == Slots(d, start[1])
<1>1. start[1] \in Clusters /\ start[2] \in 1 .. EPC BY DEF Places
<1>2. Len(s) \in Nat /\ \A k \in 1 .. Len(s) : s[k] \in Places BY <1>1, SlotsAre
<1> HIDE DEF s
<1>3. start[2] \in Int /\ Len(s) \in Int /\ \A k \in start[2] .. Len(s) : s[k] \in Places
  BY <1>1, <1>2, Sizes
<1>4. SubSeq(s, start[2], Len(s)) \in Seq(Places) BY <1>3, SubSeqProperties
<1> QED BY <1>4 DEF From, s

LEMMA SlotIs ==
  ASSUME NEW kind \in Kinds, NEW name \in Words, NEW p \in Nat, NEW c \in 0 .. N, NEW s \in Nat
  PROVE  /\ Slot(kind, name, p, c, s) \in SlotRecords
         /\ Slot(kind, name, p, c, s).kind = kind /\ Slot(kind, name, p, c, s).name = name
         /\ Slot(kind, name, p, c, s).cluster = c
BY DEF Slot, SlotRecords

LEMMA ZeroPlain == ZERO \in SlotRecords /\ Plain(ZERO)
<1>1. "" \in Words /\ "" # "." BY Zenon DEF Words
<1>2. "zero" \in Kinds /\ 0 \in Nat /\ 0 \in 0 .. N BY Sizes DEF Kinds
<1>3. \A name \in Words : LET zero == Slot("zero", name, 0, 0, 0)
                           IN  zero \in SlotRecords /\ zero.name = name /\ zero.cluster = 0
  BY <1>2, SlotIs
<1>4. ZERO \in SlotRecords /\ ZERO.name # "." /\ ZERO.cluster = 0
  BY <1>1, <1>3, Zenon DEF ZERO
<1> QED BY <1>4 DEF Plain

LEMMA ValuesPlain ==
  ASSUME NEW v \in Bytes
  PROVE  Value(v) \in SlotRecords /\ Plain(Value(v))
<1>1. v \in Words BY Zenon DEF Words
<1>2. v # "." BY Sizes, Zenon
<1>3. "data" \in Kinds /\ 0 \in Nat /\ 0 \in 0 .. N BY Sizes DEF Kinds
<1> DEFINE slot == Slot("data", v, 0, 0, 0)
<1>4. slot \in SlotRecords /\ slot.name = v /\ slot.cluster = 0 BY <1>1, <1>3, SlotIs
<1>5. Value(v) = ZERO \/ Value(v) = slot BY Zenon DEF Value
<1> HIDE DEF slot
<1> QED BY <1>2, <1>4, <1>5, ZeroPlain DEF Plain

LEMMA RecordsPlain ==
  ASSUME NEW n \in Names, NEW kind \in {"file", "dir"}
  PROVE  /\ Records(n, kind) \in Seq(SlotRecords) /\ Len(Records(n, kind)) = Parts[n] + 1
         /\ \A i \in 1 .. Parts[n] + 1 : Plain(Records(n, kind)[i])
<1> DEFINE r == Records(n, kind)
<1>1. Parts[n] \in Nat \ {0} /\ 0 \in 0 .. N /\ 0 \in Nat BY Sizes
<1>2. n \in Words /\ n # "." /\ kind \in Kinds /\ "lfn" \in Kinds
  <2>1. n \in Words BY Zenon DEF Words
  <2>2. n # "." BY Sizes, Zenon
  <2>3. kind \in Kinds /\ "lfn" \in Kinds BY DEF Kinds
  <2> QED BY <2>1, <2>2, <2>3
<1>3. ASSUME NEW i \in 1 .. Parts[n] + 1
      PROVE  r[i] \in SlotRecords /\ Plain(r[i])
  <2>1. CASE i <= Parts[n]
    <3>1. r[i] = Slot("lfn", n, Parts[n] + 1 - i, 0, 0) BY <2>1 DEF Records
    <3>2. Parts[n] + 1 - i \in Nat BY <1>1, <2>1
    <3> QED BY <1>1, <1>2, <3>1, <3>2, SlotIs DEF Plain
  <2>2. CASE ~ (i <= Parts[n])
    <3>1. r[i] = Slot(kind, n, 0, 0, 0) BY <2>2 DEF Records
    <3> QED BY <1>1, <1>2, <3>1, SlotIs DEF Plain
  <2> QED BY <2>1, <2>2
<1>4. r = [i \in 1 .. Parts[n] + 1 |-> r[i]] BY DEF Records
<1> HIDE DEF r
<1>5. r \in [1 .. Parts[n] + 1 -> SlotRecords] BY <1>3, <1>4
<1>6. r \in Seq(SlotRecords) /\ Len(r) = Parts[n] + 1 BY <1>1, <1>5
<1> QED BY <1>3, <1>6 DEF r

LEMMA CreateKeeps ==
  ASSUME NEW d, Sound(d), NEW c \in Clusters, NEW n \in Names, NEW kind \in {"file", "dir"}
  PROVE  LET created == fat32_create_file(d, c, n, kind)
         IN  /\ Sound(created.d) /\ \A k \in Clusters : Leads(d, k) => Leads(created.d, k)
             /\ created.ok => created.entry \in Places
<1> DEFINE place == Place(d, c, Parts[n] + 1)
           places == From(place.d, place.start)
           records == Records(n, kind)
           made == Put(place.d, places, records)
           created == fat32_create_file(d, c, n, kind)
<1>1. created = IF place.d.over THEN [d |-> place.d, ok |-> FALSE, entry |-> <<0, 0>>]
                ELSE IF Len(places) <= Parts[n] THEN [d |-> made, ok |-> FALSE, entry |-> <<0, 0>>]
                ELSE [d |-> made, ok |-> TRUE, entry |-> places[Parts[n] + 1]]
  BY DEF fat32_create_file
<1>2. Grown(d, place.d) /\ place.start \in Places BY PlaceKeeps
<1>3. Sound(place.d) /\ place.d \in Volumes /\ \A k \in Clusters : Leads(d, k) => Leads(place.d, k)
  BY <1>2 DEF Grown, Sound
<1> HIDE DEF place
<1>4. places \in Seq(Places) BY <1>2, <1>3, FromAre
<1>5. records \in Seq(SlotRecords) /\ Len(records) = Parts[n] + 1
      /\ \A i \in 1 .. Parts[n] + 1 : Plain(records[i])
  BY RecordsPlain
<1> HIDE DEF places, records
<1>6. /\ made \in Volumes /\ made.fat = place.d.fat /\ made.hint = place.d.hint
      /\ made.over = place.d.over
      /\ \A at \in Places :
           \/ At(made, at) = At(place.d, at)
           \/ \E k \in 1 .. Len(places) :
                k \in 1 .. Len(records) /\ places[k] = at /\ At(made, at) = records[k]
  BY <1>3, <1>4, <1>5, PutIs
<1> HIDE DEF made, created
<1>7. Keeps(place.d, made) BY <1>5, <1>6 DEF Keeps, Plain
<1>8. Sound(made) BY <1>3, <1>7, KeepsSound
<1>9. \A k : Leads(made, k) = Leads(place.d, k) BY <1>6 DEF Leads, NoPred
<1>10. ~ (Len(places) <= Parts[n]) => places[Parts[n] + 1] \in Places
  <2>1. Len(places) \in Nat /\ Parts[n] \in Nat BY <1>4, Sizes
  <2>2. ~ (Len(places) <= Parts[n]) => Parts[n] + 1 \in 1 .. Len(places) BY <2>1
  <2> QED BY <1>4, <2>2
<1>11. CASE place.d.over BY <1>1, <1>3, <1>11 DEF created
<1>12. CASE ~ place.d.over /\ Len(places) <= Parts[n]
  <2>1. created = [d |-> made, ok |-> FALSE, entry |-> <<0, 0>>] BY <1>1, <1>12
  <2> QED BY <1>3, <1>8, <1>9, <2>1 DEF created
<1>13. CASE ~ place.d.over /\ ~ (Len(places) <= Parts[n])
  <2>1. created = [d |-> made, ok |-> TRUE, entry |-> places[Parts[n] + 1]] BY <1>1, <1>13
  <2> QED BY <1>3, <1>8, <1>9, <1>10, <1>13, <2>1 DEF created
<1> QED BY <1>11, <1>12, <1>13

LEMMA CreateDirectoryKeeps ==
  ASSUME NEW created, Sound(created.d), created.ok => created.entry \in Places, NEW n
  PROVE  LET e == fat32_create_directory(created, n)
         IN  ~ e.over => Sound(e) /\ \A k \in Clusters : Leads(created.d, k) => Leads(e, k)
<1> DEFINE new     == Taken(created.d)
           file    == [name |-> NameOf(n), kind |-> "dir", size |-> 0, cluster |-> new,
                       entry |-> created.entry]
           dots    == <<Slot("dir", ".", 0, new, 0), Slot("dir", "..", 0, 0, 0)>>
           taken   == fat32_take_new_cluster(created.d, 0)
           named   == fat32_update_directory_entry(taken, file)
           e       == fat32_create_directory(created, n)
<1>1. e = IF ~ created.ok THEN created.d
          ELSE IF taken.over THEN taken ELSE fat32_write_file(named, file, 0, dots)
  BY DEF fat32_create_directory
<1> HIDE DEF e
<1> SUFFICES ASSUME created.ok, ~ taken.over
             PROVE  ~ e.over => Sound(e) /\ \A k \in Clusters : Leads(created.d, k) => Leads(e, k)
  <2>1. CASE ~ created.ok BY <1>1, <2>1 DEF e
  <2>2. CASE created.ok /\ taken.over
    <3>1. e = taken BY <1>1, <2>2
    <3> HIDE DEF taken
    <3> QED BY <2>2, <3>1 DEF e
  <2> QED BY <2>1, <2>2 DEF e
<1>2. e = fat32_write_file(named, file, 0, dots)
  <2> HIDE DEF taken, named, file, dots
  <2> QED BY <1>1
<1>3. /\ Grown(created.d, taken) /\ new \in Clusters /\ new # ROOT /\ new < taken.hint
      /\ \A at \in Claims(taken) : At(taken, at).cluster # new
      /\ Leads(taken, new)
  BY TakeKeeps
<1>4. Sound(taken) /\ \A k \in Clusters : Leads(created.d, k) => Leads(taken, k)
  BY <1>3 DEF Grown
<1> HIDE DEF new, taken
<1>5. new \in 0 .. N /\ 0 \in 0 .. N /\ 0 \in Nat /\ new # 0 BY <1>3, Sizes DEF Clusters
<1>6. /\ IsFile(file) /\ file.kind = "dir" /\ file.cluster = new
  <2>1. /\ file = [x \in DOMAIN file |-> file[x]]
        /\ {"kind", "cluster", "size", "entry"} \subseteq DOMAIN file
        /\ file.kind = "dir" /\ file.cluster = new /\ file.size = 0
        /\ file.entry = created.entry
    OBVIOUS
  <2> HIDE DEF file
  <2> QED BY <1>5, <2>1 DEF IsFile, Kinds
<1> HIDE DEF file
<1>7. /\ Sound(named) /\ named.hint = taken.hint
      /\ \A k : Leads(named, k) = Leads(taken, k)
      /\ \A at \in Claims(named) : At(named, at).cluster = file.cluster => at = file.entry
  BY <1>3, <1>4, <1>6, ClaimKeeps
<1> HIDE DEF named
<1>8. Alone(named, file) BY <1>3, <1>6, <1>7 DEF Alone, Leads
<1>9. Writable(named, file, 0, dots)
  <2>1. "." \in Words /\ ".." \in Words /\ "dir" \in Kinds BY DEF Words, Kinds
  <2>2. /\ dots[1] \in SlotRecords /\ dots[1].name = "." /\ dots[1].kind = "dir"
        /\ dots[2] \in SlotRecords /\ Plain(dots[2])
    BY <1>5, <2>1, SlotIs DEF Plain
  <2>3. dots \in Seq(SlotRecords) /\ Len(dots) = 2
    <3>1. Slot("dir", ".", 0, new, 0) \in SlotRecords /\ Slot("dir", "..", 0, 0, 0) \in SlotRecords
      BY <2>2
    <3> QED BY <3>1
  <2> HIDE DEF dots
  <2>4. \A i \in 2 .. Len(dots) : Plain(dots[i])
    <3>1. \A i \in 2 .. 2 : i = 2 OBVIOUS
    <3> QED BY <2>2, <2>3, <3>1
  <2> QED BY <1>3, <1>5, <1>6, <1>7, <2>2, <2>3, <2>4 DEF Writable
<1> HIDE DEF dots
<1>10. Leads(named, file.cluster) /\ file.cluster # ROOT BY <1>3, <1>6, <1>7
<1>11. ~ e.over => Sound(e) /\ \A k \in Clusters : Leads(named, k) => Leads(e, k)
  BY <1>2, <1>6, <1>7, <1>8, <1>9, <1>10, WriteKeeps
<1> QED BY <1>4, <1>7, <1>11 DEF e

LEMMA RemoveKeeps ==
  ASSUME NEW d \in Volumes, NEW file
  PROVE  Keeps(d, fat32_remove_directory_entry(d, file))
<1> DEFINE at == From(d, <<file.first[1], 1>>)
           from == {k \in DOMAIN at : at[k][2] >= file.first[2]}
           gone == {at[k] : k \in {k \in from : \A j \in from : j < k => At(d, at[j]).kind = "lfn"}}
           Cell(c, i) == IF <<c, i>> \in gone THEN [d.data[c][i] EXCEPT !.kind = "deleted"]
                         ELSE d.data[c][i]
           left == [c \in Clusters |-> [i \in 1 .. EPC |-> Cell(c, i)]]
           e == fat32_remove_directory_entry(d, file)
<1>1. e = [d EXCEPT !.data = left] BY DEF fat32_remove_directory_entry
<1> HIDE DEF gone, e
<1>2. d.data \in [Clusters -> [1 .. EPC -> SlotRecords]] BY DEF Volumes
<1>3. ASSUME NEW c \in Clusters, NEW i \in 1 .. EPC
      PROVE  /\ Cell(c, i) \in SlotRecords
             /\ \/ Cell(c, i) = d.data[c][i]
                \/ Cell(c, i).kind = "deleted" /\ Cell(c, i).name = d.data[c][i].name
  <2>1. d.data[c][i] \in SlotRecords BY <1>2
  <2>2. CASE <<c, i>> \in gone
    <3> DEFINE slot == d.data[c][i]
    <3>1. Cell(c, i) = [slot EXCEPT !.kind = "deleted"] BY <2>2
    <3> HIDE DEF slot, Cell
    <3>2. slot \in SlotRecords BY <2>1 DEF slot
    <3>3. Cell(c, i) \in SlotRecords /\ Cell(c, i).kind = "deleted" /\ Cell(c, i).name = slot.name
      BY <3>1, <3>2 DEF SlotRecords, Kinds
    <3> QED BY <3>3 DEF slot
  <2>3. CASE <<c, i>> \notin gone BY <2>1, <2>3
  <2> QED BY <2>2, <2>3
<1> HIDE DEF Cell
<1>4. left \in [Clusters -> [1 .. EPC -> SlotRecords]] BY <1>3
<1>5. \A c \in Clusters : \A i \in 1 .. EPC : left[c][i] = Cell(c, i) OBVIOUS
<1> HIDE DEF left
<1>6. e \in Volumes /\ e.fat = d.fat /\ e.hint = d.hint /\ e.over = d.over /\ e.data = left
  BY <1>1, <1>4 DEF Volumes
<1>7. ASSUME NEW p \in Places
      PROVE  At(e, p) = At(d, p) \/ (At(e, p).kind = "deleted" /\ At(e, p).name = At(d, p).name)
  <2>1. p[1] \in Clusters /\ p[2] \in 1 .. EPC BY AtIs
  <2>2. At(e, p) = Cell(p[1], p[2]) BY <1>5, <1>6, <2>1 DEF At
  <2> QED BY <1>3, <2>1, <2>2 DEF At
<1>8. Keeps(d, e) BY <1>6, <1>7 DEF Keeps
<1> QED BY <1>8 DEF e

---------------------------------------------------------------------------
(* What a directory lists.                                                 *)

LEMMA ListedIs ==
  ASSUME NEW d \in Volumes, NEW c \in Clusters
  PROVE  /\ \A f \in fat32_read_directory(d, c) :
              LET slot == At(d, f.entry)
              IN  /\ IsFile(f) /\ f.kind = slot.kind /\ f.kind \notin {"lfn", "deleted"}
                  /\ f.cluster = IF slot.kind = "dir" /\ slot.cluster = 0 THEN ROOT ELSE slot.cluster
                  /\ \E k \in 1 .. Len(Slots(d, c)) :
                       f.entry = Slots(d, c)[k] /\ (k = 1 => f.name = <<<<slot.name, 0>>>>)
         /\ Linked(d) /\ NoPred(d, c) =>
              \A f, g \in fat32_read_directory(d, c) : f.entry = g.entry => f = g
<1> DEFINE at == Slots(d, c)
           Read(k) == \A i \in 1 .. at[k][2] : d.data[at[k][1]][i].kind # "zero"
           lfns == {k \in DOMAIN at : Read(k) /\ At(d, at[k]).kind = "lfn"}
           own == {k \in DOMAIN at : Read(k) /\ At(d, at[k]).kind \notin {"lfn", "deleted"}}
           Gathered(k) == {j \in lfns : j < k /\ \A i \in own : i < j \/ k <= i}
           Part(j) == <<At(d, at[j]).name, At(d, at[j]).part>>
           Name(k) == IF Gathered(k) = {} THEN <<<<At(d, at[k]).name, 0>>>>
                      ELSE LET read == SelectSeq([j \in 1 .. k |-> j], LAMBDA j : j \in Gathered(k))
                           IN  [i \in 1 .. Len(read) |-> Part(read[Len(read) + 1 - i])]
           First(k) == at[IF Gathered(k) = {} THEN k ELSE Min(Gathered(k))]
           File(k) ==
             LET slot == At(d, at[k])
             IN  [name |-> Name(k), kind |-> slot.kind, size |-> slot.size, entry |-> at[k],
                  first |-> First(k),
                  cluster |-> IF slot.kind = "dir" /\ slot.cluster = 0 THEN ROOT ELSE slot.cluster]
<1>1. fat32_read_directory(d, c) = {File(k) : k \in own} BY DEF fat32_read_directory
<1>2. \A k : Gathered(k) = {} => Name(k) = <<<<At(d, at[k]).name, 0>>>>
  <2> HIDE DEF Gathered, Part, at
  <2> QED BY Zenon
<1>3. 1 \in DOMAIN at => Gathered(1) = {}
  <2>1. DOMAIN at \subseteq Nat \ {0} BY SlotsAre
  <2>2. \A j \in lfns : j \in Nat \ {0} BY <2>1
  <2> HIDE DEF lfns, own
  <2> QED BY <2>2
<1>4. own \subseteq DOMAIN at /\ \A k \in own : At(d, at[k]).kind \notin {"lfn", "deleted"} OBVIOUS
<1>5. /\ DOMAIN at = 1 .. Len(at) /\ Len(at) \in Nat
      /\ \A k \in 1 .. Len(at) : at[k] \in Places
  BY SlotsAre
<1> HIDE DEF own, Name, First, Gathered
<1>6. ASSUME NEW k \in own
      PROVE  LET slot == At(d, at[k])
             IN  /\ IsFile(File(k)) /\ File(k).kind = slot.kind /\ File(k).entry = at[k]
                 /\ File(k).cluster = IF slot.kind = "dir" /\ slot.cluster = 0 THEN ROOT ELSE slot.cluster
                 /\ k = 1 => File(k).name = <<<<slot.name, 0>>>>
  <2> DEFINE slot == At(d, at[k])
             file == File(k)
             cluster == IF slot.kind = "dir" /\ slot.cluster = 0 THEN ROOT ELSE slot.cluster
  <2>1. at[k] \in Places /\ k \in DOMAIN at BY <1>4, <1>5
  <2>2. slot \in SlotRecords BY <2>1, AtIs
  <2>3. slot.kind \in Kinds /\ slot.size \in Nat /\ slot.cluster \in 0 .. N
    <3> HIDE DEF slot
    <3> QED BY <2>2 DEF SlotRecords
  <2>4. cluster \in 0 .. N
    <3> HIDE DEF slot
    <3> QED BY <2>3, Sizes DEF Clusters
  <2> HIDE DEF slot, at
  <2>5. /\ file.kind = slot.kind /\ file.size = slot.size /\ file.entry = at[k]
        /\ file.cluster = cluster /\ file.name = Name(k)
        /\ file = [x \in DOMAIN file |-> file[x]]
        /\ {"kind", "cluster", "size", "entry"} \subseteq DOMAIN file
    BY DEF slot
  <2> HIDE DEF file, cluster
  <2>6. IsFile(file) BY <2>1, <2>3, <2>4, <2>5 DEF IsFile
  <2>7. k = 1 => file.name = <<<<slot.name, 0>>>> BY <1>2, <1>3, <2>1, <2>5 DEF slot
  <2> QED BY <2>5, <2>6, <2>7 DEF file, cluster, slot
<1> HIDE DEF File, at
<1>7. ASSUME NEW f \in fat32_read_directory(d, c)
      PROVE  LET slot == At(d, f.entry)
             IN  /\ IsFile(f) /\ f.kind = slot.kind /\ f.kind \notin {"lfn", "deleted"}
                 /\ f.cluster = IF slot.kind = "dir" /\ slot.cluster = 0 THEN ROOT ELSE slot.cluster
                 /\ \E k \in 1 .. Len(at) :
                      f.entry = at[k] /\ (k = 1 => f.name = <<<<slot.name, 0>>>>)
  <2>1. PICK k \in own : f = File(k) BY <1>1
  <2>2. k \in 1 .. Len(at) BY <1>4, <1>5
  <2> QED BY <1>4, <1>6, <2>1, <2>2
<1>8. ASSUME Linked(d), NoPred(d, c), NEW f \in fat32_read_directory(d, c),
             NEW g \in fat32_read_directory(d, c), f.entry = g.entry
      PROVE  f = g
  <2>1. PICK k \in own : f = File(k) BY <1>1
  <2>2. PICK l \in own : g = File(l) BY <1>1
  <2>3. k \in 1 .. Len(at) /\ l \in 1 .. Len(at) /\ at[k] = at[l] BY <1>4, <1>5, <1>6, <1>8, <2>1, <2>2
  <2>4. k = l BY <1>8, <2>3, SlotsMeet DEF at
  <2> QED BY <2>1, <2>2, <2>4
<1> QED BY <1>7, <1>8 DEF at

\* A file that a call is given: its kind and cluster are those of its record,
\* and only "." and ".." have a record with one of these names.
LEMMA FileIs ==
  ASSUME NEW d, Sound(d), NEW c \in Clusters, NEW f \in Listed(d, c)
  PROVE  /\ IsFile(f) /\ f.kind = At(d, f.entry).kind
         /\ f.kind = "dir" => f.cluster \in Clusters
         /\ At(d, f.entry).name = "." => f.kind = "dir" /\ f.name \in Dots
         /\ f.kind = "file" \/ f.name \notin Dots =>
              /\ Alone(d, f)
              /\ f.cluster # 0 => (f.cluster = ROOT /\ f.kind = "dir") \/ f.entry \in Claims(d)
              /\ f.entry \in Claims(d) =>
                   f.cluster = At(d, f.entry).cluster /\ Leads(d, f.cluster) /\ f.cluster # ROOT
<1> DEFINE slot == At(d, f.entry)
<1>1. d \in Volumes /\ f \in fat32_read_directory(d, c) BY DEF Sound, Listed
<1>2. /\ IsFile(f) /\ f.kind = slot.kind /\ f.kind \notin {"lfn", "deleted"}
      /\ f.cluster = IF slot.kind = "dir" /\ slot.cluster = 0 THEN ROOT ELSE slot.cluster
      /\ \E k \in 1 .. Len(Slots(d, c)) :
           f.entry = Slots(d, c)[k] /\ (k = 1 => f.name = <<<<slot.name, 0>>>>)
  BY <1>1, ListedIs
<1>3. f.entry \in Places /\ f.cluster \in 0 .. N BY <1>2 DEF IsFile
<1>4. slot.name = "." => f.kind = "dir" /\ f.name \in Dots
  <2> SUFFICES ASSUME slot.name = "." PROVE f.kind = "dir" /\ f.name \in Dots OBVIOUS
  <2>1. f.entry[2] = 1 /\ NoPred(d, f.entry[1]) /\ slot.kind \in {"dir", "deleted"}
    BY <1>3 DEF Sound, DotsFirst
  <2>2. PICK k \in 1 .. Len(Slots(d, c)) :
          f.entry = Slots(d, c)[k] /\ (k = 1 => f.name = <<<<slot.name, 0>>>>)
    BY <1>2
  <2>3. k = 1 BY <1>1, <2>1, <2>2, SlotFirst
  <2> QED BY <1>2, <2>1, <2>2, <2>3 DEF Dots
<1>5. f.kind = "dir" => f.cluster \in Clusters
  <2>1. slot.kind = "dir" /\ slot.cluster # 0 => f.cluster = slot.cluster BY <1>2
  <2> QED BY <1>2, <1>3, <2>1, Sizes DEF Clusters
<1>6. ASSUME f.kind = "file" \/ f.name \notin Dots
      PROVE  /\ Alone(d, f)
             /\ f.cluster # 0 => (f.cluster = ROOT /\ f.kind = "dir") \/ f.entry \in Claims(d)
             /\ f.entry \in Claims(d) =>
                  f.cluster = slot.cluster /\ Leads(d, f.cluster) /\ f.cluster # ROOT
  <2>1. slot.name # "." BY <1>4, <1>6
  <2>2. slot.cluster # 0 => f.entry \in Claims(d) /\ f.cluster = slot.cluster
    BY <1>2, <1>3, <2>1 DEF Claims
  <2>3. f.entry \in Claims(d) => slot.cluster # 0 BY DEF Claims
  <2>4. f.entry \in Claims(d) =>
          f.cluster = slot.cluster /\ Leads(d, f.cluster) /\ f.cluster # ROOT
    BY <2>2, <2>3 DEF Sound
  <2>5. f.cluster # 0 => (f.cluster = ROOT /\ f.kind = "dir") \/ f.entry \in Claims(d)
    BY <1>2, <2>2
  <2>6. ASSUME f.cluster # 0
        PROVE  /\ NoPred(d, f.cluster)
               /\ \A p \in Claims(d) : At(d, p).cluster = f.cluster => p = f.entry
    <3>1. CASE f.entry \in Claims(d) BY <2>4, <3>1 DEF Sound, Leads
    <3>2. CASE f.entry \notin Claims(d)
      <4>1. f.cluster = ROOT BY <2>5, <2>6, <3>2
      <4> QED BY <4>1 DEF Sound
    <3> QED BY <3>1, <3>2
  <2> QED BY <2>4, <2>5, <2>6 DEF Alone
<1> QED BY <1>2, <1>4, <1>5, <1>6

LEMMA DirectoriesAre ==
  ASSUME NEW d, Sound(d)
  PROVE  Directories(d) \subseteq Clusters
<1>1. ASSUME NEW near, near \subseteq Clusters PROVE Below(d, near) \subseteq Clusters
  <2>1. ASSUME NEW c \in near, NEW f \in Subdirectories(d, c) PROVE f.cluster \in Clusters
    <3>1. f \in Listed(d, c) /\ f.kind = "dir" /\ c \in Clusters BY <1>1 DEF Subdirectories
    <3> QED BY <3>1, FileIs
  <2> QED BY <1>1, <2>1 DEF Below
<1>2. {ROOT} \subseteq Clusters BY Sizes
<1> QED BY <1>1, <1>2 DEF Directories

---------------------------------------------------------------------------
(* The chains of the records are disjoint.                                 *)

\* Every slot that names a cluster begins a chain that ends with a last cluster
\* and that neither the root nor another slot has clusters of.
RecordsDisjoint ==
  LET Of(at) == Range(Chain(volume, At(volume, at).cluster))
  IN  \A p \in Claims(volume) :
        /\ Complete(volume, At(volume, p).cluster)
        /\ Of(p) \intersect Range(Chain(volume, ROOT)) = {}
        /\ \A q \in Claims(volume) : p # q => Of(p) \intersect Of(q) = {}

\* No record of a directory names the root by having no cluster, which is what
\* a removal leaves of one whose records were in two clusters (fat32.c:967).
NoStaleRoot == \A f \in Real : f.kind = "dir" => f.cluster # ROOT

Inv == Sound(volume) /\ cwd \in Clusters

LEMMA HeadsDisjoint ==
  ASSUME NEW d \in Volumes, Linked(d), NEW c \in Clusters, NoPred(d, c),
         NEW e \in Clusters, NoPred(d, e), c # e
  PROVE  Range(Chain(d, c)) \intersect Range(Chain(d, e)) = {}
<1> SUFFICES ASSUME NEW k \in Range(Chain(d, c)), k \in Range(Chain(d, e)) PROVE FALSE
  OBVIOUS
<1>1. PICK i \in 1 .. Len(Chain(d, c)) : k = Chain(d, c)[i] BY ChainIs
<1>2. PICK j \in 1 .. Len(Chain(d, e)) : k = Chain(d, e)[j] BY ChainIs
<1> QED BY <1>1, <1>2, HeadsMeet

LEMMA SoundIsDisjoint == Sound(volume) => RecordsDisjoint
<1> SUFFICES ASSUME Sound(volume), NEW p \in Claims(volume)
             PROVE  LET Of(at) == Range(Chain(volume, At(volume, at).cluster))
                    IN  /\ Complete(volume, At(volume, p).cluster)
                        /\ Of(p) \intersect Range(Chain(volume, ROOT)) = {}
                        /\ \A q \in Claims(volume) : p # q => Of(p) \intersect Of(q) = {}
  BY DEF RecordsDisjoint
<1> DEFINE d == volume
<1>1. /\ d \in Volumes /\ Linked(d) /\ NoPred(d, ROOT) /\ ROOT \in Clusters
      /\ \A at \in Claims(d) : Leads(d, At(d, at).cluster) /\ At(d, at).cluster # ROOT
      /\ \A q \in Claims(d) : At(d, p).cluster = At(d, q).cluster => p = q
  BY Sizes DEF Sound
<1> HIDE DEF d
<1>2. \A at \in Claims(d) : At(d, at).cluster \in Clusters /\ NoPred(d, At(d, at).cluster)
  BY <1>1 DEF Leads
<1>3. p \in Claims(d) BY DEF d
<1>4. Complete(d, At(d, p).cluster) BY <1>1, <1>3, HeadsComplete
<1>5. Range(Chain(d, At(d, p).cluster)) \intersect Range(Chain(d, ROOT)) = {}
  BY <1>1, <1>2, <1>3, HeadsDisjoint
<1>6. ASSUME NEW q \in Claims(d), p # q
      PROVE  Range(Chain(d, At(d, p).cluster)) \intersect Range(Chain(d, At(d, q).cluster)) = {}
  <2>1. At(d, p).cluster # At(d, q).cluster BY <1>1, <1>6
  <2> QED BY <1>1, <1>2, <1>3, <2>1, HeadsDisjoint
<1> QED BY <1>4, <1>5, <1>6 DEF d

LEMMA InitSound == FatInit => Inv /\ Leads(volume, ROOT)
<1> SUFFICES ASSUME FatInit PROVE Inv /\ Leads(volume, ROOT) OBVIOUS
<1> DEFINE old  == CHOOSE v \in Bytes : TRUE
           own  == Records(OldFile, "file")
           root == [i \in 1 .. EPC |-> IF i < Len(own) THEN own[i]
                                       ELSE IF i = Len(own) THEN Slot("file", OldFile, 0, 3, EPC + 1)
                                       ELSE ZERO]
           first == [i \in 1 .. EPC |-> Value(old)]
           rest  == [i \in 1 .. EPC |-> IF i = 1 THEN Value(old) ELSE ZERO]
           blank == [i \in 1 .. EPC |-> ZERO]
<1>1. /\ fat = [[c \in Clusters |-> EMPTY_CLUSTER] EXCEPT
                  ![ROOT] = LAST_CLUSTER, ![3] = 2, ![2] = LAST_CLUSTER, ![5] = BAD_CLUSTER]
      /\ data = [[c \in Clusters |-> blank] EXCEPT ![ROOT] = root, ![3] = first, ![2] = rest]
      /\ hint = 4 /\ cwd = ROOT
  BY DEF FatInit
<1>2. /\ 1 \in Clusters /\ 2 \in Clusters /\ 3 \in Clusters /\ 5 \in Clusters /\ 0 \notin Clusters
      /\ -1 \notin Clusters /\ -2 \notin Clusters
  BY Sizes DEF Clusters
<1>3. /\ fat \in [Clusters -> Entries]
      /\ \A c \in Clusters : fat[c] = IF c = 3 THEN 2 ELSE IF c = 1 \/ c = 2 THEN -1
                                      ELSE IF c = 5 THEN -2 ELSE 0
  BY <1>1, <1>2 DEF ROOT, Entries, EMPTY_CLUSTER, LAST_CLUSTER, BAD_CLUSTER
<1>4. \A v \in Bytes : Value(v) \in SlotRecords /\ Plain(Value(v)) BY ValuesPlain
<1>5. ZERO \in SlotRecords /\ Plain(ZERO) BY ZeroPlain
<1>6. old \in Bytes BY Fat32Assumption
<1>7. /\ own \in Seq(SlotRecords) /\ Len(own) \in Nat \ {0}
      /\ \A i \in 1 .. Len(own) : own[i] \in SlotRecords /\ Plain(own[i])
  <2>1. OldFile \in Names /\ Parts[OldFile] + 1 \in Nat \ {0} BY Sizes
  <2> QED BY <2>1, RecordsPlain
<1> DEFINE entry == Slot("file", OldFile, 0, 3, EPC + 1)
<1>8. entry \in SlotRecords /\ entry.cluster = 3 /\ entry.name # "."
  <2>1. OldFile \in Words /\ OldFile # "." BY Sizes, Zenon DEF Words
  <2>2. "file" \in Kinds /\ 0 \in Nat /\ 3 \in 0 .. N /\ EPC + 1 \in Nat BY Sizes DEF Kinds
  <2> QED BY <2>1, <2>2, SlotIs
<1> HIDE DEF old, own, entry
<1>9. ASSUME NEW i \in 1 .. EPC
      PROVE  root[i] \in SlotRecords /\ (Plain(root[i]) \/ (i = Len(own) /\ root[i] = entry))
  <2>1. CASE i < Len(own)
    <3>1. i \in 1 .. Len(own) BY <1>7, <2>1, Sizes
    <3>2. root[i] = own[i] BY <2>1
    <3> HIDE DEF root
    <3> QED BY <1>7, <3>1, <3>2 DEF Plain
  <2>2. CASE i = Len(own)
    <3>1. ~ (i < Len(own)) BY <1>7, <2>2
    <3>2. root[i] = entry BY <2>2, <3>1 DEF entry
    <3> QED BY <1>8, <2>2, <3>2
  <2>3. CASE ~ (i < Len(own)) /\ i # Len(own)
    <3>1. root[i] = ZERO BY <2>3, Zenon
    <3> HIDE DEF root
    <3> QED BY <1>5, <3>1 DEF Plain
  <2> QED BY <2>1, <2>2, <2>3
<1>10. ASSUME NEW i \in 1 .. EPC
       PROVE  /\ first[i] \in SlotRecords /\ Plain(first[i])
              /\ rest[i] \in SlotRecords /\ Plain(rest[i])
              /\ blank[i] \in SlotRecords /\ Plain(blank[i])
  BY <1>4, <1>5, <1>6
<1>11. /\ root \in [1 .. EPC -> SlotRecords] /\ first \in [1 .. EPC -> SlotRecords]
       /\ rest \in [1 .. EPC -> SlotRecords] /\ blank \in [1 .. EPC -> SlotRecords]
  <2>1. /\ root = [i \in 1 .. EPC |-> root[i]] /\ first = [i \in 1 .. EPC |-> first[i]]
        /\ rest = [i \in 1 .. EPC |-> rest[i]] /\ blank = [i \in 1 .. EPC |-> blank[i]]
    OBVIOUS
  <2> HIDE DEF root, first, rest, blank
  <2> QED BY <1>9, <1>10, <2>1
<1> HIDE DEF root, first, rest, blank
<1>12. /\ data \in [Clusters -> [1 .. EPC -> SlotRecords]]
       /\ \A c \in Clusters : data[c] = IF c = 2 THEN rest ELSE IF c = 3 THEN first
                                        ELSE IF c = 1 THEN root ELSE blank
  BY <1>1, <1>2, <1>11 DEF ROOT
<1> DEFINE d == volume
<1>13. /\ d \in Volumes /\ d.fat = fat /\ d.hint = 4 /\ \A at : At(d, at) = data[at[1]][at[2]]
  <2>1. d.fat = fat /\ d.data = data /\ d.hint = 4 /\ d = [fat |-> fat, data |-> data, hint |-> 4, over |-> FALSE]
    BY <1>1 DEF volume
  <2>2. 4 \in 2 .. N + 1 BY Sizes
  <2> HIDE DEF d
  <2> QED BY <1>3, <1>12, <2>1, <2>2 DEF Volumes, At
<1> HIDE DEF d
<1>14. ASSUME NEW at \in Places
       PROVE  Plain(At(d, at)) \/ (at = <<1, Len(own)>> /\ At(d, at) = entry)
  <2>1. at[1] \in Clusters /\ at[2] \in 1 .. EPC /\ at = <<at[1], at[2]>> BY <1>13, AtIs
  <2>2. At(d, at) = data[at[1]][at[2]] BY <1>13
  <2>3. CASE at[1] = 1
    <3>1. At(d, at) = root[at[2]] BY <1>12, <2>1, <2>2, <2>3
    <3> QED BY <1>9, <2>1, <2>3, <3>1
  <2>4. CASE at[1] # 1
    <3>1. At(d, at) \in {first[at[2]], rest[at[2]], blank[at[2]]} BY <1>12, <2>1, <2>2, <2>4
    <3> QED BY <1>10, <2>1, <3>1 DEF Plain
  <2> QED BY <2>3, <2>4
<1>15. Linked(d) BY <1>2, <1>3, <1>13 DEF Linked, LAST_CLUSTER
<1>16. NoPred(d, 1) /\ NoPred(d, 3) BY <1>2, <1>3, <1>13 DEF NoPred
<1>17. Leads(d, 1) /\ Leads(d, 3) BY <1>2, <1>3, <1>13, <1>16 DEF Leads, LAST_CLUSTER
<1>18. \A at \in Claims(d) : at = <<1, Len(own)>> /\ At(d, at).cluster = 3
  BY <1>8, <1>14 DEF Claims, Plain
<1>19. DotsFirst(d) BY <1>8, <1>14 DEF DotsFirst, Plain
<1>20. Sound(d) BY <1>13, <1>15, <1>16, <1>17, <1>18, <1>19 DEF Sound, ROOT
<1> QED BY <1>1, <1>2, <1>17, <1>20 DEF Inv, d, ROOT

\* A call that is followed leaves the volume that it has made, and one that runs
\* past the volume leaves the volume as it was.
LEMMA ApplyKeeps ==
  ASSUME NEW e, NEW s, Apply(e, s), Inv, ~ e.over => Sound(e)
  PROVE  /\ Inv'
         /\ Leads(volume, ROOT) /\ (~ e.over => Leads(e, ROOT)) => Leads(volume, ROOT)'
<1>1. cwd' \in Clusters BY DEF Apply, Inv
<1>2. CASE e.over
  <2>1. volume' = volume BY <1>2 DEF Apply, volume
  <2> QED BY <1>1, <2>1 DEF Inv
<1>3. CASE ~ e.over
  <2>1. Sound(e) /\ e \in Volumes BY <1>3 DEF Sound
  <2>2. e = [fat |-> e.fat, data |-> e.data, hint |-> e.hint, over |-> FALSE]
    BY <1>3, <2>1 DEF Volumes
  <2>3. volume' = e BY <1>3, <2>2 DEF Apply, volume
  <2> QED BY <1>1, <1>3, <2>3 DEF Inv
<1> QED BY <1>2, <1>3

LEMMA NextKeeps ==
  ASSUME Inv, [FatNext]_fatVars
  PROVE  Inv' /\ (NoStaleRoot /\ Leads(volume, ROOT) => Leads(volume, ROOT)')
<1> DEFINE Goal == Inv' /\ (NoStaleRoot /\ Leads(volume, ROOT) => Leads(volume, ROOT)')
<1>1. Sound(volume) /\ cwd \in Clusters /\ ROOT \in Clusters BY Sizes DEF Inv
<1>2. ASSUME UNCHANGED fatVars PROVE Goal
  <2>1. volume' = volume /\ cwd' = cwd BY <1>2 DEF fatVars, volume
  <2> QED BY <1>1, <2>1 DEF Inv
<1>3. ASSUME NEW n \in Names, NewFile(n) PROVE Goal
  <2> DEFINE created == fat32_create_file(volume, cwd, n, "file")
  <2>1. /\ Sound(created.d)
        /\ \A k \in Clusters : Leads(volume, k) => Leads(created.d, k)
    BY <1>1, CreateKeeps
  <2>2. PICK s : Apply(created.d, s) BY <1>3 DEF NewFile
  <2>3. created.d \in Volumes BY <2>1 DEF Sound
  <2> HIDE DEF created
  <2> QED BY <1>1, <2>1, <2>2, <2>3, ApplyKeeps
<1>4. ASSUME NEW n \in DirNames, NewDirectory(n) PROVE Goal
  <2> DEFINE created == fat32_create_file(volume, cwd, n, "dir")
             e == fat32_create_directory(created, n)
  <2>1. n \in Names BY Sizes
  <2>2. /\ Sound(created.d)
        /\ created.ok => created.entry \in Places
        /\ \A k \in Clusters : Leads(volume, k) => Leads(created.d, k)
    BY <1>1, <2>1, CreateKeeps
  <2> HIDE DEF created
  <2>3. ~ e.over => Sound(e) /\ \A k \in Clusters : Leads(created.d, k) => Leads(e, k)
    BY <2>2, CreateDirectoryKeeps
  <2>4. PICK s : Apply(e, s) BY <1>4 DEF NewDirectory, created
  <2> HIDE DEF e
  <2> QED BY <1>1, <2>2, <2>3, <2>4, ApplyKeeps
<1>5. ASSUME NullDirectory PROVE Goal
  <2>1. volume' = volume /\ cwd' = cwd BY <1>5 DEF NullDirectory, volume
  <2> QED BY <1>1, <2>1 DEF Inv
<1>6. ASSUME NEW c \in Directories(volume), NEW file \in Listed(volume, c)
      PROVE  /\ c \in Clusters /\ IsFile(file) /\ file.kind = At(volume, file.entry).kind
             /\ file.kind = "dir" => file.cluster \in Clusters
             /\ file.kind = "file" \/ file.name \notin Dots =>
                  /\ Alone(volume, file)
                  /\ file.cluster # 0 =>
                       \/ file.cluster = ROOT /\ file.kind = "dir"
                       \/ Leads(volume, file.cluster) /\ file.cluster # ROOT
                  /\ NoStaleRoot /\ file.name \notin Dots => file.cluster # ROOT
                  /\ file.kind = "file" => file.cluster # ROOT /\ At(volume, file.entry).name # "."
  <2>1. c \in Clusters BY <1>1, DirectoriesAre
  <2>2. file \in Files(volume) BY DEF Files
  <2>3. file.name \notin Dots => file \in Real BY <2>2 DEF Real
  <2>4. NoStaleRoot /\ file.name \notin Dots => ~ (file.cluster = ROOT /\ file.kind = "dir")
    BY <2>3 DEF NoStaleRoot
  <2>5. ROOT # 0 /\ "file" # "dir" BY DEF ROOT
  <2> QED BY <1>1, <2>1, <2>4, <2>5, FileIs
<1>7. ASSUME NEW c \in Directories(volume), NEW file \in Listed(volume, c),
             NEW w \in Writes, NEW v \in Bytes, WriteFile(c, file, w[1], w[2], v)
      PROVE  Goal
  <2> DEFINE slots == [i \in 1 .. w[2] |-> Value(v)]
             e == fat32_write_file(volume, file, w[1], slots)
  <2>1. file.kind = "file" BY <1>7 DEF WriteFile
  <2>2. w[1] \in Nat /\ w[2] \in Nat \ {0} BY Sizes
  <2>3. slots \in Seq(SlotRecords) /\ Len(slots) = w[2] /\ \A i \in 1 .. w[2] : slots[i] = Value(v)
    BY <2>2, ValuesPlain
  <2> HIDE DEF slots
  <2>4. \A i \in 1 .. Len(slots) : Plain(slots[i]) BY <2>3, ValuesPlain
  <2>5. Writable(volume, file, w[1], slots) BY <1>6, <2>1, <2>2, <2>3, <2>4 DEF Writable
  <2>6. ~ e.over => Sound(e) /\ \A k \in Clusters : Leads(volume, k) => Leads(e, k)
    <3>1. IsFile(file) /\ Alone(volume, file) BY <1>6, <2>1
    <3>2. file.cluster # 0 => Leads(volume, file.cluster) /\ file.cluster # ROOT BY <1>6, <2>1
    <3> QED BY <1>1, <2>5, <3>1, <3>2, WriteKeeps
  <2>7. PICK s : Apply(e, s) BY <1>7 DEF WriteFile, slots
  <2> HIDE DEF e
  <2> QED BY <1>1, <2>6, <2>7, ApplyKeeps
<1>8. ASSUME NEW c \in Directories(volume), NEW file \in Listed(volume, c), EraseFile(c, file)
      PROVE  Goal
  <2> DEFINE e == fat32_erase_file(volume, file)
  <2>1. file.kind = "file" BY <1>8 DEF EraseFile
  <2>2. Sound(e) /\ \A k \in Clusters : Leads(volume, k) /\ k # file.cluster => Leads(e, k)
    BY <1>1, <1>6, <2>1, EraseKeeps
  <2>3. file.cluster # ROOT BY <1>6, <2>1
  <2>4. PICK s : Apply(e, s) BY <1>8 DEF EraseFile
  <2> HIDE DEF e
  <2> QED BY <1>1, <2>2, <2>3, <2>4, ApplyKeeps
<1>9. ASSUME NEW c \in Directories(volume), NEW file \in Listed(volume, c), RemoveFile(c, file)
      PROVE  Goal
  <2> DEFINE erased == fat32_erase_file(volume, file)
             e == fat32_remove_directory_entry(erased, file)
  <2>1. file.name \notin Dots BY <1>9 DEF RemoveFile
  <2>2. Sound(erased) /\ \A k \in Clusters : Leads(volume, k) /\ k # file.cluster => Leads(erased, k)
    BY <1>1, <1>6, <2>1, EraseKeeps
  <2>3. NoStaleRoot => file.cluster # ROOT BY <1>6, <2>1
  <2>4. PICK s : Apply(e, s) BY <1>9 DEF RemoveFile, fat32_remove_file
  <2> HIDE DEF erased
  <2>5. erased \in Volumes BY <2>2 DEF Sound
  <2>6. Keeps(erased, e) BY <2>5, RemoveKeeps
  <2> HIDE DEF e
  <2>7. Sound(e) BY <2>2, <2>6, KeepsSound
  <2>8. \A k : Leads(e, k) = Leads(erased, k) BY <2>6 DEF Keeps, Leads, NoPred
  <2> QED BY <1>1, <2>2, <2>3, <2>4, <2>7, <2>8, ApplyKeeps
<1>10. ASSUME NEW c \in Directories(volume), NEW file \in Listed(volume, c), ChangeDirectory(file)
       PROVE  Goal
  <2>1. volume' = volume /\ cwd' = file.cluster BY <1>10 DEF ChangeDirectory, volume
  <2>2. file.cluster \in Clusters BY <1>6, <1>10 DEF ChangeDirectory
  <2> QED BY <1>1, <2>1, <2>2 DEF Inv
<1> HIDE DEF Goal
<1>11. ASSUME FatNext PROVE Goal
  <2>1. ASSUME \E c \in Directories(volume) : \E file \in Listed(volume, c) :
          \/ \E w \in Writes, v \in Bytes : WriteFile(c, file, w[1], w[2], v)
          \/ EraseFile(c, file) \/ RemoveFile(c, file) \/ ChangeDirectory(file)
        PROVE Goal
    BY <2>1, <1>7, <1>8, <1>9, <1>10
  <2> QED BY <1>3, <1>4, <1>5, <1>11, <2>1 DEF FatNext
<1>12. Goal BY <1>2, <1>11
<1> QED BY <1>12 DEF Goal

\* The chains that the slots of the volume name stay apart and complete, whatever
\* is created, written, erased and removed, also after a removal has left a
\* directory in two places (fat32.c:364-440, 473-583, 941-1000).
THEOREM RecordsStayDisjoint == FatSpec => []RecordsDisjoint
<1>1. FatInit => Inv BY InitSound
<1>2. Inv /\ [FatNext]_fatVars => Inv' BY NextKeeps
<1>3. Inv => RecordsDisjoint BY SoundIsDisjoint DEF Inv
<1> QED BY <1>1, <1>2, <1>3, PTL DEF FatSpec

\* Two listed files with one entry are one file, since directories that can be
\* reached do not share slots: each is read from a cluster that leads a chain.
LEMMA OwnersAreDisjoint ==
  ASSUME Sound(volume), Leads(volume, ROOT), NoStaleRoot
  PROVE  OwnersDisjoint
<1> DEFINE d == volume
           dirs == Directories(d)
<1>1. d \in Volumes /\ Linked(d) /\ ROOT \in Clusters /\ dirs \subseteq Clusters
  BY Sizes, DirectoriesAre DEF Sound
<1>2. ASSUME NEW f \in Real
      PROVE  /\ \E c \in dirs : f \in Listed(d, c)
             /\ f.kind = "dir" => f.cluster # 0
             /\ f.cluster # 0 =>
                  /\ f.entry \in Claims(d) /\ f.cluster = At(d, f.entry).cluster
                  /\ Leads(d, f.cluster) /\ f.cluster # ROOT
  <2>1. PICK c \in dirs : f \in Listed(d, c) BY DEF Real, Files
  <2>2. c \in Clusters /\ f.name \notin Dots BY <1>1, <2>1 DEF Real
  <2>3. f.kind = "dir" => f.cluster # ROOT BY DEF NoStaleRoot
  <2>4. f.kind = "dir" => f.cluster # 0 BY <2>1, <2>2, FileIs DEF Clusters
  <2>5. f.cluster # 0 => f.entry \in Claims(d) BY <2>1, <2>2, <2>3, FileIs
  <2>6. f.entry \in Claims(d) =>
          /\ f.cluster = At(d, f.entry).cluster
          /\ Leads(d, f.cluster) /\ f.cluster # ROOT
    BY <2>1, <2>2, FileIs
  <2> QED BY <2>1, <2>4, <2>5, <2>6
<1>3. ASSUME NEW c \in dirs, NEW f \in Subdirectories(d, c)
      PROVE  Leads(d, f.cluster)
  <2>1. f \in Real /\ f.kind = "dir" BY DEF Subdirectories, Real, Files
  <2> QED BY <1>2, <2>1
<1>4. ASSUME NEW c \in dirs PROVE Leads(d, c)
  <2> DEFINE near == Below(d, {ROOT})
  <2>1. dirs = near \union UNION {{f.cluster : f \in Subdirectories(d, k)} : k \in near}
    BY DEF Directories, Below
  <2>2. near = {ROOT} \union UNION {{f.cluster : f \in Subdirectories(d, k)} : k \in {ROOT}}
    BY DEF Below
  <2>3. ROOT \in dirs BY <2>1, <2>2
  <2>4. ASSUME NEW k \in dirs, c \in {f.cluster : f \in Subdirectories(d, k)}
        PROVE  Leads(d, c)
    BY <1>3, <2>4
  <2> HIDE DEF near
  <2>5. c = ROOT \/ \E k \in dirs : c \in {f.cluster : f \in Subdirectories(d, k)}
    <3> HIDE DEF dirs
    <3>1. near \subseteq dirs BY <2>1
    <3>2. CASE c \in near BY <2>2, <2>3, <3>2
    <3>3. CASE c \notin near BY <2>1, <3>1, <3>3
    <3> QED BY <3>2, <3>3
  <2> QED BY <2>4, <2>5
<1> HIDE DEF dirs, d
<1>5. ASSUME NEW f \in Real, NEW g \in Real, f.entry = g.entry PROVE f = g
  <2>1. PICK a \in dirs : f \in Listed(d, a) BY <1>2
  <2>2. PICK b \in dirs : g \in Listed(d, b) BY <1>2
  <2>3. /\ a \in Clusters /\ NoPred(d, a) /\ f \in fat32_read_directory(d, a)
        /\ b \in Clusters /\ NoPred(d, b) /\ g \in fat32_read_directory(d, b)
    BY <1>1, <1>4, <2>1, <2>2 DEF Leads, Listed
  <2>4. \E k \in 1 .. Len(Slots(d, a)) : f.entry = Slots(d, a)[k] BY <1>1, <2>3, ListedIs
  <2>5. \E k \in 1 .. Len(Slots(d, b)) : g.entry = Slots(d, b)[k] BY <1>1, <2>3, ListedIs
  <2>6. a = b BY <1>1, <1>5, <2>3, <2>4, <2>5, SlotsMeet
  <2> QED BY <1>1, <1>5, <2>3, <2>6, ListedIs
<1>6. \A c : Leads(d, c) => c \in Clusters /\ NoPred(d, c) /\ Complete(d, c)
  BY <1>1, HeadsComplete DEF Leads
<1>7. Leads(d, ROOT) BY DEF d
<1>8. ASSUME NEW f \in Real
      PROVE  /\ f.cluster # 0 => Complete(d, f.cluster)
             /\ Owned(f) \intersect Range(Chain(d, ROOT)) = {}
  <2>1. CASE f.cluster = 0 BY <2>1 DEF Owned
  <2>2. CASE f.cluster # 0
    <3>1. Leads(d, f.cluster) /\ f.cluster # ROOT BY <1>2, <2>2
    <3>2. Range(Chain(d, f.cluster)) \intersect Range(Chain(d, ROOT)) = {}
      BY <1>1, <1>6, <1>7, <3>1, HeadsDisjoint
    <3> QED BY <1>6, <2>2, <3>1, <3>2 DEF Owned, d
  <2> QED BY <2>1, <2>2
<1>9. ASSUME NEW f \in Real, NEW g \in Real, f # g PROVE Owned(f) \intersect Owned(g) = {}
  <2>1. CASE f.cluster = 0 \/ g.cluster = 0 BY <2>1 DEF Owned
  <2>2. CASE f.cluster # 0 /\ g.cluster # 0
    <3>1. Leads(d, f.cluster) /\ Leads(d, g.cluster) BY <1>2, <2>2
    <3>2. f.entry # g.entry BY <1>5, <1>9
    <3>3. f.cluster # g.cluster
      <4>1. \A p, q \in Claims(d) : At(d, p).cluster = At(d, q).cluster => p = q BY DEF Sound, d
      <4> QED BY <1>2, <2>2, <3>2, <4>1
    <3>4. Range(Chain(d, f.cluster)) \intersect Range(Chain(d, g.cluster)) = {}
      BY <1>1, <1>6, <3>1, <3>3, HeadsDisjoint
    <3> QED BY <2>2, <3>4 DEF Owned, d
  <2> QED BY <2>1, <2>2
<1> QED BY <1>6, <1>7, <1>8, <1>9 DEF OwnersDisjoint, d

\* As long as no record of a directory is left without its cluster, the chains of
\* the files that the directories list are complete, and each cluster is that of
\* one file (fat32.c:364-440, 473-583, 941-1000).
THEOREM OwnersStayDisjoint == FatSpec /\ []NoStaleRoot => []OwnersDisjoint
<1> DEFINE Led == Inv /\ Leads(volume, ROOT)
<1>1. FatInit => Led BY InitSound
<1>2. Led /\ NoStaleRoot /\ [FatNext]_fatVars => Led' BY NextKeeps
<1>3. Led /\ NoStaleRoot => OwnersDisjoint BY OwnersAreDisjoint DEF Inv
<1> HIDE DEF Led
<1> QED BY <1>1, <1>2, <1>3, PTL DEF FatSpec
=============================================================================
