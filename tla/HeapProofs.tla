----------------------------- MODULE HeapProofs -----------------------------
(***************************************************************************)
(* The kernel heap, for every arena, every size of its tags, every number  *)
(* of buckets and every sizes and alignments of its callers.               *)
(*                                                                         *)
(* A call erases blocks and creates others in their place; in between, the *)
(* bytes of the erased ones belong to no block.  So the tiling of the      *)
(* arena is stated for any set of such bytes, and each primitive operation *)
(* adds the bytes of a block to that set or takes them out.  The lists of  *)
(* voids are stated by the links of single nodes; that no nodes are left   *)
(* out of them, by the absence of a set of nodes without a first one.      *)
(***************************************************************************)
EXTENDS Heap, TLAPS, FiniteSetTheorems, WellFoundedInduction

LEMMA Layout ==
  /\ KHEAP_START \in Nat /\ KHEAP_START > 0 /\ KHEAP_END \in Nat
  /\ LEFT_EDGE_SIZE \in Nat /\ LEFT_EDGE_SIZE > 0
  /\ RIGHT_EDGE_SIZE \in Nat /\ RIGHT_EDGE_SIZE > 0
  /\ SERVICE_FIELDS_SIZE \in Nat /\ SERVICE_FIELDS_SIZE = LEFT_EDGE_SIZE + RIGHT_EDGE_SIZE
  /\ KHEAP_START + 3 * SERVICE_FIELDS_SIZE < KHEAP_END
  /\ \A a \in Addr : a \in Nat /\ a # NULL
  /\ HEAP_VOID_BUCKET_COUNT \in 1 .. 31
BY HeapAssumption DEF SERVICE_FIELDS_SIZE, Addr, NULL

LEMMA ServiceFields ==
  /\ LEFT_EDGE_SIZE \in Nat /\ RIGHT_EDGE_SIZE \in Nat
  /\ SERVICE_FIELDS_SIZE \in Nat /\ SERVICE_FIELDS_SIZE > 0
  /\ SERVICE_FIELDS_SIZE = LEFT_EDGE_SIZE + RIGHT_EDGE_SIZE
  /\ KHEAP_START \in Nat /\ KHEAP_END \in Nat
BY Layout

LEMMA LeastNat ==
  ASSUME NEW S \in SUBSET Nat, S # {}
  PROVE  \E n \in S : \A m \in S : n <= m
<1> DEFINE R == OpToRel(<, Nat)
<1>1. \A m, n \in Nat : m < n => <<m, n>> \in R BY DEF OpToRel
<1>2. IsWellFoundedOn(R, Nat) BY NatLessThanWellFounded
<1> HIDE DEF R
<1>3. PICK n \in S : \A m \in S : ~ (<<m, n>> \in R) BY <1>2, WFMin
<1>4. ASSUME NEW m \in S PROVE n <= m
  <2>1. m \in Nat /\ n \in Nat OBVIOUS
  <2>2. ~ (m < n) BY <1>1, <1>3, <2>1
  <2> QED BY <2>1, <2>2
<1> QED BY <1>4

---------------------------------------------------------------------------
(* Buckets.                                                                *)

\* What a bucket holds: sizes above the power before its own, up to its own.
LEMMA BucketOfSize ==
  ASSUME NEW size \in Nat, size <= 2 ^ (HEAP_VOID_BUCKET_COUNT - 1)
  PROVE  LET i == get_void_block_size_index(size)
         IN  /\ i \in Buckets
             /\ 2 ^ i >= size /\ \A j \in 0 .. i - 1 : 2 ^ j < size
<1> DEFINE S == {i \in 0 .. 30 : 2 ^ i >= size}
           n == HEAP_VOID_BUCKET_COUNT - 1
<1>1. n \in 0 .. 30 /\ n \in S BY Layout
<1>2. PICK i \in S : \A j \in S : i <= j
  <2>1. S \in SUBSET Nat /\ S # {} BY <1>1
  <2> HIDE DEF S
  <2> QED BY <2>1, LeastNat
<1>3. i \in 0 .. 30 /\ 2 ^ i >= size /\ i <= n BY <1>1, <1>2
<1>4. ASSUME NEW j \in 0 .. i - 1 PROVE 2 ^ j < size
  <2>1. j \in 0 .. 30 /\ j \notin S BY <1>2, <1>3
  <2>2. 2 ^ j \in Int BY <2>1
  <2> QED BY <2>1, <2>2
<1> DEFINE P(k) == 2 ^ k >= size /\ \A j \in 0 .. k - 1 : 2 ^ j < size
<1>5. i \in 0 .. 30 /\ P(i) BY <1>3, <1>4
<1> HIDE DEF S
<1>6. \A k \in 0 .. 30 : P(k) => k = i
  <2> SUFFICES ASSUME NEW k \in 0 .. 30, P(k), k # i PROVE FALSE OBVIOUS
  <2>1. \A j \in 0 .. 30 : 2 ^ j \in Int OBVIOUS
  <2>2. CASE k < i
    <3>1. k \in 0 .. i - 1 BY <1>3, <2>2
    <3>2. 2 ^ k < size BY <1>4, <3>1
    <3> QED BY <2>1, <3>2
  <2>3. CASE i < k
    <3>1. i \in 0 .. k - 1 BY <1>3, <2>3
    <3>2. 2 ^ i < size BY <3>1
    <3> QED BY <1>3, <2>1, <3>2
  <2> QED BY <1>3, <2>2, <2>3
<1> HIDE DEF P
<1>7. (CHOOSE k \in 0 .. 30 : P(k)) = i BY <1>5, <1>6
<1>8. get_void_block_size_index(size) = i BY <1>7 DEF P, get_void_block_size_index
<1>9. i \in Buckets BY <1>3, Layout DEF Buckets
<1> QED BY <1>3, <1>4, <1>8, <1>9

\* A void that is large enough is in the bucket of the size or in one above.
LEMMA BucketsAscend ==
  ASSUME NEW size \in Nat, NEW larger \in Nat, size <= larger,
         larger <= 2 ^ (HEAP_VOID_BUCKET_COUNT - 1)
  PROVE  get_void_block_size_index(size) <= get_void_block_size_index(larger)
<1>1. 2 ^ (HEAP_VOID_BUCKET_COUNT - 1) \in Int BY Layout
<1>2. size <= 2 ^ (HEAP_VOID_BUCKET_COUNT - 1) BY <1>1
<1> DEFINE i == get_void_block_size_index(size)
           k == get_void_block_size_index(larger)
<1>3. i \in Buckets /\ \A j \in 0 .. i - 1 : 2 ^ j < size BY <1>2, BucketOfSize
<1>4. k \in Buckets /\ 2 ^ k >= larger BY BucketOfSize
<1>5. SUFFICES ASSUME k < i PROVE FALSE BY <1>3, <1>4, Layout DEF Buckets
<1> HIDE DEF i, k
<1>6. k \in 0 .. i - 1 BY <1>3, <1>4, <1>5, Layout DEF Buckets
<1>7. 2 ^ k < size BY <1>3, <1>6
<1>8. 2 ^ k \in Int BY <1>6
<1> QED BY <1>4, <1>7, <1>8

---------------------------------------------------------------------------
(* Tiling.                                                                 *)

Heaps == [head : [Addr -> Tag], foot : [Addr -> Tag], root : [Buckets -> Addr \cup {NULL}]]

Arena == KHEAP_START .. KHEAP_END - 1

BlocksOf(h) == {a \in Addr : h.head[a].signature # "none"}

Body(h, a) == a .. get_block_end(h, a) - 1

\* The blocks have the bytes of the arena but those of H, each byte one block,
\* and the tag at the end of each agrees with the one at its start.
Tiles(h, H) ==
  /\ \A a \in BlocksOf(h) : Body(h, a) \subseteq Arena \ H
  /\ \A a, b \in BlocksOf(h) : a < b => get_block_end(h, a) <= b
  /\ \A x \in Arena \ H : \E a \in BlocksOf(h) : x \in Body(h, a)
  /\ \A a \in BlocksOf(h) :
       /\ h.foot[get_block_end(h, a) - RIGHT_EDGE_SIZE].signature = h.head[a].signature
       /\ h.foot[get_block_end(h, a) - RIGHT_EDGE_SIZE].size = h.head[a].size

\* The block at an address is the same in two heaps, its links aside.
Same(g, h, b) ==
  g.head[b].signature = h.head[b].signature /\ g.head[b].size = h.head[b].size

LEMMA BlockEnds ==
  ASSUME NEW h \in Heaps, NEW a \in Addr
  PROVE  /\ a \in Nat /\ h.head[a].size \in Nat
         /\ get_block_end(h, a) = a + LEFT_EDGE_SIZE + RIGHT_EDGE_SIZE + h.head[a].size
         /\ get_block_end(h, a) \in Nat /\ get_block_end(h, a) > a
         /\ get_block_end(h, a) - RIGHT_EDGE_SIZE \in Body(h, a)
         /\ a \in Body(h, a)
<1>1. h.head[a].size \in Nat BY DEF Heaps, Tag
<1> QED BY <1>1, Layout DEF get_block_end, Body

LEMMA BlocksInside ==
  ASSUME NEW h \in Heaps, NEW H, Tiles(h, H), NEW a \in BlocksOf(h)
  PROVE  a \in Addr /\ a \in Arena \ H /\ get_block_end(h, a) <= KHEAP_END
<1>1. a \in Addr BY DEF BlocksOf
<1>2. Body(h, a) \subseteq Arena \ H BY DEF Tiles
<1>3. get_block_end(h, a) - 1 \in Body(h, a) BY <1>1, BlockEnds DEF Body
<1>4. get_block_end(h, a) - 1 \in Arena BY <1>2, <1>3
<1> QED BY <1>1, <1>2, <1>4, BlockEnds, Layout DEF Arena

\* Blocks do not share bytes.
LEMMA BodiesApart ==
  ASSUME NEW h \in Heaps, NEW H, Tiles(h, H), NEW a \in BlocksOf(h), NEW b \in BlocksOf(h), a # b
  PROVE  Body(h, a) \cap Body(h, b) = {}
<1>1. a \in Addr /\ b \in Addr BY DEF BlocksOf
<1>2. a < b \/ b < a BY <1>1, Layout
<1>3. get_block_end(h, a) <= b \/ get_block_end(h, b) <= a BY <1>2 DEF Tiles
<1> QED BY <1>1, <1>3, BlockEnds DEF Body

\* A block is erased: its bytes are nobody's.
LEMMA TilesErased ==
  ASSUME NEW h \in Heaps, NEW g \in Heaps, NEW H, Tiles(h, H), NEW a \in BlocksOf(h),
         g.head[a].signature = "none",
         \A b \in Addr \ {a} : Same(g, h, b),
         \A x \in Addr \ {get_block_end(h, a) - RIGHT_EDGE_SIZE} : g.foot[x] = h.foot[x]
  PROVE  Tiles(g, H \cup Body(h, a)) /\ BlocksOf(g) = BlocksOf(h) \ {a}
<1>1. BlocksOf(g) = BlocksOf(h) \ {a} BY DEF BlocksOf, Same
<1>2. \A b \in BlocksOf(g) : b \in Addr /\ b \in BlocksOf(h) /\ b # a BY <1>1 DEF BlocksOf
<1>3. \A b \in BlocksOf(g) : Same(g, h, b) /\ get_block_end(g, b) = get_block_end(h, b)
  BY <1>2 DEF Same, get_block_end
<1>4. \A b \in BlocksOf(g) : Body(g, b) = Body(h, b) BY <1>3 DEF Body
<1>5. ASSUME NEW b \in BlocksOf(g) PROVE Body(g, b) \subseteq Arena \ (H \cup Body(h, a))
  <2>1. Body(h, b) \cap Body(h, a) = {} BY <1>2, BodiesApart
  <2> QED BY <1>2, <1>4, <2>1 DEF Tiles
<1>6. ASSUME NEW x \in Arena \ (H \cup Body(h, a))
      PROVE  \E b \in BlocksOf(g) : x \in Body(g, b)
  <2>1. PICK b \in BlocksOf(h) : x \in Body(h, b) BY DEF Tiles
  <2>2. b # a BY <2>1
  <2> QED BY <1>1, <1>4, <2>1, <2>2
<1>7. ASSUME NEW b \in BlocksOf(g)
      PROVE  LET f == g.foot[get_block_end(g, b) - RIGHT_EDGE_SIZE]
             IN  f.signature = g.head[b].signature /\ f.size = g.head[b].size
  <2> DEFINE x == get_block_end(h, b) - RIGHT_EDGE_SIZE
             y == get_block_end(h, a) - RIGHT_EDGE_SIZE
  <2>1. x \in Body(h, b) /\ y \in Body(h, a) BY <1>2, BlockEnds DEF BlocksOf
  <2>2. x # y BY <1>2, <2>1, BodiesApart
  <2>3. x \in Arena BY <1>2, <2>1 DEF Tiles
  <2>4. x \in Addr BY <2>3, Layout DEF Arena, Addr
  <2>5. g.foot[x] = h.foot[x] BY <2>2, <2>4
  <2>6. h.foot[x].signature = h.head[b].signature /\ h.foot[x].size = h.head[b].size
    BY <1>2 DEF Tiles
  <2> QED BY <1>3, <2>5, <2>6 DEF Same
<1>8. \A b, c \in BlocksOf(g) : b < c => get_block_end(g, b) <= c BY <1>2, <1>3 DEF Tiles
<1> QED BY <1>1, <1>5, <1>6, <1>7, <1>8 DEF Tiles

\* A block is created on bytes that are nobody's.
LEMMA TilesCreated ==
  ASSUME NEW h \in Heaps, NEW g \in Heaps, NEW H \in SUBSET Arena, Tiles(h, H), NEW a \in Addr,
         g.head[a].signature # "none", Body(g, a) \subseteq H,
         g.foot[get_block_end(g, a) - RIGHT_EDGE_SIZE].signature = g.head[a].signature,
         g.foot[get_block_end(g, a) - RIGHT_EDGE_SIZE].size = g.head[a].size,
         \A b \in Addr \ {a} : Same(g, h, b),
         \A x \in Addr \ {get_block_end(g, a) - RIGHT_EDGE_SIZE} : g.foot[x] = h.foot[x]
  PROVE  Tiles(g, H \ Body(g, a)) /\ BlocksOf(g) = BlocksOf(h) \cup {a} /\ a \notin BlocksOf(h)
<1>0. a \in Body(g, a) BY BlockEnds
<1>1. BlocksOf(g) = BlocksOf(h) \cup {a} BY DEF BlocksOf, Same
<1>2. a \notin BlocksOf(h) BY <1>0, BlocksInside
<1>3. \A b \in BlocksOf(h) : b \in Addr /\ b # a /\ Same(g, h, b) /\ get_block_end(g, b) = get_block_end(h, b)
  BY <1>2 DEF BlocksOf, Same, get_block_end
<1>4. \A b \in BlocksOf(h) : Body(g, b) = Body(h, b) BY <1>3 DEF Body
<1>5. ASSUME NEW b \in BlocksOf(g) PROVE Body(g, b) \subseteq Arena \ (H \ Body(g, a))
  <2>1. CASE b = a BY <2>1
  <2>2. CASE b # a
    <3>1. Body(g, b) \subseteq Arena \ H BY <1>1, <1>4, <2>2 DEF Tiles
    <3> QED BY <3>1
  <2> QED BY <2>1, <2>2
<1>6. ASSUME NEW x \in Arena \ (H \ Body(g, a))
      PROVE  \E b \in BlocksOf(g) : x \in Body(g, b)
  <2>1. CASE x \in Body(g, a) BY <1>1, <2>1
  <2>2. CASE x \notin Body(g, a)
    <3>1. PICK b \in BlocksOf(h) : x \in Body(h, b) BY <2>2 DEF Tiles
    <3> QED BY <1>1, <1>4, <3>1
  <2> QED BY <2>1, <2>2
<1>7. ASSUME NEW b \in BlocksOf(g)
      PROVE  LET f == g.foot[get_block_end(g, b) - RIGHT_EDGE_SIZE]
             IN  f.signature = g.head[b].signature /\ f.size = g.head[b].size
  <2>0. CASE b = a BY <2>0
  <2>9. CASE b # a
    <3> DEFINE x == get_block_end(h, b) - RIGHT_EDGE_SIZE
               y == get_block_end(g, a) - RIGHT_EDGE_SIZE
    <3>1. b \in BlocksOf(h) BY <1>1, <2>9
    <3>2. x \in Body(h, b) /\ y \in Body(g, a) BY <1>3, <3>1, BlockEnds
    <3>3. x \in Arena \ H BY <3>1, <3>2 DEF Tiles
    <3>4. x # y /\ x \in Addr BY <3>2, <3>3, Layout DEF Arena, Addr
    <3>5. g.foot[x] = h.foot[x] BY <3>4
    <3>6. h.foot[x].signature = h.head[b].signature /\ h.foot[x].size = h.head[b].size
      BY <3>1 DEF Tiles
    <3> QED BY <1>3, <3>1, <3>5, <3>6 DEF Same
  <2> QED BY <2>0, <2>9
<1>8. ASSUME NEW b \in BlocksOf(g), NEW c \in BlocksOf(g), b < c PROVE get_block_end(g, b) <= c
  <2>1. CASE b # a /\ c # a BY <1>1, <1>3, <1>8, <2>1 DEF Tiles
  <2>2. CASE b = a
    <3>1. c \in BlocksOf(h) /\ c \in Addr BY <1>1, <1>3, <1>8, <2>2, Layout
    <3>2. c \notin Body(g, a) BY <3>1, BlocksInside
    <3> QED BY <1>8, <2>2, <3>1, <3>2, BlockEnds DEF Body
  <2>3. CASE c = a
    <3>1. b \in BlocksOf(h) /\ b \in Addr BY <1>1, <1>3, <1>8, <2>3, Layout
    <3>2. a \notin Body(h, b) BY <1>0, <3>1 DEF Tiles
    <3> QED BY <1>3, <1>8, <2>3, <3>1, <3>2, BlockEnds DEF Body
  <2> QED BY <2>1, <2>2, <2>3
<1> QED BY <1>1, <1>2, <1>5, <1>6, <1>7, <1>8 DEF Tiles

---------------------------------------------------------------------------
(* The lists of voids.                                                     *)

L(h, a) == h.head[a].left
R(h, a) == h.head[a].right

\* The node at an end of a list is its bucket's root, or has nothing after it;
\* the others are linked both ways, and no nodes are linked among themselves.
Rooted(h) ==
  \A i \in Buckets :
    h.root[i] # NULL =>
      h.root[i] \in voids(h) /\ bucket_of(h, h.root[i]) = i /\ L(h, h.root[i]) = NULL

Righted(h) ==
  \A a \in voids(h) :
    R(h, a) # NULL =>
      R(h, a) \in voids(h) /\ bucket_of(h, R(h, a)) = bucket_of(h, a) /\ L(h, R(h, a)) = a

Lefted(h) ==
  \A a \in voids(h) :
    IF L(h, a) = NULL THEN h.root[bucket_of(h, a)] = a
    ELSE L(h, a) \in voids(h) /\ bucket_of(h, L(h, a)) = bucket_of(h, a) /\ R(h, L(h, a)) = a

Founded(h) == \A S \in SUBSET voids(h) : S # {} => \E a \in S : L(h, a) \notin S

Lists(h) == Rooted(h) /\ Righted(h) /\ Lefted(h) /\ Founded(h)

LEMMA SizesInBuckets ==
  ASSUME NEW h \in Heaps, NEW a \in Addr
  PROVE  /\ bucket_of(h, a) \in Buckets
         /\ h.head[a].size \in Nat /\ h.head[a].size <= 2 ^ (HEAP_VOID_BUCKET_COUNT - 1)
<1>1. h.head[a].size \in 0 .. KHEAP_END - KHEAP_START BY DEF Heaps, Tag
<1>2. KHEAP_END - KHEAP_START <= 2 ^ (HEAP_VOID_BUCKET_COUNT - 1) BY HeapAssumption
<1>3. 2 ^ (HEAP_VOID_BUCKET_COUNT - 1) \in Int BY Layout
<1>4. h.head[a].size \in Nat /\ h.head[a].size <= 2 ^ (HEAP_VOID_BUCKET_COUNT - 1)
  BY <1>1, <1>2, <1>3, Layout
<1> QED BY <1>4, BucketOfSize DEF bucket_of

\* Blocks that are no voids are in no list.
LEMMA ListsSame ==
  ASSUME NEW h \in Heaps, NEW g \in Heaps, Lists(h), g.root = h.root,
         \A b \in Addr : \/ g.head[b] = h.head[b]
                         \/ g.head[b].signature # "void" /\ h.head[b].signature # "void"
  PROVE  Lists(g) /\ voids(g) = voids(h)
<1>1. voids(g) = voids(h) BY DEF voids
<1>2. \A a \in voids(h) : a \in Addr /\ g.head[a] = h.head[a] BY DEF voids
<1>3. \A a \in voids(h) : L(g, a) = L(h, a) /\ R(g, a) = R(h, a) /\ bucket_of(g, a) = bucket_of(h, a)
  BY <1>2 DEF L, R, bucket_of
<1>4. Rooted(g) BY <1>1, <1>3 DEF Lists, Rooted
<1>5. Righted(g) BY <1>1, <1>3 DEF Lists, Righted
<1>6. Lefted(g) BY <1>1, <1>3 DEF Lists, Lefted
<1>7. Founded(g) BY <1>1, <1>3 DEF Lists, Founded
<1> QED BY <1>1, <1>4, <1>5, <1>6, <1>7 DEF Lists

\* A node is taken out of its list, wherever it is.
LEMMA ListsUnlinked ==
  ASSUME NEW h \in Heaps, NEW g \in Heaps, Lists(h), NEW c \in voids(h),
         g.head[c].signature # "void",
         \A b \in Addr \ {c} :
           /\ Same(g, h, b)
           /\ R(g, b) = IF b = L(h, c) THEN R(h, c) ELSE R(h, b)
           /\ L(g, b) = IF b = R(h, c) THEN L(h, c) ELSE L(h, b),
         \A j \in Buckets :
           g.root[j] = IF j = bucket_of(h, c) /\ h.root[j] = c THEN R(h, c) ELSE h.root[j]
  PROVE  Lists(g) /\ voids(g) = voids(h) \ {c}
<1> DEFINE i == bucket_of(h, c)
           l == L(h, c)
           r == R(h, c)
<1>0. /\ \A a \in voids(h) : a \in Addr /\ a # NULL /\ bucket_of(h, a) \in Buckets
      /\ c \in Addr /\ c # NULL /\ i \in Buckets
  BY Layout, SizesInBuckets DEF voids
<1>1. voids(g) = voids(h) \ {c} BY <1>0 DEF voids, Same
<1>2. \A b \in voids(g) :
        /\ b \in voids(h) /\ b # c /\ b # NULL /\ bucket_of(g, b) = bucket_of(h, b)
        /\ R(g, b) = IF b = l THEN r ELSE R(h, b)
        /\ L(g, b) = IF b = r THEN l ELSE L(h, b)
  <2>1. \A b \in voids(g) : b \in voids(h) /\ b # c /\ b \in Addr \ {c} /\ b # NULL BY <1>0, <1>1
  <2>2. \A b \in voids(g) : bucket_of(g, b) = bucket_of(h, b) BY <2>1 DEF Same, bucket_of
  <2> QED BY <2>1, <2>2
<1>3. /\ r # NULL => r \in voids(h) /\ bucket_of(h, r) = i /\ L(h, r) = c /\ r # c
      /\ l = NULL => h.root[i] = c
      /\ l # NULL => l \in voids(h) /\ bucket_of(h, l) = i /\ R(h, l) = c /\ l # c /\ h.root[i] # c
  <2>1. r # NULL => r \in voids(h) /\ bucket_of(h, r) = i /\ L(h, r) = c BY DEF Lists, Righted
  <2>2. l # NULL => l \in voids(h) /\ bucket_of(h, l) = i /\ R(h, l) = c BY DEF Lists, Lefted
  <2>3. l = NULL => h.root[i] = c BY DEF Lists, Lefted
  <2>4. l # NULL => h.root[i] # c BY <1>0 DEF Lists, Rooted
  <2>5. l # c
    <3>1. \E a \in {c} : L(h, a) \notin {c} BY DEF Lists, Founded
    <3> QED BY <3>1
  <2>6. r = c => r # NULL /\ L(h, r) = c BY <1>0, <2>1
  <2>7. r # c BY <2>5, <2>6
  <2> QED BY <2>1, <2>2, <2>3, <2>4, <2>5, <2>7
<1>4. r # NULL => r \in voids(g) BY <1>1, <1>3
<1>5. l # NULL => l \in voids(g) BY <1>1, <1>3
<1> HIDE DEF i, l, r
<1>6. Rooted(g)
  <2>1. SUFFICES ASSUME NEW j \in Buckets, g.root[j] # NULL
                 PROVE  /\ g.root[j] \in voids(g) /\ bucket_of(g, g.root[j]) = j
                        /\ L(g, g.root[j]) = NULL
    BY DEF Rooted
  <2>2. CASE j = i /\ h.root[j] = c
    <3>1. g.root[j] = r BY <2>2 DEF i, r
    <3>2. l = NULL BY <1>3, <2>2
    <3> QED BY <1>2, <1>3, <1>4, <2>1, <2>2, <3>1, <3>2
  <2>3. CASE ~ (j = i /\ h.root[j] = c)
    <3>1. g.root[j] = h.root[j] BY <2>3 DEF i
    <3>2. h.root[j] \in voids(h) /\ bucket_of(h, h.root[j]) = j /\ L(h, h.root[j]) = NULL
      BY <2>1, <3>1 DEF Lists, Rooted
    <3>3. h.root[j] # c BY <2>3, <3>2 DEF i
    <3>4. h.root[j] # r BY <1>0, <1>3, <3>2
    <3> QED BY <1>1, <1>2, <3>1, <3>2, <3>3, <3>4
  <2> QED BY <2>2, <2>3
<1>7. Righted(g)
  <2>1. SUFFICES ASSUME NEW a \in voids(g), R(g, a) # NULL
                 PROVE  /\ R(g, a) \in voids(g) /\ bucket_of(g, R(g, a)) = bucket_of(g, a)
                        /\ L(g, R(g, a)) = a
    BY DEF Righted
  <2>2. CASE a = l BY <1>2, <1>3, <1>4, <2>1, <2>2
  <2>3. CASE a # l
    <3>1. R(g, a) = R(h, a) /\ a \in voids(h) /\ a # c BY <1>2, <2>3
    <3>2. R(h, a) \in voids(h) /\ bucket_of(h, R(h, a)) = bucket_of(h, a) /\ L(h, R(h, a)) = a
      BY <2>1, <3>1 DEF Lists, Righted
    <3>3. R(h, a) # c BY <2>3, <3>2 DEF l
    <3>4. R(h, a) # r BY <1>3, <3>1, <3>2, <1>0
    <3> QED BY <1>1, <1>2, <3>1, <3>2, <3>3, <3>4
  <2> QED BY <2>2, <2>3
<1>8. Lefted(g)
  <2>1. SUFFICES ASSUME NEW a \in voids(g)
                 PROVE  IF L(g, a) = NULL THEN g.root[bucket_of(g, a)] = a
                        ELSE /\ L(g, a) \in voids(g) /\ bucket_of(g, L(g, a)) = bucket_of(g, a)
                             /\ R(g, L(g, a)) = a
    BY DEF Lefted
  <2>2. CASE a = r
    <3>1. L(g, a) = l /\ a # NULL BY <1>2, <2>2
    <3>2. CASE l = NULL
      <4>1. g.root[i] = r BY <1>0, <1>3, <3>2 DEF i, r
      <4> QED BY <1>2, <1>3, <2>2, <3>1, <3>2, <4>1
    <3>3. CASE l # NULL
      <4>1. R(g, l) = r BY <1>2, <1>5, <3>3
      <4> QED BY <1>2, <1>3, <1>5, <2>2, <3>1, <3>3, <4>1
    <3> QED BY <3>2, <3>3
  <2>3. CASE a # r
    <3>1. L(g, a) = L(h, a) /\ a \in voids(h) /\ a # c /\ bucket_of(g, a) = bucket_of(h, a)
      BY <1>2, <2>3
    <3>2. CASE L(h, a) = NULL
      <4>1. h.root[bucket_of(h, a)] = a BY <3>1, <3>2 DEF Lists, Lefted
      <4>2. bucket_of(h, a) \in Buckets BY <1>0, <3>1
      <4>3. g.root[bucket_of(h, a)] = a BY <3>1, <4>1, <4>2
      <4> QED BY <3>1, <3>2, <4>3
    <3>3. CASE L(h, a) # NULL
      <4>1. L(h, a) \in voids(h) /\ bucket_of(h, L(h, a)) = bucket_of(h, a) /\ R(h, L(h, a)) = a
        BY <3>1, <3>3 DEF Lists, Lefted
      <4>2. L(h, a) # c BY <2>3, <4>1 DEF r
      <4>3. L(h, a) # l BY <1>3, <3>1, <3>3, <4>1
      <4> QED BY <1>1, <1>2, <3>1, <3>3, <4>1, <4>2, <4>3
    <3> QED BY <3>2, <3>3
  <2> QED BY <2>2, <2>3
<1>9. Founded(g)
  <2>1. SUFFICES ASSUME NEW S \in SUBSET voids(g), S # {}, \A a \in S : L(g, a) \in S PROVE FALSE
    BY DEF Founded
  <2>2. S \subseteq voids(h) /\ c \notin S /\ NULL \notin S BY <1>1, <1>2
  <2>3. PICK x \in S : L(h, x) \notin S BY <2>1, <2>2 DEF Lists, Founded
  <2>4. x = r /\ l \in S BY <1>2, <2>1, <2>3
  <2>5. PICK y \in S \cup {c} : L(h, y) \notin S \cup {c}
    <3>1. S \cup {c} \in SUBSET voids(h) /\ S \cup {c} # {} BY <2>2
    <3> QED BY <3>1 DEF Lists, Founded
  <2>6. y # c BY <2>4, <2>5 DEF l
  <2>7. y # r BY <1>3, <2>2, <2>5, <2>6
  <2>8. L(g, y) = L(h, y) BY <1>2, <2>5, <2>6, <2>7
  <2> QED BY <2>1, <2>5, <2>6, <2>8
<1> QED BY <1>1, <1>6, <1>7, <1>8, <1>9 DEF Lists

\* A new node becomes the first of its list.
LEMMA ListsLinked ==
  ASSUME NEW h \in Heaps, NEW g \in Heaps, Lists(h), NEW c \in Addr, c \notin voids(h),
         g.head[c].signature = "void", L(g, c) = NULL, R(g, c) = h.root[bucket_of(g, c)],
         \A b \in Addr \ {c} :
           /\ Same(g, h, b)
           /\ R(g, b) = R(h, b)
           /\ L(g, b) = IF b = R(g, c) THEN c ELSE L(h, b),
         \A j \in Buckets : g.root[j] = IF j = bucket_of(g, c) THEN c ELSE h.root[j]
  PROVE  Lists(g) /\ voids(g) = voids(h) \cup {c}
<1> DEFINE i == bucket_of(g, c)
           r == R(g, c)
<1>0. /\ \A a \in voids(h) : a \in Addr /\ a # NULL /\ bucket_of(h, a) \in Buckets
      /\ c # NULL /\ i \in Buckets
  BY Layout, SizesInBuckets DEF voids
<1>1. voids(g) = voids(h) \cup {c} BY <1>0 DEF voids, Same
<1>2. \A b \in voids(h) :
        /\ b \in voids(g) /\ b # c /\ b # NULL /\ bucket_of(g, b) = bucket_of(h, b)
        /\ R(g, b) = R(h, b)
        /\ L(g, b) = IF b = r THEN c ELSE L(h, b)
  <2>1. \A b \in voids(h) : b \in voids(g) /\ b # c /\ b \in Addr \ {c} /\ b # NULL BY <1>0, <1>1
  <2>2. \A b \in voids(h) : bucket_of(g, b) = bucket_of(h, b) BY <2>1 DEF Same, bucket_of
  <2> QED BY <2>1, <2>2
<1>3. /\ r # NULL => r \in voids(h) /\ bucket_of(h, r) = i /\ L(h, r) = NULL /\ r # c
      /\ r = h.root[i]
  BY <1>0 DEF Lists, Rooted
<1>4. g.root[i] = c /\ L(g, c) = NULL /\ R(g, c) = r BY <1>0
<1>5. \A j \in Buckets : j # i => g.root[j] = h.root[j] OBVIOUS
<1>6. Rooted(g)
  <2>1. SUFFICES ASSUME NEW j \in Buckets, g.root[j] # NULL
                 PROVE  /\ g.root[j] \in voids(g) /\ bucket_of(g, g.root[j]) = j
                        /\ L(g, g.root[j]) = NULL
    BY DEF Rooted
  <2>2. CASE j = i BY <1>1, <1>4, <2>2
  <2>3. CASE j # i
    <3>1. g.root[j] = h.root[j] BY <1>5, <2>3
    <3>2. h.root[j] \in voids(h) /\ bucket_of(h, h.root[j]) = j /\ L(h, h.root[j]) = NULL
      BY <2>1, <3>1 DEF Lists, Rooted
    <3>3. h.root[j] # r BY <1>3, <2>3, <3>2, <1>2
    <3> QED BY <1>2, <3>1, <3>2, <3>3
  <2> QED BY <2>2, <2>3
<1> HIDE DEF i, r
<1>7. Righted(g)
  <2>1. SUFFICES ASSUME NEW a \in voids(g), R(g, a) # NULL
                 PROVE  /\ R(g, a) \in voids(g) /\ bucket_of(g, R(g, a)) = bucket_of(g, a)
                        /\ L(g, R(g, a)) = a
    BY DEF Righted
  <2>2. CASE a = c
    <3>1. R(g, a) = r /\ r # NULL BY <1>4, <2>1, <2>2
    <3>2. bucket_of(g, a) = i BY <2>2 DEF i
    <3> QED BY <1>2, <1>3, <2>2, <3>1, <3>2
  <2>3. CASE a # c
    <3>1. a \in voids(h) /\ R(g, a) = R(h, a) BY <1>1, <1>2, <2>3
    <3>2. R(h, a) \in voids(h) /\ bucket_of(h, R(h, a)) = bucket_of(h, a) /\ L(h, R(h, a)) = a
      BY <2>1, <3>1 DEF Lists, Righted
    <3>3. R(h, a) # r BY <1>2, <1>3, <3>1, <3>2
    <3> QED BY <1>2, <3>1, <3>2, <3>3
  <2> QED BY <2>2, <2>3
<1>8. Lefted(g)
  <2>1. SUFFICES ASSUME NEW a \in voids(g)
                 PROVE  IF L(g, a) = NULL THEN g.root[bucket_of(g, a)] = a
                        ELSE /\ L(g, a) \in voids(g) /\ bucket_of(g, L(g, a)) = bucket_of(g, a)
                             /\ R(g, L(g, a)) = a
    BY DEF Lefted
  <2>2. CASE a = c
    <3>1. L(g, a) = NULL /\ bucket_of(g, a) = i BY <1>4, <2>2 DEF i
    <3> QED BY <1>4, <2>2, <3>1
  <2>3. CASE a = r /\ a # c
    <3>1. a \in voids(h) BY <1>1, <2>1, <2>3
    <3>2. L(g, a) = c /\ c # NULL /\ bucket_of(g, a) = i /\ R(g, c) = a
      BY <1>0, <1>2, <1>3, <1>4, <2>3, <3>1
    <3>3. bucket_of(g, c) = i BY DEF i
    <3> QED BY <1>1, <3>2, <3>3
  <2>4. CASE a # r /\ a # c
    <3>1. a \in voids(h) /\ L(g, a) = L(h, a) /\ bucket_of(g, a) = bucket_of(h, a)
      BY <1>1, <1>2, <2>4
    <3>2. CASE L(h, a) = NULL
      <4>1. h.root[bucket_of(h, a)] = a /\ bucket_of(h, a) \in Buckets
        BY <1>0, <3>1, <3>2 DEF Lists, Lefted
      <4>2. bucket_of(h, a) # i BY <1>3, <2>4, <4>1
      <4> QED BY <1>5, <3>1, <3>2, <4>1, <4>2
    <3>3. CASE L(h, a) # NULL
      <4>1. L(h, a) \in voids(h) /\ bucket_of(h, L(h, a)) = bucket_of(h, a) /\ R(h, L(h, a)) = a
        BY <3>1, <3>3 DEF Lists, Lefted
      <4> QED BY <1>2, <3>1, <3>3, <4>1
    <3> QED BY <3>2, <3>3
  <2> QED BY <2>2, <2>3, <2>4
<1>9. Founded(g)
  <2>1. SUFFICES ASSUME NEW S \in SUBSET voids(g), S # {}, \A a \in S : L(g, a) \in S PROVE FALSE
    BY DEF Founded
  <2>2. NULL \notin S BY <1>0, <1>1, <2>1
  <2>3. c \notin S BY <1>4, <2>1, <2>2
  <2>4. S \subseteq voids(h) BY <1>1, <2>3
  <2>5. PICK x \in S : L(h, x) \notin S BY <2>1, <2>4 DEF Lists, Founded
  <2> QED BY <1>2, <2>1, <2>3, <2>4, <2>5
<1> QED BY <1>1, <1>6, <1>7, <1>8, <1>9 DEF Lists

---------------------------------------------------------------------------
(* The four primitive operations.                                          *)

SoundHeaps(H) == {h \in Heaps : Tiles(h, H) /\ Lists(h)}

\* The bytes of a block of that size, its tags included.
Region(start, size) == start .. start + SERVICE_FIELDS_SIZE + size - 1

\* One block is changed, the others are the same.
Retagged(g, h, a, signature, size) ==
  /\ g.head[a].signature = signature /\ g.head[a].size = size
  /\ \A b \in Addr \ {a} : Same(g, h, b)

LEMMA CreateFields ==
  ASSUME NEW h \in Heaps, NEW signature \in {"data", "void"}, NEW start \in Addr,
         NEW size \in 0 .. KHEAP_END - KHEAP_START, start + LEFT_EDGE_SIZE + size \in Addr
  PROVE  LET g == create_block(h, signature, start, size)
             tag == [signature |-> signature, size |-> size, left |-> NULL, right |-> NULL]
         IN  /\ g \in Heaps /\ g.root = h.root
             /\ g.head[start] = tag /\ g.foot[start + LEFT_EDGE_SIZE + size] = tag
             /\ \A b \in Addr \ {start} : g.head[b] = h.head[b]
             /\ \A x \in Addr \ {start + LEFT_EDGE_SIZE + size} : g.foot[x] = h.foot[x]
<1> DEFINE tag == [signature |-> signature, size |-> size, left |-> NULL, right |-> NULL]
<1>1. tag \in Tag BY DEF Tag
<1> QED BY <1>1 DEF create_block, get_data_ptr, Heaps

LEMMA EraseFields ==
  ASSUME NEW h \in Heaps, NEW a \in Addr, get_block_end(h, a) - RIGHT_EDGE_SIZE \in Addr
  PROVE  LET g == heap_block_erase(h, a)
         IN  /\ g \in Heaps /\ g.root = h.root
             /\ g.head[a] = NoTag
             /\ \A b \in Addr \ {a} : g.head[b] = h.head[b]
             /\ \A x \in Addr \ {get_block_end(h, a) - RIGHT_EDGE_SIZE} : g.foot[x] = h.foot[x]
<1>1. NoTag \in Tag BY Layout DEF NoTag, Tag
<1>2. get_data_ptr(a) + h.head[a].size = get_block_end(h, a) - RIGHT_EDGE_SIZE
  BY BlockEnds, Layout DEF get_data_ptr
<1> QED BY <1>1, <1>2 DEF heap_block_erase, Heaps

LEMMA RegionIsBody ==
  ASSUME NEW g \in Heaps, NEW a \in Addr
  PROVE  /\ Body(g, a) = Region(a, g.head[a].size)
         /\ get_block_end(g, a) - RIGHT_EDGE_SIZE = a + LEFT_EDGE_SIZE + g.head[a].size
         /\ get_block_end(g, a) = a + SERVICE_FIELDS_SIZE + g.head[a].size
<1>1. get_block_end(g, a) = a + LEFT_EDGE_SIZE + RIGHT_EDGE_SIZE + g.head[a].size /\ g.head[a].size \in Nat
  BY BlockEnds
<1>2. get_block_end(g, a) = a + SERVICE_FIELDS_SIZE + g.head[a].size BY <1>1, Layout
<1> QED BY <1>1, <1>2, Layout DEF Body, Region

\* A region within the arena has room for its tags there.
LEMMA RegionFits ==
  ASSUME NEW start \in Addr, NEW size \in Nat, Region(start, size) \subseteq Arena
  PROVE  size \in 0 .. KHEAP_END - KHEAP_START /\ start + LEFT_EDGE_SIZE + size \in Addr
<1>1. start + SERVICE_FIELDS_SIZE + size - 1 \in Region(start, size) BY Layout DEF Region
<1>2. start + SERVICE_FIELDS_SIZE + size - 1 \in Arena BY <1>1
<1> QED BY <1>2, Layout DEF Arena, Addr

LEMMA EndsInArena ==
  ASSUME NEW h \in Heaps, NEW H, Tiles(h, H), NEW a \in BlocksOf(h)
  PROVE  a \in Addr /\ get_block_end(h, a) - RIGHT_EDGE_SIZE \in Addr
<1>1. a \in Addr BY DEF BlocksOf
<1>2. get_block_end(h, a) - RIGHT_EDGE_SIZE \in Arena BY <1>1, BlockEnds DEF Tiles
<1> QED BY <1>1, <1>2, Layout DEF Arena, Addr

LEMMA DataCreated ==
  ASSUME NEW H \in SUBSET Arena, NEW h \in SoundHeaps(H), NEW start \in Addr, NEW size \in Nat,
         Region(start, size) \subseteq H
  PROVE  LET g == create_block(h, "data", start, size)
         IN  /\ g \in SoundHeaps(H \ Region(start, size))
             /\ Retagged(g, h, start, "data", size)
             /\ start \notin BlocksOf(h)
<1> DEFINE g == create_block(h, "data", start, size)
           x == start + LEFT_EDGE_SIZE + size
<1>0. h \in Heaps /\ Tiles(h, H) /\ Lists(h) BY DEF SoundHeaps
<1>1. size \in 0 .. KHEAP_END - KHEAP_START /\ x \in Addr BY RegionFits
<1> DEFINE tag == [signature |-> "data", size |-> size, left |-> NULL, right |-> NULL]
<1>a. /\ g \in Heaps /\ g.root = h.root /\ g.head[start] = tag /\ g.foot[x] = tag
      /\ \A b \in Addr \ {start} : g.head[b] = h.head[b]
      /\ \A y \in Addr \ {x} : g.foot[y] = h.foot[y]
  BY <1>0, <1>1, CreateFields
<1> HIDE DEF g
<1>2. /\ g \in Heaps /\ g.root = h.root
      /\ g.head[start].signature = "data" /\ g.head[start].size = size
      /\ g.foot[x].signature = "data" /\ g.foot[x].size = size
      /\ \A b \in Addr \ {start} : g.head[b] = h.head[b]
      /\ \A y \in Addr \ {x} : g.foot[y] = h.foot[y]
  BY <1>a
<1>3. Body(g, start) = Region(start, size) /\ get_block_end(g, start) - RIGHT_EDGE_SIZE = x
  BY <1>2, RegionIsBody
<1>4. \A b \in Addr \ {start} : Same(g, h, b) BY <1>2 DEF Same
<1>5. Tiles(g, H \ Region(start, size)) /\ start \notin BlocksOf(h)
  <2>1. g.head[start].signature # "none" BY <1>2
  <2> HIDE DEF x
  <2> QED BY <1>0, <1>2, <1>3, <1>4, <2>1, TilesCreated
<1>6. h.head[start].signature = "none" BY <1>5 DEF BlocksOf
<1>7. Lists(g) BY <1>0, <1>2, <1>6, ListsSame
<1> QED BY <1>2, <1>4, <1>5, <1>7 DEF SoundHeaps, Retagged, g

LEMMA DataErased ==
  ASSUME NEW H, NEW h \in SoundHeaps(H), NEW a \in Addr, h.head[a].signature = "data"
  PROVE  LET g == heap_block_erase(h, a)
         IN  g \in SoundHeaps(H \cup Body(h, a)) /\ Retagged(g, h, a, "none", 0)
<1> DEFINE g == heap_block_erase(h, a)
<1>0. h \in Heaps /\ Tiles(h, H) /\ Lists(h) /\ a \in BlocksOf(h) BY DEF SoundHeaps, BlocksOf
<1>1. /\ g \in Heaps /\ g.root = h.root
      /\ g.head[a].signature = "none" /\ g.head[a].size = 0
      /\ \A b \in Addr \ {a} : g.head[b] = h.head[b]
      /\ \A x \in Addr \ {get_block_end(h, a) - RIGHT_EDGE_SIZE} : g.foot[x] = h.foot[x]
  BY <1>0, EndsInArena, EraseFields DEF NoTag
<1> HIDE DEF g
<1>2. \A b \in Addr \ {a} : Same(g, h, b) BY <1>1 DEF Same
<1>3. Tiles(g, H \cup Body(h, a)) BY <1>0, <1>1, <1>2, TilesErased
<1>4. Lists(g) BY <1>0, <1>1, ListsSame
<1> QED BY <1>1, <1>2, <1>3, <1>4 DEF SoundHeaps, Retagged, g

LEMMA VoidErased ==
  ASSUME NEW H, NEW h \in SoundHeaps(H), NEW c \in voids(h)
  PROVE  LET g == heap_void_bucket_erase(h, bucket_of(h, c), c)
         IN  g \in SoundHeaps(H \cup Body(h, c)) /\ Retagged(g, h, c, "none", 0)
<1> DEFINE i == bucket_of(h, c)
           u == [h EXCEPT !.root[i] = IF @ = c THEN R(h, c) ELSE @,
                          !.head = [a \in Addr |->
                             [h.head[a] EXCEPT !.right = IF a = L(h, c) THEN R(h, c) ELSE @,
                                               !.left = IF a = R(h, c) THEN L(h, c) ELSE @]]]
           g == heap_block_erase(u, c)
<1>0. h \in Heaps /\ Tiles(h, H) /\ Lists(h) /\ c \in BlocksOf(h) /\ c \in Addr
  BY DEF SoundHeaps, BlocksOf, voids
<1>1. g = heap_void_bucket_erase(h, bucket_of(h, c), c) BY DEF heap_void_bucket_erase, L, R
<1>2. i \in Buckets BY <1>0, SizesInBuckets
<1> HIDE DEF i
<1>3. \A a \in Addr : h.head[a] \in Tag /\ L(h, a) \in Addr \cup {NULL} /\ R(h, a) \in Addr \cup {NULL}
  BY <1>0 DEF Heaps, Tag, L, R
<1>4. /\ u \in Heaps /\ u.foot = h.foot
      /\ \A j \in Buckets : u.root[j] = IF j = i /\ h.root[j] = c THEN R(h, c) ELSE h.root[j]
      /\ \A a \in Addr :
           /\ Same(u, h, a)
           /\ R(u, a) = IF a = L(h, c) THEN R(h, c) ELSE R(h, a)
           /\ L(u, a) = IF a = R(h, c) THEN L(h, c) ELSE L(h, a)
  <2> DEFINE T(a) == [h.head[a] EXCEPT !.right = IF a = L(h, c) THEN R(h, c) ELSE @,
                                       !.left = IF a = R(h, c) THEN L(h, c) ELSE @]
  <2>1. \A a \in Addr :
          /\ T(a) \in Tag
          /\ T(a).signature = h.head[a].signature /\ T(a).size = h.head[a].size
          /\ T(a).right = IF a = L(h, c) THEN R(h, c) ELSE R(h, a)
          /\ T(a).left = IF a = R(h, c) THEN L(h, c) ELSE L(h, a)
    BY <1>0, <1>3 DEF Tag, L, R
  <2> DEFINE links == [a \in Addr |-> T(a)]
             first == IF h.root[i] = c THEN R(h, c) ELSE h.root[i]
  <2>2. links \in [Addr -> Tag] /\ \A a \in Addr : links[a] = T(a) BY <2>1
  <2>3. first \in Addr \cup {NULL} BY <1>0, <1>2, <1>3 DEF Heaps
  <2>4. u = [h EXCEPT !.root[i] = first, !.head = links] OBVIOUS
  <2> HIDE DEF u, links, T
  <2> HIDE DEF first
  <2> DEFINE w == [h EXCEPT !.root[i] = first, !.head = links]
  <2>6. /\ w \in Heaps /\ w.head = links /\ w.foot = h.foot
        /\ \A j \in Buckets : w.root[j] = IF j = i THEN first ELSE h.root[j]
    BY <1>0, <1>2, <2>2, <2>3 DEF Heaps
  <2> HIDE DEF w
  <2>7. u = w BY <2>4 DEF w
  <2>5. /\ u \in Heaps /\ u.head = links /\ u.foot = h.foot
        /\ \A j \in Buckets : u.root[j] = IF j = i THEN first ELSE h.root[j]
    BY <2>6, <2>7
  <2> QED BY <2>1, <2>2, <2>5 DEF Same, R, L, first
<1> HIDE DEF u
<1>5. get_block_end(u, c) = get_block_end(h, c) BY <1>0, <1>4 DEF Same, get_block_end
<1>6. get_block_end(h, c) - RIGHT_EDGE_SIZE \in Addr BY <1>0, EndsInArena
<1>7. /\ g \in Heaps /\ g.root = u.root
      /\ g.head[c].signature = "none" /\ g.head[c].size = 0
      /\ \A b \in Addr \ {c} : g.head[b] = u.head[b]
      /\ \A x \in Addr \ {get_block_end(h, c) - RIGHT_EDGE_SIZE} : g.foot[x] = h.foot[x]
  BY <1>0, <1>4, <1>5, <1>6, EraseFields DEF NoTag
<1> HIDE DEF g
<1>8. \A b \in Addr \ {c} :
        /\ Same(g, h, b)
        /\ R(g, b) = IF b = L(h, c) THEN R(h, c) ELSE R(h, b)
        /\ L(g, b) = IF b = R(h, c) THEN L(h, c) ELSE L(h, b)
  BY <1>4, <1>7 DEF Same, R, L
<1>9. Tiles(g, H \cup Body(h, c)) BY <1>0, <1>7, <1>8, TilesErased
<1>10. Lists(g)
  <2>1. g.head[c].signature # "void" BY <1>7
  <2>2. \A j \in Buckets :
          g.root[j] = IF j = bucket_of(h, c) /\ h.root[j] = c THEN R(h, c) ELSE h.root[j]
    BY <1>4, <1>7 DEF i
  <2> QED BY <1>0, <1>7, <1>8, <2>1, <2>2, ListsUnlinked
<1> QED BY <1>1, <1>7, <1>8, <1>9, <1>10 DEF SoundHeaps, Retagged

LEMMA VoidAdded ==
  ASSUME NEW H \in SUBSET Arena, NEW h \in SoundHeaps(H), NEW start \in Addr, NEW size \in Nat,
         Region(start, size) \subseteq H
  PROVE  LET g == add_void(h, start, size)
         IN  /\ g \in SoundHeaps(H \ Region(start, size))
             /\ Retagged(g, h, start, "void", size)
             /\ start \notin BlocksOf(h)
<1> DEFINE i == get_void_block_size_index(size)
           next == h.root[i]
           x == start + LEFT_EDGE_SIZE + size
           new == create_block(h, "void", start, size)
           g == [new EXCEPT !.root[i] = start,
                            !.head = [a \in Addr |->
                              [new.head[a] EXCEPT !.right = IF a = start THEN next ELSE @,
                                                  !.left = IF a = next THEN start ELSE @]]]
<1>0. h \in Heaps /\ Tiles(h, H) /\ Lists(h) BY DEF SoundHeaps
<1>1. size \in 0 .. KHEAP_END - KHEAP_START /\ x \in Addr BY RegionFits
<1>2. /\ new \in Heaps /\ new.root = h.root
      /\ new.head[start] = [signature |-> "void", size |-> size, left |-> NULL, right |-> NULL]
      /\ new.foot[x].signature = "void" /\ new.foot[x].size = size
      /\ \A b \in Addr \ {start} : new.head[b] = h.head[b]
      /\ \A y \in Addr \ {x} : new.foot[y] = h.foot[y]
  BY <1>0, <1>1, CreateFields
<1>3. g = add_void(h, start, size) BY DEF add_void
<1> HIDE DEF new
<1>4. new.head[start].size = size /\ i = bucket_of(new, start) BY <1>2 DEF bucket_of
<1>5. i \in Buckets BY <1>2, <1>4, SizesInBuckets
<1> HIDE DEF i
<1>6. next \in Addr \cup {NULL} BY <1>0, <1>5 DEF Heaps
<1>7. start \notin BlocksOf(h) /\ h.head[start].signature = "none"
  <2>1. start \in Region(start, size) BY Layout DEF Region
  <2>2. start \notin BlocksOf(h) BY <1>0, <2>1, BlocksInside
  <2> QED BY <2>2 DEF BlocksOf
<1>8. next # start
  <2>1. next # NULL => next \in voids(h) BY <1>0, <1>5 DEF Lists, Rooted
  <2> QED BY <1>7, <2>1, Layout DEF voids
<1> HIDE DEF next
<1>9. /\ g \in Heaps /\ g.foot = new.foot
      /\ \A j \in Buckets : g.root[j] = IF j = i THEN start ELSE h.root[j]
      /\ \A a \in Addr :
           /\ Same(g, new, a)
           /\ R(g, a) = IF a = start THEN next ELSE R(new, a)
           /\ L(g, a) = IF a = next THEN start ELSE L(new, a)
  <2> DEFINE T(a) == [new.head[a] EXCEPT !.right = IF a = start THEN next ELSE @,
                                         !.left = IF a = next THEN start ELSE @]
  <2>0. \A a \in Addr : new.head[a] \in Tag BY <1>2 DEF Heaps
  <2>1. \A a \in Addr :
          /\ T(a) \in Tag
          /\ T(a).signature = new.head[a].signature /\ T(a).size = new.head[a].size
          /\ T(a).right = IF a = start THEN next ELSE R(new, a)
          /\ T(a).left = IF a = next THEN start ELSE L(new, a)
    BY <1>6, <2>0 DEF Tag, L, R
  <2> DEFINE links == [a \in Addr |-> T(a)]
  <2>2. links \in [Addr -> Tag] /\ \A a \in Addr : links[a] = T(a) BY <2>1
  <2>3. g = [new EXCEPT !.root[i] = start, !.head = links] OBVIOUS
  <2> HIDE DEF g, links, T
  <2> DEFINE w == [new EXCEPT !.root[i] = start, !.head = links]
  <2>5. /\ w \in Heaps /\ w.head = links /\ w.foot = new.foot
        /\ \A j \in Buckets : w.root[j] = IF j = i THEN start ELSE new.root[j]
    BY <1>2, <1>5, <2>2 DEF Heaps
  <2> HIDE DEF w
  <2>6. g = w BY <2>3 DEF w
  <2>4. /\ g \in Heaps /\ g.head = links /\ g.foot = new.foot
        /\ \A j \in Buckets : g.root[j] = IF j = i THEN start ELSE new.root[j]
    BY <2>5, <2>6
  <2> QED BY <1>2, <2>1, <2>2, <2>4 DEF Same, R, L
<1> HIDE DEF g
<1>10. /\ g.head[start].signature = "void" /\ g.head[start].size = size
       /\ L(g, start) = NULL /\ R(g, start) = next /\ bucket_of(g, start) = i
  <2>1. new.head[start].signature = "void" /\ L(new, start) = NULL BY <1>2 DEF L
  <2>2. g.head[start].size = size /\ g.head[start].signature = "void" BY <1>4, <1>9, <2>1 DEF Same
  <2> QED BY <1>8, <1>9, <2>1, <2>2 DEF bucket_of, i
<1>11. \A b \in Addr \ {start} :
        /\ Same(g, h, b)
        /\ R(g, b) = R(h, b)
        /\ L(g, b) = IF b = R(g, start) THEN start ELSE L(h, b)
  BY <1>2, <1>9, <1>10 DEF Same, R, L
<1>12. Body(g, start) = Region(start, size) /\ get_block_end(g, start) - RIGHT_EDGE_SIZE = x
  BY <1>9, <1>10, RegionIsBody
<1>13. Tiles(g, H \ Region(start, size))
  <2>1. g.head[start].signature # "none" BY <1>10
  <2>2. g.foot[x].signature = g.head[start].signature /\ g.foot[x].size = g.head[start].size
    BY <1>2, <1>9, <1>10
  <2>3. \A y \in Addr \ {x} : g.foot[y] = h.foot[y] BY <1>2, <1>9
  <2> HIDE DEF x
  <2> QED BY <1>0, <1>9, <1>11, <1>12, <2>1, <2>2, <2>3, TilesCreated
<1>14. Lists(g)
  <2>1. start \notin voids(h) BY <1>7 DEF voids
  <2>2. R(g, start) = h.root[bucket_of(g, start)] BY <1>10 DEF next
  <2>3. \A j \in Buckets : g.root[j] = IF j = bucket_of(g, start) THEN start ELSE h.root[j]
    BY <1>9, <1>10
  <2> QED BY <1>0, <1>9, <1>10, <1>11, <2>1, <2>2, <2>3, ListsLinked
<1> QED BY <1>3, <1>7, <1>9, <1>10, <1>11, <1>13, <1>14 DEF SoundHeaps, Retagged

---------------------------------------------------------------------------
(* Neighbours.                                                             *)

Data(h) == {a \in Addr : h.head[a].signature = "data"}

LEMMA Kinds ==
  ASSUME NEW h \in Heaps
  PROVE  /\ BlocksOf(h) = Data(h) \cup voids(h) /\ Data(h) \cap voids(h) = {}
         /\ BlocksOf(h) \subseteq Addr
BY DEF Heaps, Tag, BlocksOf, Data, voids

LEMMA UniqueEnd ==
  ASSUME NEW H, NEW h \in SoundHeaps(H), NEW a \in BlocksOf(h), NEW b \in BlocksOf(h),
         get_block_end(h, a) = get_block_end(h, b)
  PROVE  a = b
<1>1. h \in Heaps /\ Tiles(h, H) /\ a \in Addr /\ b \in Addr BY DEF SoundHeaps, BlocksOf
<1>2. get_block_end(h, a) - RIGHT_EDGE_SIZE \in Body(h, a)
      /\ get_block_end(h, a) - RIGHT_EDGE_SIZE \in Body(h, b)
  BY <1>1, BlockEnds
<1> QED BY <1>1, <1>2, BodiesApart

\* Where a block ends and somebody's bytes follow, the next block starts.
LEMMA BlockAfter ==
  ASSUME NEW H, NEW h \in SoundHeaps(H), NEW a \in BlocksOf(h), get_block_end(h, a) \in Arena \ H
  PROVE  get_block_end(h, a) \in BlocksOf(h)
<1> DEFINE x == get_block_end(h, a)
<1>1. h \in Heaps /\ Tiles(h, H) /\ a \in Addr BY DEF SoundHeaps, BlocksOf
<1>2. PICK b \in BlocksOf(h) : x \in Body(h, b) BY <1>1 DEF Tiles
<1>3. b \in Addr BY DEF BlocksOf
<1>4. x - 1 \in Body(h, a) /\ x \notin Body(h, a) BY <1>1, BlockEnds DEF Body
<1>5. x - 1 \notin Body(h, b) BY <1>1, <1>2, <1>4, BodiesApart
<1>6. b = x BY <1>1, <1>2, <1>3, <1>5, BlockEnds DEF Body
<1> QED BY <1>2, <1>6

\* The block before an address is found by the tag at its end.
LEMMA BlockBefore ==
  ASSUME NEW H, NEW h \in SoundHeaps(H), NEW x \in Addr, x - 1 \in Arena \ H,
         x \in H \cup BlocksOf(h) \cup {KHEAP_END}
  PROVE  LET b == get_block_start(h, x)
         IN  /\ b \in BlocksOf(h) /\ b \in Addr /\ get_block_end(h, b) = x /\ b < x
             /\ h.foot[x - RIGHT_EDGE_SIZE].signature = h.head[b].signature
<1>1. h \in Heaps /\ Tiles(h, H) /\ x \in Nat BY Layout DEF SoundHeaps
<1>2. PICK b \in BlocksOf(h) : x - 1 \in Body(h, b) BY <1>1 DEF Tiles
<1>3. b \in Addr /\ get_block_end(h, b) <= KHEAP_END BY <1>1, BlocksInside
<1>4. b < x /\ x <= get_block_end(h, b) BY <1>1, <1>2, <1>3, BlockEnds DEF Body
<1>5. x \notin Body(h, b)
  <2>1. CASE x \in H BY <1>1, <2>1 DEF Tiles
  <2>2. CASE x \in BlocksOf(h)
    <3>1. x \in Body(h, x) BY <1>1, BlockEnds
    <3>2. x # b BY <1>4, <1>1
    <3> QED BY <1>1, <2>2, <3>1, <3>2, BodiesApart
  <2>3. CASE x = KHEAP_END BY <1>1, <1>3, <2>3, BlockEnds, Layout DEF Body
  <2> QED BY <2>1, <2>2, <2>3
<1>6. get_block_end(h, b) = x BY <1>1, <1>3, <1>4, <1>5, BlockEnds DEF Body
<1>7. h.foot[x - RIGHT_EDGE_SIZE].signature = h.head[b].signature
      /\ h.foot[x - RIGHT_EDGE_SIZE].size = h.head[b].size
  BY <1>1, <1>6 DEF Tiles
<1>8. get_block_start(h, x) = b
  BY <1>1, <1>3, <1>6, <1>7, BlockEnds, Layout DEF get_block_start
<1> QED BY <1>2, <1>3, <1>4, <1>6, <1>7, <1>8

---------------------------------------------------------------------------
(* Heaps between two calls.                                                *)

Guarded(h) ==
  /\ Guards \subseteq Data(h)
  /\ h.head[KHEAP_END - SERVICE_FIELDS_SIZE].size = 0

Separated(h) ==
  \A a \in voids(h) : h.head[a].size > 0 /\ get_block_end(h, a) \notin voids(h)

GoodHeaps == {h \in SoundHeaps({}) : Guarded(h) /\ Separated(h)}

LEMMA GuardsAre ==
  /\ KHEAP_START \in Guards /\ KHEAP_END - SERVICE_FIELDS_SIZE \in Guards
  /\ Guards \subseteq Addr
BY Layout DEF Guards, Addr

\* A block is the same in two heaps, its end included.
LEMMA SameEnds ==
  ASSUME NEW g, NEW h, NEW a, Same(g, h, a)
  PROVE  get_block_end(g, a) = get_block_end(h, a) /\ g.head[a].size = h.head[a].size
BY DEF Same, get_block_end

\* A data block is created at the front of free bytes, and takes all of them
\* unless another void fits behind it.
Carve(h, lo, hi, size) ==
  LET left == hi - lo - SERVICE_FIELDS_SIZE - size - SERVICE_FIELDS_SIZE
  IN  IF left <= 0 THEN create_block(h, "data", lo, hi - lo - SERVICE_FIELDS_SIZE)
      ELSE add_void(create_block(h, "data", lo, size), lo + SERVICE_FIELDS_SIZE + size, left)

IsCarved(g, h, lo, hi, size) ==
  /\ g \in SoundHeaps({}) /\ Separated(g)
  /\ Data(g) = Data(h) \cup {lo} /\ lo \notin BlocksOf(h)
  /\ g.head[lo].size >= size
  /\ \A a \in Data(h) : Same(g, h, a)
  /\ \A a \in voids(g) : (a \in voids(h) /\ Same(g, h, a)) \/ get_block_end(g, a) = hi

LEMMA Carved ==
  ASSUME NEW lo \in Addr, NEW hi \in Nat, hi <= KHEAP_END,
         NEW h \in SoundHeaps(lo .. hi - 1), Separated(h), hi \notin voids(h),
         NEW size \in Nat, size <= hi - lo - SERVICE_FIELDS_SIZE
  PROVE  IsCarved(Carve(h, lo, hi, size), h, lo, hi, size)
<1> DEFINE H == lo .. hi - 1
           left == hi - lo - SERVICE_FIELDS_SIZE - size - SERVICE_FIELDS_SIZE
           all == create_block(h, "data", lo, hi - lo - SERVICE_FIELDS_SIZE)
           some == create_block(h, "data", lo, size)
           rest == lo + SERVICE_FIELDS_SIZE + size
           g == add_void(some, rest, left)
<1>0. lo \in Nat /\ H \in SUBSET Arena /\ h \in Heaps BY Layout DEF Addr, Arena, SoundHeaps
<1>1. CASE left <= 0
  <2>1. hi - lo - SERVICE_FIELDS_SIZE \in Nat BY <1>0, Layout
  <2>2. Region(lo, hi - lo - SERVICE_FIELDS_SIZE) = H BY <1>0, Layout DEF Region
  <2>3. all \in SoundHeaps(H \ H) /\ Retagged(all, h, lo, "data", hi - lo - SERVICE_FIELDS_SIZE)
        /\ lo \notin BlocksOf(h)
    BY <1>0, <2>1, <2>2, DataCreated
  <2> HIDE DEF all
  <2>4. all \in SoundHeaps({}) /\ all \in Heaps BY <2>3 DEF SoundHeaps
  <2>5. /\ Data(all) = Data(h) \cup {lo} /\ voids(all) = voids(h)
        /\ \A a \in Data(h) : Same(all, h, a)
        /\ \A a \in voids(h) : Same(all, h, a)
    BY <2>3 DEF Retagged, Same, Data, voids, BlocksOf
  <2>6. Separated(all) BY <2>5, SameEnds DEF Separated
  <2>7. all.head[lo].size >= size BY <2>3 DEF Retagged
  <2>8. Carve(h, lo, hi, size) = all BY <1>1 DEF Carve, all
  <2> QED BY <2>3, <2>4, <2>5, <2>6, <2>7, <2>8 DEF IsCarved
<1>2. CASE ~ (left <= 0)
  <2>1. left \in Nat /\ left > 0 /\ rest \in Addr /\ rest > lo /\ rest \in Nat
    BY <1>0, <1>2, Layout DEF Addr
  <2>2. /\ Region(lo, size) \subseteq H /\ Region(rest, left) \subseteq H \ Region(lo, size)
        /\ (H \ Region(lo, size)) \ Region(rest, left) = {}
    BY <1>0, <2>1, Layout DEF Region
  <2>3. some \in SoundHeaps(H \ Region(lo, size)) /\ Retagged(some, h, lo, "data", size)
        /\ lo \notin BlocksOf(h)
    BY <1>0, <2>2, DataCreated
  <2>4. H \ Region(lo, size) \in SUBSET Arena BY <1>0
  <2> HIDE DEF some, rest, left, H
  <2>5. g \in SoundHeaps({}) /\ Retagged(g, some, rest, "void", left) /\ rest \notin BlocksOf(some)
    BY <2>1, <2>2, <2>3, <2>4, VoidAdded
  <2> HIDE DEF g
  <2>6. g \in Heaps /\ some \in Heaps BY <2>3, <2>5 DEF SoundHeaps
  <2>7. /\ Data(some) = Data(h) \cup {lo} /\ voids(some) = voids(h)
        /\ \A a \in Data(h) : Same(some, h, a) /\ a # lo
        /\ \A a \in voids(h) : Same(some, h, a) /\ a # lo
        /\ some.head[lo].size = size
    BY <2>3 DEF Retagged, Same, Data, voids, BlocksOf
  <2>8. /\ Data(g) = Data(some) /\ voids(g) = voids(some) \cup {rest}
        /\ \A a \in Data(some) : Same(g, some, a)
        /\ \A a \in voids(some) : Same(g, some, a)
        /\ g.head[rest].size = left
    BY <2>1, <2>5 DEF Retagged, Same, Data, voids, BlocksOf
  <2>9. /\ \A a \in Data(h) : Same(g, h, a)
        /\ \A a \in voids(h) : Same(g, h, a)
        /\ g.head[lo].size = size
    BY <2>7, <2>8 DEF Same
  <2>10. get_block_end(g, rest) = hi /\ get_block_end(g, lo) = rest
    <3>1. g.head[rest].size = left /\ g.head[lo].size = size BY <2>8, <2>9
    <3>2. get_block_end(g, rest) = rest + SERVICE_FIELDS_SIZE + left
          /\ get_block_end(g, lo) = lo + SERVICE_FIELDS_SIZE + size
      BY <3>1 DEF get_block_end
    <3> HIDE DEF g
    <3> QED BY <1>0, <3>2, Layout DEF rest, left
  <2>11. \A a \in voids(h) : a \in BlocksOf(g) /\ lo \in BlocksOf(g) /\ a # lo
    BY <2>6, <2>7, <2>8, Kinds
  <2>12. \A a \in voids(h) : get_block_end(g, a) # rest BY <2>5, <2>10, <2>11, UniqueEnd
  <2>13. ASSUME NEW a \in voids(g) PROVE g.head[a].size > 0 /\ get_block_end(g, a) \notin voids(g)
    <3>1. CASE a = rest
      <4>1. hi # rest BY <2>1, <2>6, <2>10, BlockEnds
      <4> QED BY <2>1, <2>7, <2>8, <2>10, <3>1, <4>1
    <3>2. CASE a # rest
      <4>1. a \in voids(h) /\ Same(g, h, a) BY <2>7, <2>8, <2>9, <3>2
      <4>2. h.head[a].size > 0 /\ get_block_end(h, a) \notin voids(h) BY <4>1 DEF Separated
      <4> QED BY <2>7, <2>8, <2>12, <4>1, <4>2, SameEnds
    <3> QED BY <3>1, <3>2
  <2>14. \A a \in voids(g) : (a \in voids(h) /\ Same(g, h, a)) \/ get_block_end(g, a) = hi
    BY <2>7, <2>8, <2>9, <2>10
  <2>15. g.head[lo].size >= size BY <2>9
  <2>16. Separated(g) BY <2>13 DEF Separated
  <2>17. Data(g) = Data(h) \cup {lo} BY <2>7, <2>8
  <2>18. Carve(h, lo, hi, size) = g BY <1>2 DEF Carve, g, some, rest, left
  <2> QED BY <2>3, <2>5, <2>9, <2>14, <2>15, <2>16, <2>17, <2>18 DEF IsCarved
<1> QED BY <1>1, <1>2

LEMMA TakeVoid ==
  ASSUME NEW h \in GoodHeaps, NEW n \in voids(h), NEW size \in Nat, h.head[n].size >= size
  PROVE  LET g == take_void(h, bucket_of(h, n), n, size)
         IN  /\ g \in GoodHeaps /\ Data(g) = Data(h) \cup {n} /\ n \notin Data(h)
             /\ g.head[n].size >= size
             /\ \A a \in Data(h) : Same(g, h, a)
             /\ \A a \in voids(g) : get_block_end(g, a) # n
<1> DEFINE e == heap_void_bucket_erase(h, bucket_of(h, n), n)
           hi == get_block_end(h, n)
           g == take_void(h, bucket_of(h, n), n, size)
<1>0. /\ h \in SoundHeaps({}) /\ h \in Heaps /\ Tiles(h, {}) /\ Guarded(h) /\ Separated(h)
      /\ n \in Addr /\ n \in BlocksOf(h) /\ n \notin Data(h)
  BY DEF GoodHeaps, SoundHeaps, voids, BlocksOf, Data
<1>1. e \in SoundHeaps({} \cup Body(h, n)) /\ Retagged(e, h, n, "none", 0) BY <1>0, VoidErased
<1>2. /\ Body(h, n) = n .. hi - 1 /\ hi \in Nat /\ hi <= KHEAP_END /\ n \in Nat
      /\ hi = n + SERVICE_FIELDS_SIZE + h.head[n].size /\ h.head[n].size \in Nat
  BY <1>0, BlockEnds, BlocksInside, RegionIsBody DEF Body
<1>3. e \in SoundHeaps(n .. hi - 1) BY <1>1, <1>2
<1> HIDE DEF hi
<1>4. g = Carve(e, n, hi, size)
  <2>1. /\ hi - n - SERVICE_FIELDS_SIZE = h.head[n].size
        /\ hi - n - SERVICE_FIELDS_SIZE - size - SERVICE_FIELDS_SIZE
             = h.head[n].size - size - SERVICE_FIELDS_SIZE
    <3> DEFINE s == h.head[n].size
    <3>1. hi = n + SERVICE_FIELDS_SIZE + s /\ s \in Nat /\ n \in Nat BY <1>2
    <3> HIDE DEF s
    <3>2. hi - n - SERVICE_FIELDS_SIZE = s
          /\ hi - n - SERVICE_FIELDS_SIZE - size - SERVICE_FIELDS_SIZE = s - size - SERVICE_FIELDS_SIZE
      BY <3>1, Layout
    <3> QED BY <3>2 DEF s
  <2> HIDE DEF e
  <2> QED BY <2>1 DEF take_void, e, Carve
<1> HIDE DEF e, g
<1>5. /\ voids(e) = voids(h) \ {n} /\ Data(e) = Data(h)
      /\ \A a \in voids(e) : Same(e, h, a) /\ a \in voids(h)
      /\ \A a \in Data(h) : Same(e, h, a)
  BY <1>0, <1>1 DEF Retagged, Same, Data, voids
<1>6. Separated(e) BY <1>0, <1>5, SameEnds DEF Separated
<1>7. hi \notin voids(e) BY <1>0, <1>5 DEF Separated, hi
<1>8. size <= hi - n - SERVICE_FIELDS_SIZE
  <2>1. hi - n - SERVICE_FIELDS_SIZE = h.head[n].size
    <3> DEFINE s == h.head[n].size
    <3>1. hi = n + SERVICE_FIELDS_SIZE + s /\ s \in Nat /\ n \in Nat BY <1>2
    <3> HIDE DEF s, hi
    <3>2. hi - n - SERVICE_FIELDS_SIZE = s BY <3>1, ServiceFields
    <3> QED BY <3>2 DEF s
  <2> HIDE DEF hi
  <2> QED BY <2>1
<1>9. /\ g \in SoundHeaps({}) /\ Separated(g)
      /\ Data(g) = Data(e) \cup {n}
      /\ g.head[n].size >= size
      /\ \A a \in Data(e) : Same(g, e, a)
      /\ \A a \in voids(g) : (a \in voids(e) /\ Same(g, e, a)) \/ get_block_end(g, a) = hi
  <2>1. IsCarved(Carve(e, n, hi, size), e, n, hi, size) BY <1>0, <1>2, <1>3, <1>6, <1>7, <1>8, Carved
  <2>2. IsCarved(g, e, n, hi, size) BY <1>4, <2>1
  <2> QED BY <2>2 DEF IsCarved
<1>10. \A a \in Data(h) : Same(g, h, a)
  <2>1. \A a \in Data(h) : Same(g, e, a) /\ Same(e, h, a) BY <1>5, <1>9
  <2> QED BY <2>1 DEF Same
<1>11. Guarded(g) BY <1>0, <1>5, <1>9, <1>10, GuardsAre DEF Guarded, Same
<1>12. ASSUME NEW a \in voids(g) PROVE get_block_end(g, a) # n
  <2>1. CASE get_block_end(g, a) = hi BY <1>2, <2>1, Layout
  <2>2. CASE a \in voids(e) /\ Same(g, e, a)
    <3>1. get_block_end(g, a) = get_block_end(h, a) /\ a \in voids(h) BY <1>5, <2>2, SameEnds
    <3> QED BY <1>0, <3>1 DEF Separated
  <2> QED BY <1>9, <2>1, <2>2
<1> QED BY <1>0, <1>5, <1>9, <1>10, <1>11, <1>12 DEF GoodHeaps, g

---------------------------------------------------------------------------
(* The search.                                                             *)

Mine(h, i) == {a \in voids(h) : bucket_of(h, a) = i}

Walk(f, h, i, n) ==
  f = [k \in 0 .. n |-> IF k = 0 THEN h.root[i]
                        ELSE IF f[k - 1] = NULL THEN NULL ELSE h.head[f[k - 1]].right]

LEMMA WalkExists ==
  ASSUME NEW h, NEW i, NEW n \in Nat
  PROVE  \E f : Walk(f, h, i, n)
<1> DEFINE S == {m \in Nat : ~ \E f : Walk(f, h, i, m)}
           After(a) == IF a = NULL THEN NULL ELSE h.head[a].right
<1>1. SUFFICES ASSUME S # {} PROVE FALSE OBVIOUS
<1>2. PICK m \in S : \A j \in S : m <= j BY <1>1, LeastNat
<1>3. m \in Nat /\ ~ \E f : Walk(f, h, i, m) OBVIOUS
<1>4. \A f, k : Walk(f, h, i, k) <=> f = [j \in 0 .. k |-> IF j = 0 THEN h.root[i] ELSE After(f[j - 1])]
  BY DEF Walk
<1> HIDE DEF After
<1>5. CASE m = 0
  <2> DEFINE f == [k \in 0 .. 0 |-> h.root[i]]
  <2>1. \A k \in 0 .. 0 : k = 0 OBVIOUS
  <2>2. Walk(f, h, i, 0) BY <1>4, <2>1
  <2> QED BY <1>3, <1>5, <2>2
<1>6. CASE m > 0
  <2>1. m - 1 \in Nat /\ m - 1 \notin S BY <1>2, <1>3, <1>6
  <2>2. PICK f : Walk(f, h, i, m - 1) BY <2>1
  <2> DEFINE g == [k \in 0 .. m |-> IF k < m THEN f[k] ELSE After(f[m - 1])]
             w == [k \in 0 .. m |-> IF k = 0 THEN h.root[i] ELSE After(g[k - 1])]
  <2>3. \A k \in 0 .. m - 1 : f[k] = IF k = 0 THEN h.root[i] ELSE After(f[k - 1])
    BY <1>4, <2>2
  <2>4. ASSUME NEW k \in 0 .. m PROVE g[k] = w[k]
    <3>1. CASE k = 0 BY <1>3, <1>6, <2>3, <3>1
    <3>2. CASE k # 0
      <4>1. k - 1 \in 0 .. m - 1 /\ k - 1 \in 0 .. m BY <1>3, <3>2
      <4>2. g[k - 1] = f[k - 1] BY <1>3, <4>1
      <4>3. w[k] = After(f[k - 1]) BY <3>2, <4>2
      <4>4. CASE k = m BY <1>3, <4>3, <4>4
      <4>5. CASE k # m
        <5>1. k \in 0 .. m - 1 BY <1>3, <4>5
        <5>2. g[k] = f[k] BY <1>3, <5>1
        <5> QED BY <2>3, <3>2, <4>3, <5>1, <5>2
      <4> QED BY <4>4, <4>5
    <3> QED BY <3>1, <3>2
  <2>5. g = w BY <2>4
  <2>6. Walk(g, h, i, m) BY <1>4, <2>5
  <2> QED BY <1>3, <2>6
<1> QED BY <1>3, <1>5, <1>6

LEMMA VoidsFinite ==
  ASSUME NEW h
  PROVE  IsFiniteSet(voids(h)) /\ Cardinality(voids(h)) \in Nat
<1>1. IsFiniteSet(Addr) BY Layout, FS_Interval DEF Addr
<1>2. voids(h) \subseteq Addr BY DEF voids
<1> QED BY <1>1, <1>2, FS_Subset, FS_CardinalityType

LEMMA NodeSteps ==
  ASSUME NEW h, NEW i
  PROVE  LET n == Cardinality(voids(h))
             node == nodes(h, i)
         IN  /\ DOMAIN node = 0 .. n /\ n \in Nat
             /\ node[0] = h.root[i]
             /\ \A k \in 1 .. n :
                  node[k] = IF node[k - 1] = NULL THEN NULL ELSE R(h, node[k - 1])
<1> DEFINE n == Cardinality(voids(h))
           node == nodes(h, i)
<1>1. n \in Nat BY VoidsFinite
<1>2. PICK f : Walk(f, h, i, n) BY <1>1, WalkExists
<1>3. Walk(node, h, i, n) BY <1>2 DEF Walk, nodes
<1> HIDE DEF node
<1>4. /\ DOMAIN node = 0 .. n
      /\ \A k \in 0 .. n :
           node[k] = IF k = 0 THEN h.root[i]
                     ELSE IF node[k - 1] = NULL THEN NULL ELSE h.head[node[k - 1]].right
  BY <1>3 DEF Walk
<1>5. node[0] = h.root[i] BY <1>1, <1>4
<1>6. \A k \in 1 .. n : k \in 0 .. n /\ k # 0 BY <1>1
<1> QED BY <1>1, <1>4, <1>5, <1>6 DEF node, R

LEMMA MineAre ==
  ASSUME NEW h \in Heaps, NEW i, NEW a \in Mine(h, i)
  PROVE  /\ a \in voids(h) /\ a \in Addr /\ a # NULL /\ bucket_of(h, a) = i /\ i \in Buckets
BY SizesInBuckets, Layout DEF Mine, voids

\* The nodes are voids of the bucket, each after the one on its left.
LEMMA NodesMine ==
  ASSUME NEW h \in Heaps, Lists(h), NEW i \in Buckets, NEW k \in 0 .. Cardinality(voids(h)),
         nodes(h, i)[k] # NULL
  PROVE  /\ nodes(h, i)[k] \in Mine(h, i)
         /\ L(h, nodes(h, i)[k]) = IF k = 0 THEN NULL ELSE nodes(h, i)[k - 1]
         /\ k # 0 => nodes(h, i)[k - 1] # NULL
<1> DEFINE n == Cardinality(voids(h))
           node == nodes(h, i)
           Good(m) == /\ node[m] \in Mine(h, i)
                      /\ L(h, node[m]) = IF m = 0 THEN NULL ELSE node[m - 1]
                      /\ m # 0 => node[m - 1] # NULL
           S == {m \in 0 .. n : node[m] # NULL /\ ~ Good(m)}
<1>1. SUFFICES ASSUME S # {} PROVE FALSE OBVIOUS
<1>2. /\ n \in Nat /\ node[0] = h.root[i]
      /\ \A m \in 1 .. n : node[m] = IF node[m - 1] = NULL THEN NULL ELSE R(h, node[m - 1])
  BY NodeSteps
<1> HIDE DEF node, n
<1>a. S \in SUBSET Nat BY <1>2
<1>b. \A m \in S : m \in 0 .. n /\ node[m] # NULL /\ ~ Good(m) OBVIOUS
<1>c. \A m \in 0 .. n : m \notin S /\ node[m] # NULL => Good(m) OBVIOUS
<1> HIDE DEF S
<1>3. PICK m \in S : \A j \in S : m <= j BY <1>1, <1>a, LeastNat
<1>4. m \in 0 .. n /\ node[m] # NULL /\ ~ Good(m) BY <1>b
<1>5. CASE m = 0
  <2>1. Good(0) BY <1>2, <1>4, <1>5 DEF Lists, Rooted, Mine
  <2> QED BY <1>4, <1>5, <2>1
<1>6. CASE m # 0
  <2>1. m \in 1 .. n /\ m - 1 \in 0 .. n /\ m - 1 \notin S BY <1>2, <1>3, <1>4, <1>6
  <2>2. node[m - 1] # NULL /\ node[m] = R(h, node[m - 1]) BY <1>2, <1>4, <2>1
  <2>3. Good(m - 1) BY <1>c, <2>1, <2>2
  <2>4. node[m - 1] \in voids(h) /\ bucket_of(h, node[m - 1]) = i BY <2>3, MineAre
  <2>5. node[m] \in voids(h) /\ bucket_of(h, node[m]) = i /\ L(h, node[m]) = node[m - 1]
    BY <1>4, <2>2, <2>4 DEF Lists, Righted
  <2> QED BY <1>4, <1>6, <2>2, <2>5 DEF Mine
<1> QED BY <1>5, <1>6

Passed(h, i, k) == {nodes(h, i)[j] : j \in 0 .. k - 1}

\* No node is passed twice.
LEMMA NodesDiffer ==
  ASSUME NEW h \in Heaps, Lists(h), NEW i \in Buckets, NEW k \in 0 .. Cardinality(voids(h)),
         nodes(h, i)[k] # NULL
  PROVE  nodes(h, i)[k] \notin Passed(h, i, k)
<1> DEFINE n == Cardinality(voids(h))
           node == nodes(h, i)
           S == {m \in 0 .. n : node[m] # NULL /\ \E j \in 0 .. m - 1 : node[j] = node[m]}
<1>1. SUFFICES ASSUME S # {} PROVE FALSE BY DEF Passed
<1>2. n \in Nat BY VoidsFinite
<1>3. \A m \in 0 .. n : node[m] # NULL =>
        /\ node[m] \in Mine(h, i)
        /\ L(h, node[m]) = IF m = 0 THEN NULL ELSE node[m - 1]
        /\ m # 0 => node[m - 1] # NULL
  BY NodesMine
<1> HIDE DEF node, n
<1>a. S \in SUBSET Nat BY <1>2
<1>b. \A m \in S : m \in 0 .. n /\ node[m] # NULL /\ \E j \in 0 .. m - 1 : node[j] = node[m] OBVIOUS
<1>c. \A m \in 0 .. n : node[m] # NULL /\ (\E j \in 0 .. m - 1 : node[j] = node[m]) => m \in S
  OBVIOUS
<1> HIDE DEF S
<1>4. PICK m \in S : \A j \in S : m <= j BY <1>1, <1>a, LeastNat
<1>5. m \in 0 .. n /\ node[m] # NULL BY <1>b
<1>6. PICK j \in 0 .. m - 1 : node[j] = node[m] BY <1>b
<1>7. m - 1 \in 0 .. n /\ m # 0 /\ j \in 0 .. n BY <1>2, <1>5, <1>6
<1>8. node[m - 1] # NULL /\ L(h, node[m]) = node[m - 1] BY <1>3, <1>5, <1>7
<1>9. j # 0 /\ L(h, node[j]) = node[j - 1] BY <1>3, <1>5, <1>6, <1>7, <1>8
<1>10. j - 1 \in 0 .. (m - 1) - 1 /\ node[j - 1] = node[m - 1] BY <1>5, <1>6, <1>8, <1>9
<1>11. m - 1 \in S BY <1>c, <1>7, <1>8, <1>10
<1> QED BY <1>4, <1>5, <1>11

LEMMA PassedCounted ==
  ASSUME NEW h \in Heaps, Lists(h), NEW i \in Buckets, NEW k \in 0 .. Cardinality(voids(h)) + 1,
         \A j \in 0 .. k - 1 : nodes(h, i)[j] # NULL
  PROVE  IsFiniteSet(Passed(h, i, k)) /\ Cardinality(Passed(h, i, k)) = k
<1> DEFINE P(m) == Passed(h, i, m)
           S == {m \in 0 .. k : ~ (IsFiniteSet(P(m)) /\ Cardinality(P(m)) = m)}
<1>1. SUFFICES ASSUME S # {} PROVE FALSE
  <2>1. k \in Nat BY VoidsFinite
  <2>2. k \in 0 .. k BY <2>1
  <2> QED BY <2>2
<1>2. Cardinality(voids(h)) \in Nat /\ k \in Nat BY VoidsFinite
<1>a. S \in SUBSET Nat BY <1>2
<1>b. \A m \in S : m \in 0 .. k /\ ~ (IsFiniteSet(P(m)) /\ Cardinality(P(m)) = m) OBVIOUS
<1>c. \A m \in 0 .. k : m \notin S => IsFiniteSet(P(m)) /\ Cardinality(P(m)) = m OBVIOUS
<1> HIDE DEF S
<1>3. PICK m \in S : \A j \in S : m <= j BY <1>1, <1>a, LeastNat
<1>4. m \in 0 .. k BY <1>b
<1>5. CASE m = 0
  <2>1. P(0) = {} BY DEF Passed
  <2> QED BY <1>b, <1>5, <2>1, FS_EmptySet
<1>6. CASE m # 0
  <2>1. m - 1 \in 0 .. k - 1 /\ m - 1 \in 0 .. k /\ m - 1 \in 0 .. Cardinality(voids(h)) /\ m - 1 \notin S
    BY <1>2, <1>3, <1>4, <1>6
  <2>2. IsFiniteSet(P(m - 1)) /\ Cardinality(P(m - 1)) = m - 1 BY <1>c, <2>1
  <2>3. nodes(h, i)[m - 1] \notin P(m - 1) BY <2>1, NodesDiffer
  <2>4. P(m) = P(m - 1) \cup {nodes(h, i)[m - 1]}
    <3>1. 0 .. m - 1 = (0 .. (m - 1) - 1) \cup {m - 1} BY <1>2, <1>4, <1>6
    <3> QED BY <3>1 DEF Passed
  <2> HIDE DEF P
  <2>5. IsFiniteSet(P(m)) /\ Cardinality(P(m)) = (m - 1) + 1 BY <2>2, <2>3, <2>4, FS_AddElement
  <2> QED BY <1>b, <1>4, <2>5
<1> QED BY <1>5, <1>6

\* Where the walk ends, it has passed the whole bucket.
LEMMA PassedAll ==
  ASSUME NEW h \in Heaps, Lists(h), NEW i \in Buckets, NEW k \in 0 .. Cardinality(voids(h)),
         nodes(h, i)[k] = NULL, \A j \in 0 .. k - 1 : nodes(h, i)[j] # NULL
  PROVE  Passed(h, i, k) = Mine(h, i)
<1> DEFINE n == Cardinality(voids(h))
           node == nodes(h, i)
           P == Passed(h, i, k)
           S == Mine(h, i) \ P
<1>1. /\ n \in Nat /\ node[0] = h.root[i]
      /\ \A m \in 1 .. n : node[m] = IF node[m - 1] = NULL THEN NULL ELSE R(h, node[m - 1])
  BY NodeSteps
<1>2. P \subseteq Mine(h, i)
  <2>1. \A j \in 0 .. k - 1 : j \in 0 .. n BY <1>1
  <2> QED BY <2>1, NodesMine DEF Passed
<1>3. SUFFICES ASSUME S # {} PROVE FALSE BY <1>2
<1>4. S \in SUBSET voids(h) BY DEF Mine
<1> HIDE DEF S
<1>5. PICK a \in S : L(h, a) \notin S BY <1>3, <1>4 DEF Lists, Founded
<1>6. a \in Mine(h, i) /\ a \notin P /\ a # NULL BY <1>5, MineAre DEF S
<1>7. a \in voids(h) /\ bucket_of(h, a) = i BY <1>6, MineAre
<1>8. CASE L(h, a) = NULL
  <2>1. node[0] = a BY <1>1, <1>7, <1>8 DEF Lists, Lefted
  <2>2. k # 0 BY <1>6, <2>1
  <2>3. 0 \in 0 .. k - 1 BY <1>1, <2>2
  <2> QED BY <1>6, <2>1, <2>3 DEF Passed
<1>9. CASE L(h, a) # NULL
  <2>1. L(h, a) \in Mine(h, i) /\ R(h, L(h, a)) = a BY <1>7, <1>9 DEF Lists, Lefted, Mine
  <2>2. L(h, a) \in P BY <1>5, <2>1 DEF S
  <2>3. PICK j \in 0 .. k - 1 : L(h, a) = node[j] BY <2>2 DEF Passed
  <2>4. j + 1 \in 1 .. n /\ (j + 1) - 1 = j BY <1>1, <2>3
  <2>5. node[j + 1] = a BY <1>1, <1>9, <2>1, <2>3, <2>4
  <2>6. CASE j + 1 = k BY <1>6, <2>5, <2>6
  <2>7. CASE j + 1 # k
    <3>1. j + 1 \in 0 .. k - 1 BY <1>1, <2>3, <2>7
    <3> QED BY <1>6, <2>5, <3>1 DEF Passed
  <2> QED BY <2>6, <2>7
<1> QED BY <1>8, <1>9

\* The list of a bucket: its nodes, and NULL.
LEMMA BucketListed ==
  ASSUME NEW h \in Heaps, Lists(h), NEW i \in Buckets
  PROVE  LET k == Cardinality(Mine(h, i))
         IN  /\ k \in 0 .. Cardinality(voids(h))
             /\ nodes(h, i)[k] = NULL
             /\ \A j \in 0 .. k - 1 : nodes(h, i)[j] # NULL
             /\ Passed(h, i, k) = Mine(h, i)
<1> DEFINE n == Cardinality(voids(h))
           node == nodes(h, i)
           S == {m \in 0 .. n : node[m] = NULL}
<1>1. n \in Nat /\ IsFiniteSet(voids(h)) BY VoidsFinite
<1>2. S # {}
  <2>1. SUFFICES ASSUME \A m \in 0 .. n : node[m] # NULL PROVE FALSE OBVIOUS
  <2>2. n + 1 \in 0 .. n + 1 /\ (n + 1) - 1 = n BY <1>1
  <2>3. Cardinality(Passed(h, i, n + 1)) = n + 1 BY <2>1, <2>2, PassedCounted
  <2>4. Passed(h, i, n + 1) \subseteq voids(h)
    <3>1. \A j \in 0 .. (n + 1) - 1 : node[j] \in Mine(h, i) BY <2>1, <2>2, NodesMine
    <3> QED BY <3>1 DEF Passed, Mine
  <2>5. Cardinality(Passed(h, i, n + 1)) <= n BY <1>1, <2>4, FS_Subset
  <2> QED BY <1>1, <2>3, <2>5
<1>3. PICK m \in S : \A j \in S : m <= j
  <2>1. S \in SUBSET Nat BY <1>1
  <2> HIDE DEF S
  <2> QED BY <1>2, <2>1, LeastNat
<1>4. m \in 0 .. n /\ node[m] = NULL OBVIOUS
<1>5. \A j \in 0 .. m - 1 : node[j] # NULL
  <2>1. \A j \in 0 .. m - 1 : j \in 0 .. n /\ j \notin S BY <1>1, <1>3, <1>4
  <2> QED BY <2>1
<1>6. Passed(h, i, m) = Mine(h, i) BY <1>4, <1>5, PassedAll
<1>7. m \in 0 .. n + 1 BY <1>1, <1>4
<1>8. Cardinality(Passed(h, i, m)) = m BY <1>5, <1>7, PassedCounted
<1> QED BY <1>4, <1>5, <1>6, <1>8

LEMMA FirstFit ==
  ASSUME NEW h \in Heaps, Lists(h), NEW i \in Buckets, NEW size \in Nat
  PROVE  LET n == first_fit(h, i, size)
         IN  /\ n = NULL => \A a \in Mine(h, i) : h.head[a].size < size
             /\ n # NULL => n \in Mine(h, i) /\ h.head[n].size >= size
<1> DEFINE node == nodes(h, i)
           fits == {k \in DOMAIN node : node[k] # NULL /\ h.head[node[k]].size >= size}
           n == Cardinality(voids(h))
<1>1. DOMAIN node = 0 .. n /\ n \in Nat BY NodeSteps
<1>2. first_fit(h, i, size) = IF fits = {} THEN NULL ELSE node[CHOOSE k \in fits : \A j \in fits : k <= j]
  BY DEF first_fit
<1>3. CASE fits = {}
  <2>1. ASSUME NEW a \in Mine(h, i) PROVE h.head[a].size < size
    <3>1. PICK j \in 0 .. Cardinality(Mine(h, i)) - 1 : a = node[j] BY BucketListed DEF Passed
    <3>2. j \in DOMAIN node BY <1>1, BucketListed
    <3>3. ~ (h.head[a].size >= size) BY <1>3, <3>1, <3>2, MineAre
    <3>4. h.head[a].size \in Nat BY MineAre, SizesInBuckets
    <3> QED BY <3>3, <3>4
  <2>2. first_fit(h, i, size) = NULL BY <1>2, <1>3
  <2> QED BY <2>1, <2>2
<1>4. CASE fits # {}
  <2>1. fits \in SUBSET Nat BY <1>1
  <2>2. \A k \in fits : k \in 0 .. n /\ node[k] # NULL /\ h.head[node[k]].size >= size BY <1>1
  <2>3. first_fit(h, i, size) = node[CHOOSE k \in fits : \A j \in fits : k <= j] BY <1>2, <1>4
  <2> HIDE DEF fits
  <2>4. \E k \in fits : \A j \in fits : k <= j BY <1>4, <2>1, LeastNat
  <2>5. PICK k \in fits : first_fit(h, i, size) = node[k] BY <2>3, <2>4
  <2>6. node[k] \in Mine(h, i) BY <2>2, NodesMine
  <2> QED BY <2>2, <2>5, <2>6
<1> QED BY <1>3, <1>4

\* malloc finds a void that is large enough, if there is one.
LEMMA MallocFinds ==
  ASSUME NEW h \in Heaps, Lists(h), NEW size \in Nat, size <= 2 ^ (HEAP_VOID_BUCKET_COUNT - 1)
  PROVE  LET m == malloc(h, size)
         IN  \/ /\ m.ptr = NULL /\ m.heap = h
                /\ \A a \in voids(h) : h.head[a].size < size
             \/ \E n \in voids(h) :
                  /\ h.head[n].size >= size
                  /\ m.ptr = n + LEFT_EDGE_SIZE /\ m.ptr # NULL
                  /\ m.heap = take_void(h, bucket_of(h, n), n, size)
<1> DEFINE index == get_void_block_size_index(size)
           fits == {i \in Buckets : i >= index - 1 /\ first_fit(h, i, size) # NULL}
           above == fits \ {index - 1}
           i == IF above # {} THEN CHOOSE b \in above : \A c \in above : b <= c ELSE index - 1
           n == first_fit(h, i, size)
<1>1. index \in Buckets BY BucketOfSize
<1>2. malloc(h, size) = IF fits = {} THEN [heap |-> h, ptr |-> NULL]
                        ELSE [heap |-> take_void(h, i, n, size), ptr |-> get_data_ptr(n)]
  BY DEF malloc
<1>3. CASE fits = {}
  <2>1. ASSUME NEW a \in voids(h) PROVE h.head[a].size < size
    <3>1. a \in Addr BY DEF voids
    <3>2. h.head[a].size \in Nat /\ h.head[a].size <= 2 ^ (HEAP_VOID_BUCKET_COUNT - 1)
          /\ bucket_of(h, a) \in Buckets
      BY <3>1, SizesInBuckets
    <3>3. SUFFICES ASSUME size <= h.head[a].size PROVE FALSE BY <3>2
    <3>4. index <= bucket_of(h, a) BY <3>2, <3>3, BucketsAscend DEF bucket_of
    <3>5. bucket_of(h, a) >= index - 1 BY <1>1, <3>2, <3>4, Layout DEF Buckets
    <3>6. first_fit(h, bucket_of(h, a), size) = NULL BY <1>3, <3>2, <3>5
    <3>7. a \in Mine(h, bucket_of(h, a)) BY DEF Mine
    <3>8. h.head[a].size < size BY <3>2, <3>6, <3>7, FirstFit
    <3> QED BY <3>2, <3>3, <3>8
  <2> QED BY <1>2, <1>3, <2>1
<1>4. CASE fits # {}
  <2>1. i \in fits
    <3>1. CASE above = {} BY <1>4, <3>1
    <3>2. CASE above # {}
      <4>1. above \in SUBSET Nat BY Layout DEF Buckets
      <4>2. above \subseteq fits OBVIOUS
      <4>3. i = CHOOSE b \in above : \A c \in above : b <= c BY <3>2
      <4> HIDE DEF above, i, fits
      <4>4. \E b \in above : \A c \in above : b <= c BY <3>2, <4>1, LeastNat
      <4> QED BY <4>2, <4>3, <4>4
    <3> QED BY <3>1, <3>2
  <2> HIDE DEF i
  <2>2. i \in Buckets /\ n # NULL BY <2>1
  <2>3. n \in Mine(h, i) /\ h.head[n].size >= size BY <2>2, FirstFit
  <2>4. n \in voids(h) /\ n \in Addr /\ bucket_of(h, n) = i BY <2>3, MineAre
  <2>5. get_data_ptr(n) = n + LEFT_EDGE_SIZE /\ get_data_ptr(n) # NULL
    BY <2>4, Layout DEF get_data_ptr, NULL
  <2>6. malloc(h, size) = [heap |-> take_void(h, i, n, size), ptr |-> get_data_ptr(n)]
    BY <1>2, <1>4
  <2> QED BY <2>3, <2>4, <2>5, <2>6
<1> QED BY <1>3, <1>4

---------------------------------------------------------------------------
(* What the primitive operations do to the sets of blocks.                 *)

Kept(g, h, S) == \A a \in S : Same(g, h, a)

LEMMA KeptTwice ==
  ASSUME NEW f, NEW g, NEW h, NEW S, Kept(f, g, S), Kept(g, h, S)
  PROVE  Kept(f, h, S)
BY DEF Kept, Same

LEMMA VoidGone ==
  ASSUME NEW H, NEW h \in SoundHeaps(H), NEW c \in voids(h)
  PROVE  LET g == heap_void_bucket_erase(h, bucket_of(h, c), c)
         IN  /\ g \in SoundHeaps(H \cup Body(h, c))
             /\ voids(g) = voids(h) \ {c} /\ Data(g) = Data(h)
             /\ Kept(g, h, Data(h) \cup voids(g))
<1> DEFINE g == heap_void_bucket_erase(h, bucket_of(h, c), c)
<1>1. g \in SoundHeaps(H \cup Body(h, c)) /\ Retagged(g, h, c, "none", 0) BY VoidErased
<1>2. c \in Addr /\ c \notin Data(h) BY DEF voids, Data
<1> HIDE DEF g
<1>3. /\ voids(g) = voids(h) \ {c} /\ Data(g) = Data(h)
      /\ Kept(g, h, Data(h) \cup voids(g))
  BY <1>1, <1>2 DEF Retagged, Same, Data, voids, Kept
<1> QED BY <1>1, <1>3 DEF g

LEMMA DataGone ==
  ASSUME NEW H, NEW h \in SoundHeaps(H), NEW c \in Data(h)
  PROVE  LET g == heap_block_erase(h, c)
         IN  /\ g \in SoundHeaps(H \cup Body(h, c))
             /\ voids(g) = voids(h) /\ Data(g) = Data(h) \ {c}
             /\ Kept(g, h, Data(g) \cup voids(h))
<1> DEFINE g == heap_block_erase(h, c)
<1>1. c \in Addr /\ h.head[c].signature = "data" /\ c \notin voids(h) BY DEF voids, Data
<1>2. g \in SoundHeaps(H \cup Body(h, c)) /\ Retagged(g, h, c, "none", 0) BY <1>1, DataErased
<1> HIDE DEF g
<1>3. /\ voids(g) = voids(h) /\ Data(g) = Data(h) \ {c}
      /\ Kept(g, h, Data(g) \cup voids(h))
  BY <1>1, <1>2 DEF Retagged, Same, Data, voids, Kept
<1> QED BY <1>2, <1>3 DEF g

\* One void, or one data block, is new.
WithVoid(g, h, H, start, size) ==
  /\ g \in SoundHeaps(H \ Region(start, size))
  /\ voids(g) = voids(h) \cup {start} /\ Data(g) = Data(h)
  /\ g.head[start].size = size /\ start \notin BlocksOf(h)
  /\ Kept(g, h, Data(h) \cup voids(h))

WithData(g, h, H, start, size) ==
  /\ g \in SoundHeaps(H \ Region(start, size))
  /\ voids(g) = voids(h) /\ Data(g) = Data(h) \cup {start}
  /\ g.head[start].size = size /\ start \notin BlocksOf(h)
  /\ Kept(g, h, Data(h) \cup voids(h))

LEMMA VoidNew ==
  ASSUME NEW H \in SUBSET Arena, NEW h \in SoundHeaps(H), NEW start \in Addr, NEW size \in Nat,
         Region(start, size) \subseteq H
  PROVE  WithVoid(add_void(h, start, size), h, H, start, size)
<1> DEFINE g == add_void(h, start, size)
<1>1. /\ g \in SoundHeaps(H \ Region(start, size)) /\ Retagged(g, h, start, "void", size)
      /\ start \notin BlocksOf(h)
  BY VoidAdded
<1>2. start \notin voids(h) /\ start \notin Data(h) BY <1>1 DEF voids, Data, BlocksOf
<1> HIDE DEF g
<1>3. /\ voids(g) = voids(h) \cup {start} /\ Data(g) = Data(h)
      /\ g.head[start].size = size
      /\ Kept(g, h, Data(h) \cup voids(h))
  BY <1>1, <1>2 DEF Retagged, Same, Data, voids, Kept
<1> QED BY <1>1, <1>3 DEF g, WithVoid

LEMMA DataNew ==
  ASSUME NEW H \in SUBSET Arena, NEW h \in SoundHeaps(H), NEW start \in Addr, NEW size \in Nat,
         Region(start, size) \subseteq H
  PROVE  WithData(create_block(h, "data", start, size), h, H, start, size)
<1> DEFINE g == create_block(h, "data", start, size)
<1>1. /\ g \in SoundHeaps(H \ Region(start, size)) /\ Retagged(g, h, start, "data", size)
      /\ start \notin BlocksOf(h)
  BY DataCreated
<1>2. start \notin voids(h) /\ start \notin Data(h) BY <1>1 DEF voids, Data, BlocksOf
<1> HIDE DEF g
<1>3. /\ voids(g) = voids(h) /\ Data(g) = Data(h) \cup {start}
      /\ g.head[start].size = size
      /\ Kept(g, h, Data(h) \cup voids(h))
  BY <1>1, <1>2 DEF Retagged, Same, Data, voids, Kept
<1> QED BY <1>1, <1>3 DEF g, WithData

LEMMA KeptEnds ==
  ASSUME NEW g, NEW h, NEW S, Kept(g, h, S), NEW a \in S
  PROVE  get_block_end(g, a) = get_block_end(h, a) /\ g.head[a].size = h.head[a].size
BY SameEnds DEF Kept

\* Every void that is no guard lies between two blocks.
LEMMA Neighbours ==
  ASSUME NEW h \in SoundHeaps({}), Guarded(h), NEW a \in BlocksOf(h), a \notin Guards
  PROVE  LET b == get_block_start(h, a)
             c == get_block_end(h, a)
         IN  /\ a \in Addr /\ a \in Nat /\ c \in Nat /\ a + SERVICE_FIELDS_SIZE <= c
             /\ b \in BlocksOf(h) /\ b \in Addr /\ b < a /\ get_block_end(h, b) = a
             /\ h.foot[a - RIGHT_EDGE_SIZE].signature = h.head[b].signature
             /\ c \in BlocksOf(h) /\ c \in Addr
             /\ Body(h, a) = a .. c - 1
<1>1. h \in Heaps /\ Tiles(h, {}) /\ a \in Addr BY DEF SoundHeaps, BlocksOf
<1>2. a \in Nat /\ a \in Arena /\ a > KHEAP_START
  BY <1>1, BlocksInside, GuardsAre, Layout DEF Arena, Guards
<1>3. a - 1 \in Arena BY <1>2, Layout DEF Arena
<1> DEFINE c == get_block_end(h, a)
           last == KHEAP_END - SERVICE_FIELDS_SIZE
<1>4. c \in Nat /\ c <= KHEAP_END /\ c = a + SERVICE_FIELDS_SIZE + h.head[a].size /\ h.head[a].size \in Nat
  BY <1>1, BlockEnds, BlocksInside, RegionIsBody
<1>5. last \in BlocksOf(h) /\ h.head[last].size = 0
  BY <1>1, Kinds, GuardsAre DEF Guarded
<1>6. get_block_end(h, last) = KHEAP_END BY <1>5, Layout DEF get_block_end
<1>7. c # KHEAP_END
  <2>1. a # last BY GuardsAre
  <2> QED BY <1>5, <1>6, <2>1, UniqueEnd
<1>8. c \in Arena BY <1>2, <1>4, <1>7, Layout DEF Arena
<1>9. c \in BlocksOf(h) BY <1>8, BlockAfter
<1>10. c \in Addr BY <1>9 DEF BlocksOf
<1>11. a + SERVICE_FIELDS_SIZE <= c BY <1>2, <1>4, Layout
<1> QED BY <1>1, <1>2, <1>3, <1>4, <1>9, <1>10, <1>11, BlockBefore DEF Body

\* A void is merged with the voids on both of its sides.
LEMMA Merged ==
  ASSUME NEW h \in SoundHeaps({}), Guarded(h), NEW start \in voids(h),
         \A a \in voids(h) : h.head[a].size > 0,
         \A a \in voids(h) \ {start} : get_block_end(h, a) \in voids(h) => get_block_end(h, a) = start
  PROVE  LET g == heap_void_block_try_merge(h, start)
         IN  g \in GoodHeaps /\ Data(g) = Data(h) /\ Kept(g, h, Data(h))
<1> DEFINE end == get_block_end(h, start)
           before == get_block_start(h, start)
           mergeLeft == h.foot[start - RIGHT_EDGE_SIZE].signature = "void"
           mergeRight == h.head[end].signature = "void"
           left == IF mergeLeft THEN heap_void_bucket_erase(h, bucket_of(h, before), before) ELSE h
           right == IF mergeRight THEN heap_void_bucket_erase(left, bucket_of(left, end), end) ELSE left
           newStart == IF mergeLeft THEN before ELSE start
           newEnd == IF mergeRight THEN get_block_end(left, end) ELSE end
           alone == heap_void_bucket_erase(right, bucket_of(right, start), start)
           merged == add_void(alone, newStart, newEnd - newStart - SERVICE_FIELDS_SIZE)
           g == heap_void_block_try_merge(h, start)
<1>0. g = IF mergeLeft \/ mergeRight THEN merged ELSE h BY DEF heap_void_block_try_merge
<1> HIDE DEF g
<1>1. /\ h \in Heaps /\ Tiles(h, {}) /\ start \in BlocksOf(h) /\ start \notin Guards
      /\ \A a \in voids(h) : a \in BlocksOf(h) /\ a \in Addr /\ a \notin Data(h)
  BY Kinds DEF SoundHeaps, Guarded, voids, Data
<1>2. /\ start \in Addr /\ start \in Nat /\ end \in Nat /\ start + SERVICE_FIELDS_SIZE <= end
      /\ before \in BlocksOf(h) /\ before \in Addr /\ before < start /\ get_block_end(h, before) = start
      /\ mergeLeft <=> before \in voids(h)
      /\ end \in BlocksOf(h) /\ end \in Addr
      /\ mergeRight <=> end \in voids(h)
      /\ Body(h, start) = start .. end - 1
  BY <1>1, Neighbours DEF voids
<1>3. before \in Nat /\ before # start /\ before # end /\ start # end /\ SERVICE_FIELDS_SIZE \in Nat
      /\ start < end
  <2>1. /\ start \in Nat /\ end \in Nat /\ start + SERVICE_FIELDS_SIZE <= end
        /\ before \in Addr /\ before < start
    BY <1>2
  <2>2. SERVICE_FIELDS_SIZE \in Nat /\ SERVICE_FIELDS_SIZE > 0 /\ before \in Nat BY <2>1, Layout
  <2> QED BY <2>1, <2>2
<1>4. start \in voids(h) /\ h.head[start].size > 0 OBVIOUS
<1> HIDE DEF before, end, mergeLeft, mergeRight
<1>5. CASE ~ (mergeLeft \/ mergeRight)
  <2>1. g = h /\ before \notin voids(h) /\ end \notin voids(h) BY <1>0, <1>2, <1>5
  <2>2. ASSUME NEW a \in voids(h) PROVE get_block_end(h, a) \notin voids(h)
    <3>1. CASE a = start BY <2>1, <3>1 DEF end
    <3>2. CASE a # start
      <4>1. get_block_end(h, a) # start BY <1>1, <1>2, <2>1, UniqueEnd
      <4> QED BY <3>2, <4>1
    <3> QED BY <3>1, <3>2
  <2>3. Separated(h) BY <2>2 DEF Separated
  <2> QED BY <2>1, <2>3 DEF GoodHeaps, Kept, Same, g
<1>6. CASE mergeLeft \/ mergeRight
  <2>0. g = merged BY <1>0, <1>6
  <2>1. /\ left \in SoundHeaps(newStart .. start - 1)
        /\ newStart \in Addr /\ newStart \in Nat /\ newStart <= start
        /\ newStart \notin voids(left) \ {start} /\ newStart \in voids(h)
        /\ voids(left) \subseteq voids(h) /\ voids(h) \subseteq voids(left) \cup {newStart}
        /\ start \in voids(left) /\ (mergeRight => end \in voids(left))
        /\ Data(left) = Data(h)
        /\ Kept(left, h, Data(h) \cup voids(left))
        /\ before \notin voids(left)
    <3>1. CASE mergeLeft
      <4>1. before \in voids(h) /\ newStart = before BY <1>2, <3>1
      <4>2. Body(h, before) = before .. start - 1 BY <1>2 DEF Body
      <4>3. /\ left \in SoundHeaps({} \cup Body(h, before))
            /\ voids(left) = voids(h) \ {before} /\ Data(left) = Data(h)
            /\ Kept(left, h, Data(h) \cup voids(left))
        BY <3>1, <4>1, VoidGone
      <4> HIDE DEF left, newStart
      <4>4. left \in SoundHeaps(newStart .. start - 1) BY <4>1, <4>2, <4>3
      <4>5. /\ newStart \in Addr /\ newStart \in Nat /\ newStart <= start
            /\ newStart \in voids(h) /\ newStart \notin voids(left)
            /\ start \in voids(left) /\ (mergeRight => end \in voids(left))
        BY <1>2, <1>3, <1>4, <4>1, <4>3
      <4> QED BY <4>1, <4>3, <4>4, <4>5
    <3>2. CASE ~ mergeLeft
      <4>1. left = h /\ newStart = start /\ before \notin voids(h) BY <1>2, <3>2
      <4> HIDE DEF left, newStart
      <4>2. newStart .. start - 1 = {} BY <1>2, <4>1
      <4>3. Kept(h, h, Data(h) \cup voids(h)) BY DEF Kept, Same
      <4> QED BY <1>2, <1>4, <4>1, <4>2, <4>3
    <3> QED BY <3>1, <3>2
  <2> HIDE DEF left, newStart
  <2>2. /\ right \in SoundHeaps((newStart .. start - 1) \cup (end .. newEnd - 1))
        /\ newEnd \in Nat /\ newEnd >= end /\ newEnd <= KHEAP_END /\ newEnd \notin voids(h)
        /\ voids(right) \subseteq voids(left) /\ voids(left) \subseteq voids(right) \cup {end}
        /\ start \in voids(right) /\ end \notin voids(right)
        /\ Data(right) = Data(h)
        /\ Kept(right, h, Data(h) \cup voids(right))
    <3>1. CASE mergeRight
      <4>1. end \in voids(h) /\ end \in voids(left) BY <1>2, <2>1, <3>1
      <4>2. newEnd = get_block_end(h, end) BY <2>1, <3>1, <4>1, KeptEnds
      <4>3. Body(left, end) = end .. newEnd - 1 BY <3>1 DEF Body
      <4>4. newEnd \in Nat /\ newEnd > end /\ newEnd <= KHEAP_END
        BY <1>1, <1>2, <4>2, BlockEnds, BlocksInside
      <4>5. newEnd \notin voids(h)
        <5>1. end \in voids(h) \ {start} BY <1>3, <4>1
        <5>2. newEnd \in voids(h) => newEnd = start BY <4>2, <5>1
        <5> QED BY <1>2, <1>3, <4>4, <5>2
      <4>6. /\ right \in SoundHeaps((newStart .. start - 1) \cup Body(left, end))
            /\ voids(right) = voids(left) \ {end} /\ Data(right) = Data(left)
            /\ Kept(right, left, Data(left) \cup voids(right))
        BY <2>1, <3>1, <4>1, VoidGone
      <4> HIDE DEF right, newEnd
      <4>7. Kept(left, h, Data(left) \cup voids(right)) BY <2>1, <4>6 DEF Kept
      <4>8. Kept(right, h, Data(h) \cup voids(right)) BY <2>1, <4>6, <4>7, KeptTwice
      <4>9. right \in SoundHeaps((newStart .. start - 1) \cup (end .. newEnd - 1)) BY <4>3, <4>6
      <4>10. newEnd >= end BY <1>2, <4>4
      <4>11. start \in voids(right) /\ end \notin voids(right) BY <1>3, <2>1, <4>6
      <4>12. voids(right) \subseteq voids(left) /\ voids(left) \subseteq voids(right) \cup {end}
             /\ Data(right) = Data(h)
        BY <2>1, <4>6
      <4> QED BY <4>4, <4>5, <4>8, <4>9, <4>10, <4>11, <4>12
    <3>2. CASE ~ mergeRight
      <4>1. right = left /\ newEnd = end /\ end \notin voids(h) BY <1>2, <3>2
      <4>2. end .. newEnd - 1 = {} BY <1>2, <4>1
      <4>3. end \in Nat /\ end <= KHEAP_END BY <1>2, Layout DEF Addr
      <4> HIDE DEF right, newEnd
      <4>4. end \notin voids(left) BY <2>1, <4>1
      <4>5. right \in SoundHeaps((newStart .. start - 1) \cup (end .. newEnd - 1))
        <5>1. (newStart .. start - 1) \cup (end .. newEnd - 1) = newStart .. start - 1 BY <4>2
        <5> QED BY <2>1, <4>1, <5>1
      <4>6. Kept(right, h, Data(h) \cup voids(right)) BY <2>1, <4>1
      <4>7. newEnd \in Nat /\ newEnd >= end /\ newEnd <= KHEAP_END BY <4>1, <4>3
      <4> QED BY <2>1, <4>1, <4>4, <4>5, <4>6, <4>7
    <3> QED BY <3>1, <3>2
  <2> HIDE DEF right, newEnd
  <2>3. get_block_end(right, start) = end BY <2>2, KeptEnds DEF end
  <2>4. Body(right, start) = start .. end - 1 BY <2>3 DEF Body
  <2>5. /\ alone \in SoundHeaps(((newStart .. start - 1) \cup (end .. newEnd - 1)) \cup Body(right, start))
        /\ voids(alone) = voids(right) \ {start} /\ Data(alone) = Data(right)
        /\ Kept(alone, right, Data(right) \cup voids(alone))
    BY <2>2, VoidGone
  <2> DEFINE H == newStart .. newEnd - 1
             size == newEnd - newStart - SERVICE_FIELDS_SIZE
  <2>6. ((newStart .. start - 1) \cup (end .. newEnd - 1)) \cup Body(right, start) = H
    BY <1>2, <1>3, <2>1, <2>2, <2>4
  <2>7. alone \in SoundHeaps(H) BY <2>5, <2>6
  <2> HIDE DEF alone
  <2>8. size \in Nat /\ size > 0 /\ Region(newStart, size) = H /\ H \ H = {}
    <3>1. h.head[start].size \in Nat /\ end = start + SERVICE_FIELDS_SIZE + h.head[start].size
      BY <1>1, <1>2, BlockEnds, RegionIsBody DEF end
    <3> QED BY <1>2, <1>3, <1>4, <2>1, <2>2, <3>1 DEF Region
  <2>9. H \in SUBSET Arena
    <3>1. newStart >= KHEAP_START BY <2>1, Layout DEF Addr
    <3> QED BY <2>1, <2>2, <3>1, Layout DEF Arena
  <2> HIDE DEF H, size
  <2>a. g = add_void(alone, newStart, size) BY <2>0 DEF size
  <2>10. /\ g \in SoundHeaps(H \ Region(newStart, size))
         /\ voids(g) = voids(alone) \cup {newStart} /\ Data(g) = Data(alone)
         /\ g.head[newStart].size = size
         /\ Kept(g, alone, Data(alone) \cup voids(alone))
    <3>1. Region(newStart, size) \subseteq H /\ size \in Nat /\ newStart \in Addr BY <2>1, <2>8
    <3>2. WithVoid(add_void(alone, newStart, size), alone, H, newStart, size)
      BY <2>7, <2>9, <3>1, VoidNew
    <3>3. WithVoid(g, alone, H, newStart, size) BY <2>a, <3>2
    <3> QED BY <3>3 DEF WithVoid
  <2>11. g \in SoundHeaps({}) BY <2>8, <2>10
  <2>12. Data(g) = Data(h) BY <2>2, <2>5, <2>10
  <2>13. Kept(g, h, Data(h) \cup voids(alone))
    <3>1. Kept(right, h, Data(h) \cup voids(alone)) BY <2>2, <2>5 DEF Kept
    <3>2. Kept(alone, right, Data(h) \cup voids(alone)) BY <2>2, <2>5
    <3>3. Kept(g, alone, Data(h) \cup voids(alone)) BY <2>2, <2>5, <2>10
    <3> QED BY <3>1, <3>2, <3>3, KeptTwice
  <2>14. get_block_end(g, newStart) = newEnd
    BY <2>1, <2>2, <2>10, Layout DEF get_block_end, size
  <2>15. ASSUME NEW a \in voids(g) PROVE g.head[a].size > 0 /\ get_block_end(g, a) \notin voids(g)
    <3>1. newEnd # newStart BY <1>3, <2>1, <2>2, <1>2
    <3>2. voids(alone) \subseteq voids(h) \ {start} BY <2>1, <2>2, <2>5
    <3>3. CASE a = newStart BY <2>2, <2>8, <2>10, <2>14, <3>1, <3>2, <3>3
    <3>4. CASE a # newStart
      <4>1. a \in voids(alone) /\ a \in voids(h) /\ a # start BY <2>10, <3>2, <3>4
      <4>2. get_block_end(g, a) = get_block_end(h, a) /\ g.head[a].size = h.head[a].size
        BY <2>13, <4>1, KeptEnds
      <4>3. get_block_end(h, a) \in voids(h) => get_block_end(h, a) = start BY <4>1
      <4>4. a # before BY <2>1, <2>2, <2>5, <4>1
      <4>5. get_block_end(h, a) # start BY <1>1, <1>2, <4>1, <4>4, UniqueEnd
      <4> QED BY <2>1, <2>10, <3>2, <4>1, <4>2, <4>3, <4>5
    <3> QED BY <3>3, <3>4
  <2>16. Separated(g) BY <2>15 DEF Separated
  <2>17. Kept(g, h, Data(h)) BY <2>13 DEF Kept
  <2>18. Guarded(g) BY <2>12, <2>17, GuardsAre DEF Guarded, Kept, Same
  <2> QED BY <2>11, <2>12, <2>16, <2>17, <2>18 DEF GoodHeaps, g
<1> QED BY <1>5, <1>6

LEMMA Freed ==
  ASSUME NEW h \in GoodHeaps, NEW start \in Data(h) \ Guards, h.head[start].size > 0
  PROVE  LET g == free(h, start + LEFT_EDGE_SIZE)
         IN  g \in GoodHeaps /\ Data(g) = Data(h) \ {start} /\ Kept(g, h, Data(g))
<1> DEFINE size == h.head[start].size
           e == heap_block_erase(h, start)
           v == add_void(e, start, size)
           g == heap_void_block_try_merge(v, start)
<1>0. /\ h \in SoundHeaps({}) /\ h \in Heaps /\ Tiles(h, {}) /\ Guarded(h) /\ Separated(h)
      /\ start \in Addr /\ start \in BlocksOf(h) /\ start \notin voids(h)
  BY Kinds DEF GoodHeaps, SoundHeaps, Data, voids
<1>1. free(h, start + LEFT_EDGE_SIZE) = g
  <2>1. (start + LEFT_EDGE_SIZE) - LEFT_EDGE_SIZE = start BY <1>0, Layout
  <2> QED BY <2>1 DEF free
<1>2. /\ e \in SoundHeaps({} \cup Body(h, start))
      /\ voids(e) = voids(h) /\ Data(e) = Data(h) \ {start}
      /\ Kept(e, h, Data(e) \cup voids(h))
  BY <1>0, DataGone
<1>3. size \in Nat /\ Body(h, start) = Region(start, size) BY <1>0, BlockEnds, RegionIsBody
<1>4. Region(start, size) \in SUBSET Arena BY <1>0, <1>3 DEF Tiles
<1> DEFINE H == Region(start, size)
<1>5. {} \cup Body(h, start) = H /\ H \ Region(start, size) = {}
  BY <1>3
<1>a. H \in SUBSET Arena /\ Region(start, size) \subseteq H /\ e \in SoundHeaps(H)
  BY <1>2, <1>4, <1>5
<1> HIDE DEF e, size, H
<1>6. /\ v \in SoundHeaps(H \ Region(start, size))
      /\ voids(v) = voids(e) \cup {start} /\ Data(v) = Data(e)
      /\ v.head[start].size = size
      /\ Kept(v, e, Data(e) \cup voids(e))
  <2>1. start \in Addr /\ size \in Nat BY <1>0, <1>3
  <2>2. WithVoid(v, e, H, start, size) BY <1>a, <2>1, VoidNew
  <2> QED BY <2>2 DEF WithVoid
<1> HIDE DEF v
<1>7. v \in SoundHeaps({}) /\ start \in voids(v) /\ Data(v) = Data(h) \ {start} BY <1>2, <1>5, <1>6
<1>8. Kept(v, h, Data(v) \cup voids(h))
  <2>1. Kept(v, e, Data(v) \cup voids(h)) /\ Kept(e, h, Data(v) \cup voids(h)) BY <1>2, <1>6
  <2> QED BY <2>1, KeptTwice
<1>9. Guarded(v)
  <2>1. Guards \subseteq Data(v) BY <1>0, <1>7 DEF Guarded
  <2> QED BY <1>0, <1>8, <2>1, GuardsAre DEF Guarded, Kept, Same
<1>10. \A a \in voids(v) \ {start} : a \in voids(h) BY <1>2, <1>6
<1>11. \A a \in voids(v) : v.head[a].size > 0
  <2>1. v.head[start].size > 0 BY <1>6 DEF size
  <2>2. \A a \in voids(h) : v.head[a].size = h.head[a].size BY <1>8 DEF Kept, Same
  <2>3. \A a \in voids(h) : h.head[a].size > 0 BY <1>0 DEF Separated
  <2> QED BY <1>10, <2>1, <2>2, <2>3
<1>12. ASSUME NEW a \in voids(v) \ {start}, get_block_end(v, a) \in voids(v)
       PROVE  get_block_end(v, a) = start
  <2>1. a \in voids(h) BY <1>10
  <2>2. get_block_end(v, a) = get_block_end(h, a) BY <1>8, <2>1, KeptEnds
  <2>3. get_block_end(h, a) \notin voids(h) BY <1>0, <2>1 DEF Separated
  <2> QED BY <1>10, <1>12, <2>2, <2>3
<1>13. g \in GoodHeaps /\ Data(g) = Data(v) /\ Kept(g, v, Data(v))
  BY <1>7, <1>9, <1>11, <1>12, Merged
<1> HIDE DEF g
<1>14. Kept(v, h, Data(v)) BY <1>8 DEF Kept
<1>15. Kept(g, h, Data(v)) BY <1>13, <1>14, KeptTwice
<1> QED BY <1>1, <1>7, <1>13, <1>15

---------------------------------------------------------------------------
(* The calls.                                                              *)

\* A block grows into the void behind it.
LEMMA Grown ==
  ASSUME NEW h \in GoodHeaps, NEW start \in Data(h) \ Guards, NEW size \in Nat,
         can_grow(h, start, size)
  PROVE  LET g == grow(h, start, size)
         IN  /\ g \in GoodHeaps /\ Data(g) = Data(h) /\ Kept(g, h, Data(h) \ {start})
             /\ g.head[start].size >= size
<1> DEFINE next == get_block_end(h, start)
           hi == get_block_end(h, next)
           e == heap_void_bucket_erase(h, bucket_of(h, next), next)
           t == heap_block_erase(e, start)
           g == grow(h, start, size)
<1>0. /\ h \in SoundHeaps({}) /\ h \in Heaps /\ Tiles(h, {}) /\ Guarded(h) /\ Separated(h)
      /\ start \in BlocksOf(h) /\ start \notin Guards /\ start \in Data(h) /\ start \notin voids(h)
  BY Kinds DEF GoodHeaps, SoundHeaps
<1>1. /\ start \in Addr /\ start \in Nat /\ next \in Addr /\ next \in BlocksOf(h)
      /\ Body(h, start) = start .. next - 1
  BY <1>0, Neighbours
<1>2. next \in voids(h) BY <1>1 DEF can_grow, voids
<1>3. h.head[next].size + h.head[start].size + SERVICE_FIELDS_SIZE >= size BY DEF can_grow
<1>4. /\ h.head[start].size \in Nat /\ h.head[next].size \in Nat /\ next \in Nat /\ hi \in Nat
      /\ next = start + SERVICE_FIELDS_SIZE + h.head[start].size
      /\ hi = next + SERVICE_FIELDS_SIZE + h.head[next].size
      /\ hi <= KHEAP_END
  BY <1>0, <1>1, BlockEnds, BlocksInside, RegionIsBody
<1>5. Body(h, next) = next .. hi - 1 BY DEF Body
<1>6. hi \notin voids(h) BY <1>0, <1>2 DEF Separated
<1>7. /\ e \in SoundHeaps({} \cup Body(h, next))
      /\ voids(e) = voids(h) \ {next} /\ Data(e) = Data(h)
      /\ Kept(e, h, Data(h) \cup voids(e))
  BY <1>0, <1>2, VoidGone
<1> HIDE DEF e
<1>8. get_block_end(e, start) = next BY <1>0, <1>7, KeptEnds DEF next
<1>9. Body(e, start) = start .. next - 1 BY <1>8 DEF Body
<1>10. /\ t \in SoundHeaps(({} \cup Body(h, next)) \cup Body(e, start))
       /\ voids(t) = voids(e) /\ Data(t) = Data(e) \ {start}
       /\ Kept(t, e, Data(t) \cup voids(e))
  BY <1>0, <1>7, DataGone
<1> HIDE DEF t
<1>a. g = Carve(t, start, hi, size)
  <2> DEFINE s == h.head[start].size
             r == h.head[next].size
  <2>1. g = LET left == r + s - size
            IN  IF left <= 0 THEN create_block(t, "data", start, r + s + SERVICE_FIELDS_SIZE)
                ELSE add_void(create_block(t, "data", start, size),
                              start + SERVICE_FIELDS_SIZE + size, left)
    BY DEF grow, t, e
  <2>2. /\ s \in Nat /\ r \in Nat /\ next = start + SERVICE_FIELDS_SIZE + s
        /\ hi = next + SERVICE_FIELDS_SIZE + r
    BY <1>4
  <2> HIDE DEF s, r, next, hi, g
  <2>3. /\ hi - start - SERVICE_FIELDS_SIZE - size - SERVICE_FIELDS_SIZE = r + s - size
        /\ hi - start - SERVICE_FIELDS_SIZE = r + s + SERVICE_FIELDS_SIZE
    BY <1>1, <2>2, ServiceFields
  <2> QED BY <2>1, <2>3 DEF Carve
<1> HIDE DEF g, next, hi
<1>11. ({} \cup Body(h, next)) \cup Body(e, start) = start .. hi - 1
  <2>1. Body(h, next) = next .. hi - 1 /\ Body(e, start) = start .. next - 1 BY <1>5, <1>9
  <2>2. start \in Nat /\ next \in Nat /\ hi \in Nat /\ start <= next /\ next <= hi
    <3> DEFINE s == h.head[start].size
               r == h.head[next].size
    <3>1. /\ s \in Nat /\ r \in Nat /\ next = start + SERVICE_FIELDS_SIZE + s
          /\ hi = next + SERVICE_FIELDS_SIZE + r
      BY <1>4
    <3>2. start \in Nat /\ next \in Nat /\ hi \in Nat BY <1>1, <1>4
    <3> HIDE DEF s, r
    <3> QED BY <3>1, <3>2, ServiceFields
  <2> QED BY <2>1, <2>2
<1>12. t \in SoundHeaps(start .. hi - 1) BY <1>10, <1>11
<1>13. Kept(t, h, Data(t) \cup voids(t))
  <2>1. Kept(t, e, Data(t) \cup voids(t)) BY <1>10
  <2>2. Kept(e, h, Data(t) \cup voids(t)) BY <1>7, <1>10 DEF Kept
  <2> QED BY <2>1, <2>2, KeptTwice
<1>14. Separated(t)
  <2>1. \A a \in voids(t) : a \in voids(h) BY <1>7, <1>10
  <2>2. \A a \in voids(t) : get_block_end(t, a) = get_block_end(h, a) /\ t.head[a].size = h.head[a].size
    BY <1>13, KeptEnds
  <2> QED BY <1>0, <2>1, <2>2 DEF Separated
<1>15. hi \notin voids(t) BY <1>6, <1>7, <1>10
<1>16. size <= hi - start - SERVICE_FIELDS_SIZE
  <2> DEFINE s == h.head[start].size
             r == h.head[next].size
  <2>1. /\ s \in Nat /\ r \in Nat /\ next = start + SERVICE_FIELDS_SIZE + s
        /\ hi = next + SERVICE_FIELDS_SIZE + r /\ r + s + SERVICE_FIELDS_SIZE >= size
    BY <1>3, <1>4 DEF next
  <2> HIDE DEF s, r
  <2> QED BY <1>1, <2>1, ServiceFields
<1>17. /\ g \in SoundHeaps({}) /\ Separated(g)
       /\ Data(g) = Data(t) \cup {start}
       /\ g.head[start].size >= size
       /\ \A a \in Data(t) : Same(g, t, a)
  <2>1. start \in Addr /\ hi \in Nat /\ hi <= KHEAP_END BY <1>1, <1>4
  <2>2. IsCarved(Carve(t, start, hi, size), t, start, hi, size)
    BY <1>12, <1>14, <1>15, <1>16, <2>1, Carved
  <2>3. IsCarved(g, t, start, hi, size) BY <1>a, <2>2
  <2> QED BY <2>3 DEF IsCarved
<1>18. Data(t) = Data(h) \ {start} /\ Data(g) = Data(h) BY <1>0, <1>7, <1>10, <1>17
<1>19. Kept(g, h, Data(h) \ {start})
  <2>1. Kept(g, t, Data(h) \ {start}) BY <1>17, <1>18 DEF Kept
  <2>2. Kept(t, h, Data(h) \ {start}) BY <1>13, <1>18 DEF Kept
  <2> QED BY <2>1, <2>2, KeptTwice
<1>20. Guarded(g)
  <2>1. KHEAP_END - SERVICE_FIELDS_SIZE \in Data(h) \ {start} BY <1>0, GuardsAre DEF Guarded
  <2> QED BY <1>0, <1>18, <1>19, <2>1 DEF Guarded, Kept, Same
<1> QED BY <1>17, <1>18, <1>19, <1>20 DEF GoodHeaps, g

\* A block starts anew further up, and the bytes before it go to a void or to
\* the block before.
LEMMA Cut ==
  ASSUME NEW h \in GoodHeaps, NEW n \in Data(h) \ Guards, \A a \in voids(h) : get_block_end(h, a) # n,
         NEW curr \in Nat, n <= curr, NEW size \in Nat,
         curr + SERVICE_FIELDS_SIZE + size <= get_block_end(h, n),
         NEW m, m.heap = h, m.ptr = n + LEFT_EDGE_SIZE,
         NEW alignment, align_up(m.ptr, alignment) = curr + LEFT_EDGE_SIZE
  PROVE  LET g == cut_gap(m, alignment)
         IN  /\ block_before(m).signature = "data"
             /\ g \in GoodHeaps
             /\ Data(g) = (Data(h) \ {n}) \cup {curr} /\ curr \notin Data(h) \ {n}
             /\ g.head[curr].size >= size
             /\ \A a \in Data(h) \ {n} : g.head[a].size >= h.head[a].size
             /\ \/ Same(g, h, KHEAP_START)
                \/ get_block_end(h, KHEAP_START) = n /\ get_block_end(g, KHEAP_START) = curr
<1> DEFINE end == get_block_end(h, n)
           gap == curr - n
           rest == end - curr - SERVICE_FIELDS_SIZE
           e == heap_block_erase(h, n)
           moved == create_block(e, "data", curr, rest)
           prev == get_block_start(moved, n)
           longer == create_block(heap_block_erase(moved, prev), "data", prev, moved.head[prev].size + gap)
           void == add_void(moved, n, gap - SERVICE_FIELDS_SIZE)
           g == cut_gap(m, alignment)
           H == n .. curr - 1
<1>0. /\ h \in SoundHeaps({}) /\ h \in Heaps /\ Tiles(h, {}) /\ Guarded(h) /\ Separated(h)
      /\ n \in BlocksOf(h) /\ n \notin Guards /\ n \in Data(h) /\ n \notin voids(h) /\ n \in Addr
  BY Kinds DEF GoodHeaps, SoundHeaps
<1> DEFINE b == get_block_start(h, n)
<1>1. /\ n \in Addr /\ n \in Nat /\ end \in Nat
      /\ b \in BlocksOf(h) /\ b \in Addr /\ b < n /\ get_block_end(h, b) = n
      /\ h.foot[n - RIGHT_EDGE_SIZE].signature = h.head[b].signature
      /\ end \in Addr
      /\ Body(h, n) = n .. end - 1
  BY <1>0, Neighbours
<1>2. b \in Data(h) /\ b \notin voids(h) /\ b # n
  <2>1. b \notin voids(h) BY <1>1
  <2>2. b # n BY <1>1, Layout
  <2> QED BY <1>0, <1>1, <2>1, <2>2, Kinds
<1>3. block_before(m).signature = "data"
  <2>1. (n + LEFT_EDGE_SIZE) - SERVICE_FIELDS_SIZE = n - RIGHT_EDGE_SIZE BY <1>1, Layout
  <2> QED BY <1>1, <1>2, <2>1 DEF block_before, Data
<1>4. g = IF gap - SERVICE_FIELDS_SIZE <= 0 THEN longer ELSE void
  <2>1. m.ptr - LEFT_EDGE_SIZE = n /\ align_up(m.ptr, alignment) - LEFT_EDGE_SIZE = curr
    <3>1. n \in Nat /\ curr \in Nat BY <1>1
    <3>2. (n + LEFT_EDGE_SIZE) - LEFT_EDGE_SIZE = n /\ (curr + LEFT_EDGE_SIZE) - LEFT_EDGE_SIZE = curr
      BY <3>1, ServiceFields
    <3> QED BY <3>2
  <2> QED BY <2>1 DEF cut_gap
<1> HIDE DEF b, end, g
<1>5. /\ e \in SoundHeaps({} \cup Body(h, n))
      /\ voids(e) = voids(h) /\ Data(e) = Data(h) \ {n}
      /\ Kept(e, h, Data(e) \cup voids(h))
  <2>1. h \in SoundHeaps({}) /\ n \in Data(h) BY <1>0
  <2> DEFINE Gone(x) == /\ x \in SoundHeaps({} \cup Body(h, n))
                        /\ voids(x) = voids(h) /\ Data(x) = Data(h) \ {n}
                        /\ Kept(x, h, Data(x) \cup voids(h))
  <2>2. Gone(heap_block_erase(h, n)) BY <2>1, DataGone, ZenonT(60)
  <2> HIDE DEF Gone
  <2>3. Gone(e) BY <2>2
  <2> QED BY <2>3 DEF Gone
<1>6. /\ curr \in Addr /\ rest \in Nat /\ rest >= size /\ end <= KHEAP_END /\ n >= KHEAP_START
      /\ Region(curr, rest) = curr .. end - 1
  <2>1. end <= KHEAP_END /\ n >= KHEAP_START /\ n \in Nat /\ end \in Nat BY <1>1, Layout DEF Addr
  <2>2. curr + SERVICE_FIELDS_SIZE + size <= end BY DEF end
  <2>3. rest \in Nat /\ rest >= size BY <2>1, <2>2, ServiceFields
  <2>4. curr + SERVICE_FIELDS_SIZE + rest - 1 = end - 1 BY <2>1, ServiceFields
  <2>5. curr >= KHEAP_START /\ curr <= KHEAP_END BY <2>1, <2>2, ServiceFields
  <2>6. curr \in Addr BY <2>5, ServiceFields DEF Addr
  <2> HIDE DEF rest
  <2> QED BY <2>1, <2>3, <2>4, <2>6 DEF Region
<1>7. WithData(moved, e, n .. end - 1, curr, rest)
  <2>1. e \in SoundHeaps(n .. end - 1) BY <1>1, <1>5
  <2>2. n .. end - 1 \in SUBSET Arena
    <3>1. n \in Nat /\ end \in Nat /\ end <= KHEAP_END /\ n >= KHEAP_START BY <1>1, <1>6
    <3> QED BY <3>1, ServiceFields DEF Arena
  <2>3. Region(curr, rest) \subseteq n .. end - 1 BY <1>1, <1>6
  <2> HIDE DEF e, rest
  <2> QED BY <1>6, <2>1, <2>2, <2>3, DataNew
<1>8. (n .. end - 1) \ Region(curr, rest) = H
  <2>1. curr <= end BY <1>1, <1>6, Layout DEF rest
  <2> HIDE DEF rest
  <2> QED BY <1>1, <1>6, <2>1
<1> HIDE DEF e, moved, rest
<1>9. /\ moved \in SoundHeaps(H) /\ moved \in Heaps /\ Tiles(moved, H)
      /\ voids(moved) = voids(h) /\ Data(moved) = (Data(h) \ {n}) \cup {curr}
      /\ moved.head[curr].size >= size
      /\ curr \notin BlocksOf(e)
  BY <1>5, <1>6, <1>7, <1>8 DEF WithData, SoundHeaps
<1>10. Kept(moved, h, (Data(h) \ {n}) \cup voids(h))
  <2>1. Kept(moved, e, (Data(h) \ {n}) \cup voids(h)) BY <1>5, <1>7 DEF WithData
  <2>2. Kept(e, h, (Data(h) \ {n}) \cup voids(h)) BY <1>5
  <2> QED BY <2>1, <2>2, KeptTwice
<1>11. curr \notin Data(h) \ {n}
  <2>1. e \in Heaps BY <1>5 DEF SoundHeaps
  <2> QED BY <1>5, <1>9, <2>1, Kinds
<1>12. b \in Data(h) \ {n} /\ get_block_end(moved, b) = n /\ b \in BlocksOf(moved) /\ b # curr
  <2>1. b \in (Data(h) \ {n}) \cup voids(h) BY <1>2
  <2>2. get_block_end(moved, b) = n BY <1>1, <1>10, <2>1, KeptEnds
  <2>3. b \in Data(moved) BY <1>2, <1>9
  <2> QED BY <1>2, <1>9, <1>11, <2>2, <2>3, Kinds
<1>13. prev = b
  <2>1. n - 1 \in Arena \ H BY <1>1, <1>6, Layout DEF Arena, Addr
  <2>2. n \in H \cup BlocksOf(moved) \cup {KHEAP_END}
    <3>1. CASE n = curr
      <4>1. curr \in Data(moved) BY <1>9
      <4> QED BY <1>9, <3>1, <4>1, Kinds
    <3>2. CASE n # curr BY <1>1, <3>2
    <3> QED BY <3>1, <3>2
  <2> HIDE DEF H
  <2>3. prev \in BlocksOf(moved) /\ get_block_end(moved, prev) = n
    BY <1>1, <1>9, <2>1, <2>2, BlockBefore
  <2> HIDE DEF prev
  <2> QED BY <1>9, <1>12, <2>3, UniqueEnd
<1> HIDE DEF prev
<1>14. \A a \in voids(h) : get_block_end(moved, a) = get_block_end(h, a) /\ moved.head[a].size = h.head[a].size
  BY <1>10, KeptEnds
<1>15. \A a \in Data(h) \ {n} : get_block_end(moved, a) = get_block_end(h, a) /\ moved.head[a].size = h.head[a].size
  BY <1>10, KeptEnds
<1> DEFINE last == KHEAP_END - SERVICE_FIELDS_SIZE
<1>16. /\ last \in Data(h) \ {n} /\ KHEAP_START \in Data(h) \ {n} /\ b # last
       /\ h.head[last].size = 0
  <2>1. last \in Data(h) /\ KHEAP_START \in Data(h) /\ h.head[last].size = 0
    BY <1>0, GuardsAre DEF Guarded
  <2>2. get_block_end(h, last) = KHEAP_END BY <2>1, Layout DEF get_block_end
  <2>3. n < KHEAP_END BY <1>0, <1>1, BlocksInside, Layout DEF Arena
  <2>4. b # last BY <1>1, <2>2, <2>3, Layout
  <2> QED BY <1>0, <2>1, <2>4, GuardsAre
<1> HIDE DEF last
<1>17. gap \in Nat BY <1>1
<1>18. CASE gap - SERVICE_FIELDS_SIZE <= 0
  <2> DEFINE d == heap_block_erase(moved, b)
             s == moved.head[b].size
             Q == H \cup Body(moved, b)
  <2>1. g = create_block(d, "data", b, s + gap) BY <1>4, <1>13, <1>18
  <2>2. /\ d \in SoundHeaps(Q)
        /\ voids(d) = voids(moved) /\ Data(d) = Data(moved) \ {b}
        /\ Kept(d, moved, Data(d) \cup voids(moved))
    <3>1. b \in Data(moved) BY <1>9, <1>12
    <3> QED BY <1>9, <3>1, DataGone
  <2>3. s \in Nat /\ n = b + SERVICE_FIELDS_SIZE + s /\ Body(moved, b) = b .. n - 1
    BY <1>1, <1>9, <1>12, BlockEnds, RegionIsBody DEF Body
  <2>4. Q = b .. curr - 1 /\ b \in Nat
    <3>1. b \in Nat /\ b < n BY <1>1, Layout
    <3>2. n \in Nat /\ curr \in Nat /\ n <= curr BY <1>1, <1>17 DEF gap
    <3>3. Q = (n .. curr - 1) \cup (b .. n - 1) BY <2>3
    <3> HIDE DEF Q, b
    <3> QED BY <3>1, <3>2, <3>3
  <2>5. Region(b, s + gap) = Q /\ s + gap \in Nat
    <3>1. s + gap \in Nat BY <1>17, <2>3
    <3> HIDE DEF s, Q
    <3>0. n \in Nat /\ b \in Nat /\ s \in Nat /\ n = b + SERVICE_FIELDS_SIZE + s BY <1>1, <2>3, <2>4
    <3>2. b + SERVICE_FIELDS_SIZE + (s + gap) - 1 = curr - 1 BY <3>0, ServiceFields
    <3> QED BY <2>4, <3>1, <3>2 DEF Region
  <2>6. Q \in SUBSET Arena
    <3>1. curr <= KHEAP_END /\ b >= KHEAP_START BY <1>1, <1>6, Layout DEF Addr
    <3> HIDE DEF Q
    <3> QED BY <2>4, <3>1, ServiceFields DEF Arena
  <2> HIDE DEF d, s, Q, gap
  <2>7. Region(b, s + gap) \subseteq Q /\ Q \ Region(b, s + gap) = {} BY <2>5
  <2>8. WithData(g, d, Q, b, s + gap) BY <1>1, <2>1, <2>2, <2>5, <2>6, <2>7, DataNew
  <2>9. /\ g \in SoundHeaps({}) /\ voids(g) = voids(h)
        /\ Data(g) = (Data(h) \ {n}) \cup {curr}
        /\ g.head[b].size = s + gap
        /\ Kept(g, d, Data(d) \cup voids(d))
    BY <1>9, <1>12, <2>2, <2>7, <2>8 DEF WithData
  <2>10. Kept(g, moved, Data(d) \cup voids(h)) BY <1>9, <2>2, <2>9, KeptTwice
  <2>11. Data(d) = (Data(h) \ {n, b}) \cup {curr} BY <1>9, <1>12, <2>2
  <2>12. /\ \A a \in voids(h) : get_block_end(g, a) = get_block_end(h, a) /\ g.head[a].size = h.head[a].size
         /\ \A a \in Data(h) \ {n, b} : Same(g, h, a) /\ g.head[a].size = h.head[a].size
         /\ g.head[curr].size = moved.head[curr].size
    <3>1. \A a \in voids(h) : Same(g, moved, a) BY <2>10 DEF Kept
    <3>2. \A a \in Data(h) \ {n, b} : Same(g, moved, a) /\ Same(moved, h, a)
      BY <1>10, <2>10, <2>11 DEF Kept
    <3>3. Same(g, moved, curr) BY <2>10, <2>11 DEF Kept
    <3> QED BY <1>14, <3>1, <3>2, <3>3, SameEnds DEF Same
  <2>13. s = h.head[b].size BY <1>12, <1>15 DEF s
  <2>14. g.head[b].size >= h.head[b].size BY <1>17, <2>3, <2>9, <2>13
  <2>15. ASSUME NEW a \in Data(h) \ {n} PROVE g.head[a].size >= h.head[a].size
    <3>1. CASE a = b BY <2>14, <3>1
    <3>2. CASE a # b
      <4>1. h.head[a].size \in Nat
        <5>1. a \in Addr BY DEF Data
        <5> QED BY <1>0, <5>1, BlockEnds
      <4> QED BY <2>12, <3>2, <4>1
    <3> QED BY <3>1, <3>2
  <2>16. Separated(g) BY <1>0, <2>9, <2>12 DEF Separated
  <2>17. Guarded(g)
    <3>1. Guards \subseteq Data(g) BY <1>0, <2>9 DEF Guarded
    <3>2. last \in Data(h) \ {n, b} BY <1>16
    <3>3. g.head[last].size = 0 BY <1>16, <2>12, <3>2
    <3> QED BY <3>1, <3>3 DEF Guarded, last
  <2>18. \/ Same(g, h, KHEAP_START)
         \/ get_block_end(h, KHEAP_START) = n /\ get_block_end(g, KHEAP_START) = curr
    <3>1. CASE KHEAP_START # b BY <1>16, <2>12, <3>1
    <3>2. CASE KHEAP_START = b
      <4>1. get_block_end(g, b) = b + SERVICE_FIELDS_SIZE + (s + gap) BY <2>9 DEF get_block_end
      <4>2. get_block_end(g, b) = curr BY <1>1, <2>3, <2>4, <4>1, Layout DEF gap
      <4> QED BY <1>1, <3>2, <4>2
    <3> QED BY <3>1, <3>2
  <2>19. g.head[curr].size >= size BY <1>9, <2>12
  <2>20. g \in GoodHeaps BY <2>9, <2>16, <2>17 DEF GoodHeaps
  <2> QED BY <1>3, <1>11, <2>9, <2>15, <2>18, <2>19, <2>20 DEF g
<1>19. CASE ~ (gap - SERVICE_FIELDS_SIZE <= 0)
  <2> DEFINE s == gap - SERVICE_FIELDS_SIZE
  <2>1. g = add_void(moved, n, s) BY <1>4, <1>19
  <2>2. s \in Nat /\ s > 0 BY <1>17, <1>19, Layout
  <2>6. curr = n + SERVICE_FIELDS_SIZE + s /\ curr # n
    <3>1. n \in Nat /\ curr - n > SERVICE_FIELDS_SIZE BY <1>1, <1>19, ServiceFields
    <3> QED BY <3>1, ServiceFields
  <2>3. Region(n, s) = H
    <3>0. n \in Nat BY <1>1
    <3>1. n + SERVICE_FIELDS_SIZE + s - 1 = curr - 1 BY <3>0, ServiceFields
    <3> QED BY <3>1 DEF Region
  <2>4. H \in SUBSET Arena
    <3>1. n \in Nat /\ n >= KHEAP_START /\ curr <= KHEAP_END BY <1>1, <1>6, Layout DEF Addr
    <3> QED BY <3>1, ServiceFields DEF Arena
  <2>5. H \ Region(n, s) = {} /\ Region(n, s) \subseteq H BY <2>3
  <2> HIDE DEF s, H
  <2>7. WithVoid(g, moved, H, n, s) BY <1>1, <1>9, <2>1, <2>2, <2>4, <2>5, VoidNew
  <2>8. /\ g \in SoundHeaps({}) /\ voids(g) = voids(h) \cup {n}
        /\ Data(g) = (Data(h) \ {n}) \cup {curr}
        /\ g.head[n].size = s
        /\ Kept(g, moved, Data(moved) \cup voids(h))
    BY <1>9, <2>5, <2>7 DEF WithVoid
  <2>9. get_block_end(g, n) = curr BY <2>6, <2>8 DEF get_block_end
  <2>10. Kept(g, h, (Data(h) \ {n}) \cup voids(h))
    <3>1. Kept(g, moved, (Data(h) \ {n}) \cup voids(h)) BY <1>9, <2>8 DEF Kept
    <3> QED BY <1>10, <3>1, KeptTwice
  <2>11. g.head[curr].size >= size
    <3>1. g.head[curr].size = moved.head[curr].size BY <1>9, <2>8 DEF Kept, Same
    <3> QED BY <1>9, <3>1
  <2>12. Separated(g)
    <3>1. ASSUME NEW a \in voids(h) PROVE g.head[a].size > 0 /\ get_block_end(g, a) \notin voids(g)
      <4>1. get_block_end(g, a) = get_block_end(h, a) /\ g.head[a].size = h.head[a].size
        BY <2>10, KeptEnds
      <4> QED BY <1>0, <2>8, <4>1 DEF Separated
    <3>2. curr \notin voids(h)
      <4>1. curr \in Data(moved) BY <1>9
      <4> QED BY <1>9, <4>1, Kinds
    <3> QED BY <2>2, <2>6, <2>8, <2>9, <3>1, <3>2 DEF Separated
  <2>13. \A a \in Data(h) \ {n} : Same(g, h, a) BY <2>10 DEF Kept
  <2>14. ASSUME NEW a \in Data(h) \ {n} PROVE g.head[a].size >= h.head[a].size
    <3>1. a \in Addr BY DEF Data
    <3>2. h.head[a].size \in Nat BY <1>0, <3>1, BlockEnds
    <3> QED BY <2>13, <3>2 DEF Same
  <2>15. Guarded(g)
    <3>1. Guards \subseteq Data(g) BY <1>0, <2>8 DEF Guarded
    <3>2. g.head[last].size = 0 BY <1>16, <2>13 DEF Same
    <3> QED BY <3>1, <3>2 DEF Guarded, last
  <2>16. Same(g, h, KHEAP_START) BY <1>16, <2>13
  <2>17. g \in GoodHeaps BY <2>8, <2>12, <2>15 DEF GoodHeaps
  <2> QED BY <1>3, <1>11, <2>8, <2>11, <2>14, <2>16, <2>17 DEF g
<1> QED BY <1>18, <1>19

---------------------------------------------------------------------------
(* Alignments.                                                             *)

LEMMA PowersDouble ==
  /\ \A i \in 0 .. 29 : 2 ^ i > 0 /\ 2 ^ i \in Nat /\ 2 ^ (i + 1) = 2 * 2 ^ i
  /\ 2 ^ 0 = 1 /\ \A i \in 0 .. 30 : 2 ^ i > 0 /\ 2 ^ i \in Nat
<1> DEFINE P(i) == 2 ^ i > 0 /\ 2 ^ i \in Nat /\ 2 ^ (i + 1) = 2 * 2 ^ i
           Q(i) == 2 ^ i > 0 /\ 2 ^ i \in Nat
<1>1. /\ P(0) /\ P(1) /\ P(2) /\ P(3) /\ P(4) /\ P(5) /\ P(6) /\ P(7) /\ P(8) /\ P(9)
      /\ P(10) /\ P(11) /\ P(12) /\ P(13) /\ P(14) /\ P(15) /\ P(16) /\ P(17) /\ P(18) /\ P(19)
      /\ P(20) /\ P(21) /\ P(22) /\ P(23) /\ P(24) /\ P(25) /\ P(26) /\ P(27) /\ P(28) /\ P(29)
  OBVIOUS
<1>2. Q(30) /\ 2 ^ 0 = 1 OBVIOUS
<1> HIDE DEF P
<1>3. ASSUME NEW i \in 0 .. 29 PROVE P(i)
  <2>1. \/ i = 0 \/ i = 1 \/ i = 2 \/ i = 3 \/ i = 4 \/ i = 5 \/ i = 6 \/ i = 7 \/ i = 8 \/ i = 9
        \/ i = 10 \/ i = 11 \/ i = 12 \/ i = 13 \/ i = 14 \/ i = 15 \/ i = 16 \/ i = 17 \/ i = 18
        \/ i = 19 \/ i = 20 \/ i = 21 \/ i = 22 \/ i = 23 \/ i = 24 \/ i = 25 \/ i = 26 \/ i = 27
        \/ i = 28 \/ i = 29
    OBVIOUS
  <2> QED BY <1>1, <2>1
<1>4. \A i \in 0 .. 29 : Q(i) BY <1>3 DEF P
<1> HIDE DEF Q
<1>5. \A i \in 0 .. 30 : i = 30 \/ i \in 0 .. 29 OBVIOUS
<1>6. \A i \in 0 .. 30 : Q(i) BY <1>2, <1>4, <1>5
<1>7. \A i \in 0 .. 29 : P(i) BY <1>3
<1> QED BY <1>2, <1>6, <1>7 DEF P, Q

LEMMA PowersDivide ==
  ASSUME NEW i \in 0 .. 30, NEW j \in 0 .. 30, i <= j
  PROVE  \E k \in Nat : 2 ^ j = k * 2 ^ i
<1> DEFINE S == {n \in 0 .. 30 : i <= n /\ ~ \E k \in Nat : 2 ^ n = k * 2 ^ i}
<1>1. SUFFICES ASSUME S # {} PROVE FALSE OBVIOUS
<1>a. S \in SUBSET Nat OBVIOUS
<1>b. \A n \in S : n \in 0 .. 30 /\ i <= n /\ ~ \E k \in Nat : 2 ^ n = k * 2 ^ i OBVIOUS
<1>c. \A n \in 0 .. 30 : n \notin S /\ i <= n => \E k \in Nat : 2 ^ n = k * 2 ^ i OBVIOUS
<1> HIDE DEF S
<1>2. PICK n \in S : \A l \in S : n <= l BY <1>1, <1>a, LeastNat
<1>3. n \in 0 .. 30 /\ i <= n BY <1>b
<1>4. CASE n = i
  <2>1. 2 ^ i \in Nat BY PowersDouble
  <2>2. 2 ^ i = 1 * 2 ^ i BY <2>1
  <2> QED BY <1>b, <1>4, <2>2
<1>5. CASE n # i
  <2>1. n - 1 \in 0 .. 29 /\ n - 1 \in 0 .. 30 /\ i <= n - 1 /\ n - 1 \notin S /\ (n - 1) + 1 = n
    BY <1>2, <1>3, <1>5
  <2>2. PICK k \in Nat : 2 ^ (n - 1) = k * 2 ^ i BY <1>c, <2>1
  <2>3. 2 ^ ((n - 1) + 1) = 2 * 2 ^ (n - 1) BY <2>1, PowersDouble
  <2>4. 2 ^ n = 2 * (k * 2 ^ i) BY <2>1, <2>2, <2>3
  <2> DEFINE p == 2 ^ i
  <2>5. p \in Nat BY PowersDouble
  <2>6. 2 ^ n = 2 * (k * p) BY <2>4
  <2> HIDE DEF p
  <2>7. 2 * (k * p) = (2 * k) * p BY <2>5
  <2>8. 2 ^ n = (2 * k) * p /\ 2 * k \in Nat BY <2>6, <2>7
  <2> QED BY <1>b, <2>8 DEF p
<1> QED BY <1>4, <1>5

LEMMA AlignmentsDivide ==
  ASSUME NEW a \in Alignments \cup {1}, NEW b \in Alignments \cup {1}
  PROVE  a \in Nat /\ a > 0 /\ (a <= b => \E k \in Nat : b = k * a)
<1>1. \A c \in Alignments \cup {1} : \E i \in 0 .. 30 : c = 2 ^ i
  BY HeapAssumption, PowersDouble
<1>2. PICK i \in 0 .. 30 : a = 2 ^ i BY <1>1
<1>3. PICK j \in 0 .. 30 : b = 2 ^ j BY <1>1
<1>4. a \in Nat /\ a > 0 /\ b \in Nat /\ b > 0 BY <1>2, <1>3, PowersDouble
<1>5. CASE i <= j
  <2>1. \E k \in Nat : 2 ^ j = k * 2 ^ i BY <1>5, PowersDivide
  <2> QED BY <1>2, <1>3, <1>4, <2>1
<1>6. CASE j <= i
  <2>1. PICK k \in Nat : 2 ^ i = k * 2 ^ j BY <1>6, PowersDivide
  <2>2. a = k * b BY <1>2, <1>3, <2>1
  <2>3. a <= b => b = 1 * a
    <3>1. k # 0 BY <1>4, <2>2
    <3>2. k >= 1 BY <3>1
    <3>3. k * b >= b BY <1>4, <3>2
    <3> QED BY <1>4, <2>2, <3>3
  <2> QED BY <1>4, <2>3
<1> QED BY <1>5, <1>6

\* The least multiple of the alignment that is not below the address.
LEMMA AlignUp ==
  ASSUME NEW p \in Nat, NEW a \in Nat, a > 0
  PROVE  /\ align_up(p, a) \in Nat /\ p <= align_up(p, a) /\ align_up(p, a) < p + a
         /\ \E k \in Nat : align_up(p, a) = k * a
         /\ \A k \in Nat : k * a >= p => align_up(p, a) <= k * a
<1> DEFINE q == (p + a - 1) \div a
<1>1. q \in Nat /\ q * a <= p + a - 1 /\ p + a - 1 < q * a + a OBVIOUS
<1>2. align_up(p, a) = q * a BY DEF align_up
<1>3. ASSUME NEW k \in Nat, k * a >= p PROVE q * a <= k * a BY <1>3
<1> HIDE DEF q
<1>4. q * a \in Nat BY <1>1
<1> QED BY <1>1, <1>2, <1>3, <1>4

LEMMA AlignTwice ==
  ASSUME NEW a \in Alignments \cup {1}, NEW b \in Alignments \cup {1}, NEW p \in Nat
  PROVE  align_up(align_up(p, a), b) = align_up(p, IF a <= b THEN b ELSE a)
<1> DEFINE x == align_up(p, a)
           y == align_up(p, b)
           z == align_up(x, b)
<1>1. a \in Nat /\ a > 0 /\ b \in Nat /\ b > 0 BY AlignmentsDivide
<1>2. /\ x \in Nat /\ p <= x
      /\ \E k \in Nat : x = k * a
      /\ \A k \in Nat : k * a >= p => x <= k * a
  BY <1>1, AlignUp
<1>3. /\ y \in Nat /\ p <= y
      /\ \E k \in Nat : y = k * b
      /\ \A k \in Nat : k * b >= p => y <= k * b
  BY <1>1, AlignUp
<1> HIDE DEF x, y
<1>4. /\ z \in Nat /\ x <= z
      /\ \E k \in Nat : z = k * b
      /\ \A k \in Nat : k * b >= x => z <= k * b
  BY <1>1, <1>2, AlignUp
<1> HIDE DEF z
<1>5. CASE a <= b
  <2>1. PICK d \in Nat : b = d * a BY <1>5, AlignmentsDivide
  <2>2. PICK k \in Nat : y = k * b BY <1>3
  <2>3. y = (k * d) * a /\ k * d \in Nat
    <3>1. k * (d * a) = (k * d) * a BY <1>1
    <3> QED BY <2>1, <2>2, <3>1
  <2>4. x <= y BY <1>2, <1>3, <2>3
  <2>5. z <= y BY <1>4, <2>2, <2>4
  <2>6. PICK l \in Nat : z = l * b BY <1>4
  <2>7. z >= p BY <1>2, <1>4
  <2>8. y <= z BY <1>3, <2>6, <2>7
  <2>9. z = y BY <1>3, <1>4, <2>5, <2>8
  <2> QED BY <1>5, <2>9 DEF x, y, z
<1>6. CASE ~ (a <= b)
  <2>1. b <= a BY <1>1, <1>6
  <2>2. PICK d \in Nat : a = d * b BY <2>1, AlignmentsDivide
  <2>3. PICK k \in Nat : x = k * a BY <1>2
  <2>4. x = (k * d) * b /\ k * d \in Nat
    <3>1. k * (d * b) = (k * d) * b BY <1>1
    <3> QED BY <2>2, <2>3, <3>1
  <2>5. z <= x BY <1>2, <1>4, <2>4
  <2>6. z = x BY <1>2, <1>4, <2>5
  <2> QED BY <1>6, <2>6 DEF x, z
<1> QED BY <1>5, <1>6

---------------------------------------------------------------------------
(* What holds between two calls.                                           *)

\* The blocks of callers are the data blocks but for the guards.
Held(h, blocks) ==
  /\ \A b \in blocks :
       \E a \in Data(h) \ Guards :
         /\ b.size \in Sizes /\ b = Block(a + LEFT_EDGE_SIZE, b.size)
         /\ h.head[a].size >= b.size
  /\ \A a \in Data(h) \ Guards : \E b \in blocks : b.ptr = a + LEFT_EDGE_SIZE
  /\ \A b, c \in blocks : b.ptr = c.ptr => b = c

\* The data behind the first guard starts at a multiple of some alignment, the
\* least one that is not below where it started at first.
FirstData == KHEAP_START + SERVICE_FIELDS_SIZE + LEFT_EDGE_SIZE

Padded(h) ==
  \E alignment \in Alignments \cup {1} :
    get_block_end(h, KHEAP_START) + LEFT_EDGE_SIZE = align_up(FirstData, alignment)

Sound(h, blocks) == h \in GoodHeaps /\ Held(h, blocks) /\ Padded(h)

LEMMA GoodHeap ==
  ASSUME NEW h \in GoodHeaps
  PROVE  /\ h \in SoundHeaps({}) /\ h \in Heaps /\ Tiles(h, {}) /\ Lists(h) /\ Guarded(h) /\ Separated(h)
         /\ BlocksOf(h) = Data(h) \cup voids(h) /\ Data(h) \cap voids(h) = {}
         /\ Guards \subseteq Data(h)
         /\ \A a \in Data(h) : a \in Addr /\ a \in Nat /\ h.head[a].size \in Nat
BY Kinds, BlockEnds DEF GoodHeaps, SoundHeaps, Guarded, Data

LEMMA HeldBlock ==
  ASSUME NEW h \in GoodHeaps, NEW blocks, Held(h, blocks), NEW b \in blocks
  PROVE  LET a == b.ptr - LEFT_EDGE_SIZE
         IN  /\ a \in Data(h) \ Guards /\ b.ptr = a + LEFT_EDGE_SIZE
             /\ b.size \in Nat /\ b.size > 0 /\ b.size \in Sizes /\ b = Block(b.ptr, b.size)
             /\ h.head[a].size >= b.size /\ h.head[a].size > 0
             /\ h.head[a].signature = "data"
<1>1. PICK a \in Data(h) \ Guards :
        /\ b.size \in Sizes /\ b = Block(a + LEFT_EDGE_SIZE, b.size)
        /\ h.head[a].size >= b.size
  BY DEF Held
<1>2. b.ptr = a + LEFT_EDGE_SIZE BY <1>1 DEF Block
<1>3. a \in Nat /\ h.head[a].size \in Nat BY GoodHeap
<1>4. b.ptr - LEFT_EDGE_SIZE = a BY <1>2, <1>3, ServiceFields
<1>5. b.size \in Nat /\ b.size > 0
  <2>1. b.size \in Sizes BY <1>1
  <2>2. \A s \in Sizes : s \in Nat /\ s > 0 BY HeapAssumption
  <2> QED BY <2>1, <2>2
<1>6. h.head[a].size > 0 BY <1>1, <1>3, <1>5
<1>7. h.head[a].signature = "data" BY DEF Data
<1> QED BY <1>1, <1>2, <1>4, <1>5, <1>6, <1>7

\* Blocks whose bytes are the same or more are held as before.
Larger(g, h, S) == \A a \in S : g.head[a].size >= h.head[a].size

LEMMA KeptLarger ==
  ASSUME NEW h \in GoodHeaps, NEW g, NEW S \in SUBSET Data(h), Kept(g, h, S)
  PROVE  Larger(g, h, S)
BY GoodHeap DEF Kept, Same, Larger

LEMMA HeldMore ==
  ASSUME NEW h \in GoodHeaps, NEW blocks, Held(h, blocks), NEW g \in GoodHeaps,
         NEW n, n \notin Data(h), Data(g) = Data(h) \cup {n}, Larger(g, h, Data(h)),
         NEW size \in Sizes, g.head[n].size >= size
  PROVE  Held(g, blocks \cup {Block(n + LEFT_EDGE_SIZE, size)})
<1> DEFINE c == Block(n + LEFT_EDGE_SIZE, size)
<1>1. n \in Data(g) \ Guards /\ c.ptr = n + LEFT_EDGE_SIZE /\ c.size = size
  BY GoodHeap DEF Block
<1>2. ASSUME NEW b \in blocks \cup {c}
      PROVE  \E a \in Data(g) \ Guards :
               /\ b.size \in Sizes /\ b = Block(a + LEFT_EDGE_SIZE, b.size)
               /\ g.head[a].size >= b.size
  <2>1. CASE b = c BY <1>1, <2>1
  <2>2. CASE b \in blocks
    <3>1. PICK a \in Data(h) \ Guards :
            /\ b.size \in Sizes /\ b = Block(a + LEFT_EDGE_SIZE, b.size)
            /\ h.head[a].size >= b.size
      BY <2>2 DEF Held
    <3>2. g.head[a].size >= h.head[a].size /\ a \in Data(g) BY DEF Larger
    <3>3. g.head[a].size \in Nat /\ h.head[a].size \in Nat /\ b.size \in Nat
      BY <3>1, <3>2, GoodHeap, HeapAssumption
    <3> QED BY <3>1, <3>2, <3>3
  <2> QED BY <2>1, <2>2
<1>3. \A b \in blocks : b.ptr # c.ptr
  <2>1. ASSUME NEW b \in blocks, b.ptr = c.ptr PROVE FALSE
    <3>1. b.ptr - LEFT_EDGE_SIZE \in Data(h) BY HeldBlock
    <3>2. n \in Nat BY <1>1, GoodHeap
    <3>3. b.ptr - LEFT_EDGE_SIZE = n BY <1>1, <2>1, <3>2, ServiceFields
    <3> QED BY <3>1, <3>3
  <2> QED BY <2>1
<1>4. ASSUME NEW a \in Data(g) \ Guards PROVE \E b \in blocks \cup {c} : b.ptr = a + LEFT_EDGE_SIZE
  <2>1. CASE a = n BY <1>1, <2>1
  <2>2. CASE a # n BY <2>2 DEF Held
  <2> QED BY <2>1, <2>2
<1> HIDE DEF c
<1>5. \A b, d \in blocks \cup {c} : b.ptr = d.ptr => b = d BY <1>3 DEF Held
<1> QED BY <1>2, <1>4, <1>5 DEF Held, c

LEMMA HeldLess ==
  ASSUME NEW h \in GoodHeaps, NEW blocks, Held(h, blocks), NEW g \in GoodHeaps,
         NEW c \in blocks, NEW n, c.ptr = n + LEFT_EDGE_SIZE, n \in Data(h),
         Data(g) = Data(h) \ {n}, Larger(g, h, Data(g))
  PROVE  Held(g, blocks \ {c})
<1>1. ASSUME NEW b \in blocks \ {c}
      PROVE  \E a \in Data(g) \ Guards :
               /\ b.size \in Sizes /\ b = Block(a + LEFT_EDGE_SIZE, b.size)
               /\ g.head[a].size >= b.size
  <2>1. PICK a \in Data(h) \ Guards :
          /\ b.size \in Sizes /\ b = Block(a + LEFT_EDGE_SIZE, b.size)
          /\ h.head[a].size >= b.size
    BY DEF Held
  <2>2. b.ptr = a + LEFT_EDGE_SIZE BY <2>1 DEF Block
  <2>3. a # n BY <2>2 DEF Held
  <2>4. a \in Data(g) /\ g.head[a].size >= h.head[a].size BY <2>3 DEF Larger
  <2>5. g.head[a].size \in Nat /\ h.head[a].size \in Nat /\ b.size \in Nat
    BY <2>1, <2>4, GoodHeap, HeapAssumption
  <2> QED BY <2>1, <2>4, <2>5
<1>2. ASSUME NEW a \in Data(g) \ Guards PROVE \E b \in blocks \ {c} : b.ptr = a + LEFT_EDGE_SIZE
  <2>1. PICK b \in blocks : b.ptr = a + LEFT_EDGE_SIZE BY DEF Held
  <2>2. a # n /\ a \in Nat /\ n \in Nat BY GoodHeap
  <2>3. b # c BY <2>1, <2>2, ServiceFields
  <2> QED BY <2>1, <2>3
<1> QED BY <1>1, <1>2 DEF Held

LEMMA HeldResized ==
  ASSUME NEW h \in GoodHeaps, NEW blocks, Held(h, blocks), NEW g \in GoodHeaps,
         NEW c \in blocks, NEW n, c.ptr = n + LEFT_EDGE_SIZE, n \in Data(h) \ Guards,
         Data(g) = Data(h), Larger(g, h, Data(h) \ {n}),
         NEW size \in Sizes, g.head[n].size >= size
  PROVE  Held(g, (blocks \ {c}) \cup {Block(c.ptr, size)})
<1> DEFINE d == Block(c.ptr, size)
<1>0. d.ptr = c.ptr /\ d.size = size /\ d = Block(n + LEFT_EDGE_SIZE, size) BY DEF Block
<1>1. ASSUME NEW b \in (blocks \ {c}) \cup {d}
      PROVE  \E a \in Data(g) \ Guards :
               /\ b.size \in Sizes /\ b = Block(a + LEFT_EDGE_SIZE, b.size)
               /\ g.head[a].size >= b.size
  <2>0. CASE b = d BY <1>0, <2>0
  <2>9. CASE b \in blocks \ {c}
    <3>1. PICK a \in Data(h) \ Guards :
            /\ b.size \in Sizes /\ b = Block(a + LEFT_EDGE_SIZE, b.size)
            /\ h.head[a].size >= b.size
      BY <2>9 DEF Held
    <3>2. b.ptr = a + LEFT_EDGE_SIZE BY <3>1 DEF Block
    <3>3. a # n BY <2>9, <3>2 DEF Held
    <3>4. a \in Data(g) /\ g.head[a].size >= h.head[a].size BY <3>3 DEF Larger
    <3>5. g.head[a].size \in Nat /\ h.head[a].size \in Nat /\ b.size \in Nat
      BY <3>1, <3>4, GoodHeap, HeapAssumption
    <3> QED BY <3>1, <3>4, <3>5
  <2> QED BY <2>0, <2>9
<1>2. ASSUME NEW a \in Data(g) \ Guards
      PROVE  \E b \in (blocks \ {c}) \cup {d} : b.ptr = a + LEFT_EDGE_SIZE
  <2>1. PICK b \in blocks : b.ptr = a + LEFT_EDGE_SIZE BY DEF Held
  <2>2. CASE b = c BY <1>0, <2>1, <2>2
  <2>3. CASE b # c BY <2>1, <2>3
  <2> QED BY <2>2, <2>3
<1> HIDE DEF d
<1>3. \A b, e \in (blocks \ {c}) \cup {d} : b.ptr = e.ptr => b = e BY <1>0 DEF Held
<1> QED BY <1>1, <1>2, <1>3 DEF Held, d

\* What malloc leaves where it finds a void.
Got(g, h, n, size) ==
  /\ g \in GoodHeaps /\ Data(g) = Data(h) \cup {n} /\ n \notin Data(h) /\ n \in Nat
  /\ g.head[n].size >= size
  /\ Kept(g, h, Data(h))
  /\ \A a \in voids(g) : get_block_end(g, a) # n

LEMMA MallocResult ==
  ASSUME NEW h \in GoodHeaps, NEW size \in Nat, size <= 2 ^ (HEAP_VOID_BUCKET_COUNT - 1)
  PROVE  \/ malloc(h, size).ptr = NULL /\ \A a \in voids(h) : h.head[a].size < size
         \/ /\ malloc(h, size).ptr # NULL
            /\ \E n : malloc(h, size).ptr = n + LEFT_EDGE_SIZE /\ Got(malloc(h, size).heap, h, n, size)
<1> DEFINE m == malloc(h, size)
<1>0. h \in Heaps /\ Lists(h) BY GoodHeap
<1>1. \/ /\ m.ptr = NULL /\ m.heap = h
         /\ \A a \in voids(h) : h.head[a].size < size
      \/ \E n \in voids(h) :
           /\ h.head[n].size >= size
           /\ m.ptr = n + LEFT_EDGE_SIZE /\ m.ptr # NULL
           /\ m.heap = take_void(h, bucket_of(h, n), n, size)
  BY <1>0, MallocFinds
<1> HIDE DEF m
<1>2. ASSUME NEW n \in voids(h), h.head[n].size >= size,
             m.heap = take_void(h, bucket_of(h, n), n, size)
      PROVE  Got(m.heap, h, n, size)
  <2> DEFINE g == take_void(h, bucket_of(h, n), n, size)
  <2>1. /\ g \in GoodHeaps /\ Data(g) = Data(h) \cup {n} /\ n \notin Data(h)
        /\ g.head[n].size >= size
        /\ \A a \in Data(h) : Same(g, h, a)
        /\ \A a \in voids(g) : get_block_end(g, a) # n
    BY <1>2, TakeVoid
  <2>2. m.heap = g BY <1>2
  <2> HIDE DEF g
  <2>3. n \in Nat BY Layout DEF voids
  <2> QED BY <2>1, <2>2, <2>3 DEF Got, Kept
<1> QED BY <1>1, <1>2 DEF m

LEMMA PaddedSame ==
  ASSUME NEW g, NEW h, Padded(h), Same(g, h, KHEAP_START)
  PROVE  Padded(g)
BY SameEnds DEF Padded

\* The sizes that callers ask for are in the buckets' range.
LEMMA SizesServed ==
  ASSUME NEW size \in Sizes
  PROVE  /\ size \in Nat /\ size > 0 /\ size <= 2 ^ (HEAP_VOID_BUCKET_COUNT - 1)
         /\ \A alignment \in Alignments :
              /\ alignment \in Nat /\ alignment > 0
              /\ size + alignment - 1 \in Nat
              /\ size + alignment - 1 <= 2 ^ (HEAP_VOID_BUCKET_COUNT - 1)
<1>1. size \in Nat /\ size > 0 BY HeapAssumption
<1>2. size + 1 - 1 <= 2 ^ (HEAP_VOID_BUCKET_COUNT - 1) BY HeapAssumption
<1>3. size + 1 - 1 = size BY <1>1
<1>4. ASSUME NEW alignment \in Alignments
      PROVE  /\ alignment \in Nat /\ alignment > 0
             /\ size + alignment - 1 \in Nat
             /\ size + alignment - 1 <= 2 ^ (HEAP_VOID_BUCKET_COUNT - 1)
  <2>1. alignment \in Nat /\ alignment > 0 BY AlignmentsDivide
  <2>2. size + alignment - 1 \in Nat BY <1>1, <2>1
  <2> QED BY <2>1, <2>2, HeapAssumption
<1> QED BY <1>1, <1>2, <1>3, <1>4

---------------------------------------------------------------------------
(* The calls keep it.                                                      *)

LEMMA MallocSound ==
  ASSUME NEW h, NEW blocks, Sound(h, blocks), NEW size \in Sizes, NEW n, NEW g, Got(g, h, n, size)
  PROVE  Sound(g, blocks \cup {Block(n + LEFT_EDGE_SIZE, size)})
<1>1. h \in GoodHeaps /\ Held(h, blocks) /\ Padded(h) BY DEF Sound
<1>2. /\ g \in GoodHeaps /\ Data(g) = Data(h) \cup {n} /\ n \notin Data(h)
      /\ g.head[n].size >= size /\ Kept(g, h, Data(h))
  BY DEF Got
<1>3. Larger(g, h, Data(h)) BY <1>1, <1>2, KeptLarger
<1>4. Held(g, blocks \cup {Block(n + LEFT_EDGE_SIZE, size)}) BY <1>1, <1>2, <1>3, HeldMore
<1>5. KHEAP_START \in Data(h) BY <1>1, GoodHeap, GuardsAre
<1>6. Same(g, h, KHEAP_START) BY <1>2, <1>5 DEF Kept
<1>7. Padded(g) BY <1>1, <1>6, PaddedSame
<1> QED BY <1>2, <1>4, <1>7 DEF Sound

LEMMA AllignedSound ==
  ASSUME NEW h, NEW blocks, Sound(h, blocks), NEW size \in Sizes, NEW alignment \in Alignments,
         NEW m, NEW n, m.ptr = n + LEFT_EDGE_SIZE, Got(m.heap, h, n, size + alignment - 1)
  PROVE  /\ block_before(m).signature = "data"
         /\ Sound(cut_gap(m, alignment), blocks \cup {Block(align_up(m.ptr, alignment), size)})
<1> DEFINE curr == align_up(m.ptr, alignment) - LEFT_EDGE_SIZE
           g == cut_gap(m, alignment)
           k == m.heap
<1>1. h \in GoodHeaps /\ Held(h, blocks) /\ Padded(h) BY DEF Sound
<1>2. /\ k \in GoodHeaps /\ Data(k) = Data(h) \cup {n} /\ n \notin Data(h) /\ n \in Nat
      /\ k.head[n].size >= size + alignment - 1
      /\ Kept(k, h, Data(h))
      /\ \A a \in voids(k) : get_block_end(k, a) # n
  BY DEF Got
<1>3. size \in Nat /\ alignment \in Nat /\ alignment > 0 BY SizesServed
<1>4. m.ptr \in Nat BY <1>2, ServiceFields
<1>5. align_up(m.ptr, alignment) \in Nat /\ m.ptr <= align_up(m.ptr, alignment)
      /\ align_up(m.ptr, alignment) < m.ptr + alignment
  BY <1>3, <1>4, AlignUp
<1>6. curr \in Nat /\ n <= curr /\ curr < n + alignment
      /\ align_up(m.ptr, alignment) = curr + LEFT_EDGE_SIZE
  BY <1>2, <1>3, <1>5, ServiceFields
<1> HIDE DEF curr, g, k
<1>7. n \in Data(k) \ Guards BY <1>1, <1>2, GoodHeap
<1>8. curr + SERVICE_FIELDS_SIZE + size <= get_block_end(k, n)
  <2> DEFINE s == k.head[n].size
  <2>1. s \in Nat BY <1>2, <1>7, GoodHeap
  <2>2. get_block_end(k, n) = n + SERVICE_FIELDS_SIZE + s BY DEF get_block_end
  <2>3. s >= size + alignment - 1 BY <1>2
  <2> HIDE DEF s
  <2> QED BY <1>2, <1>3, <1>6, <2>1, <2>2, <2>3, ServiceFields
<1>9. /\ block_before(m).signature = "data"
      /\ g \in GoodHeaps
      /\ Data(g) = (Data(k) \ {n}) \cup {curr} /\ curr \notin Data(k) \ {n}
      /\ g.head[curr].size >= size
      /\ \A a \in Data(k) \ {n} : g.head[a].size >= k.head[a].size
      /\ \/ Same(g, k, KHEAP_START)
         \/ get_block_end(k, KHEAP_START) = n /\ get_block_end(g, KHEAP_START) = curr
  <2>1. m.heap = k BY DEF k
  <2> QED BY <1>2, <1>3, <1>6, <1>7, <1>8, <2>1, Cut DEF g
<1>10. Data(k) \ {n} = Data(h) BY <1>2
<1>11. Held(g, blocks \cup {Block(curr + LEFT_EDGE_SIZE, size)})
  <2>1. Larger(g, h, Data(h))
    <3>1. \A a \in Data(h) : g.head[a].size >= h.head[a].size BY <1>2, <1>9, <1>10 DEF Kept, Same
    <3> QED BY <3>1 DEF Larger
  <2>2. Data(g) = Data(h) \cup {curr} /\ curr \notin Data(h) BY <1>9, <1>10
  <2> QED BY <1>1, <1>9, <2>1, <2>2, HeldMore
<1>12. KHEAP_START \in Data(h) BY <1>1, GoodHeap, GuardsAre
<1>13. Same(k, h, KHEAP_START) BY <1>2, <1>12 DEF Kept
<1>14. Padded(k) BY <1>1, <1>13, PaddedSame
<1>15. Padded(g)
  <2>1. CASE Same(g, k, KHEAP_START) BY <1>14, <2>1, PaddedSame
  <2>2. CASE get_block_end(k, KHEAP_START) = n /\ get_block_end(g, KHEAP_START) = curr
    <3>1. PICK a \in Alignments \cup {1} : n + LEFT_EDGE_SIZE = align_up(FirstData, a)
      BY <1>14, <2>2 DEF Padded
    <3>2. FirstData \in Nat BY ServiceFields DEF FirstData
    <3>3. curr + LEFT_EDGE_SIZE = align_up(align_up(FirstData, a), alignment) BY <1>6, <3>1
    <3>4. align_up(align_up(FirstData, a), alignment)
            = align_up(FirstData, IF a <= alignment THEN alignment ELSE a)
      BY <3>2, AlignTwice
    <3>5. (IF a <= alignment THEN alignment ELSE a) \in Alignments \cup {1} OBVIOUS
    <3> QED BY <2>2, <3>3, <3>4, <3>5 DEF Padded
  <2> QED BY <1>9, <2>1, <2>2
<1> QED BY <1>6, <1>9, <1>11, <1>15 DEF Sound, g

LEMMA FreeSound ==
  ASSUME NEW h, NEW blocks, Sound(h, blocks), NEW b \in blocks
  PROVE  Sound(free(h, b.ptr), blocks \ {b})
<1> DEFINE start == b.ptr - LEFT_EDGE_SIZE
           g == free(h, b.ptr)
<1>1. h \in GoodHeaps /\ Held(h, blocks) /\ Padded(h) BY DEF Sound
<1>2. start \in Data(h) \ Guards /\ b.ptr = start + LEFT_EDGE_SIZE /\ h.head[start].size > 0
  BY <1>1, HeldBlock
<1> HIDE DEF start
<1>3. g \in GoodHeaps /\ Data(g) = Data(h) \ {start} /\ Kept(g, h, Data(g))
  <2>1. g = free(h, start + LEFT_EDGE_SIZE) BY <1>2
  <2> HIDE DEF g
  <2> QED BY <1>1, <1>2, <2>1, Freed
<1> HIDE DEF g
<1>4. Larger(g, h, Data(g)) BY <1>1, <1>3, KeptLarger
<1>5. Held(g, blocks \ {b}) BY <1>1, <1>2, <1>3, <1>4, HeldLess
<1>6. KHEAP_START \in Data(g) BY <1>3, GoodHeap, GuardsAre
<1>7. Same(g, h, KHEAP_START) BY <1>3, <1>6 DEF Kept
<1>8. Padded(g) BY <1>1, <1>7, PaddedSame
<1> QED BY <1>3, <1>5, <1>8 DEF Sound, g

LEMMA GrowSound ==
  ASSUME NEW h, NEW blocks, Sound(h, blocks), NEW b \in blocks, NEW size \in Sizes,
         can_grow(h, b.ptr - LEFT_EDGE_SIZE, size)
  PROVE  Sound(grow(h, b.ptr - LEFT_EDGE_SIZE, size), (blocks \ {b}) \cup {Block(b.ptr, size)})
<1> DEFINE start == b.ptr - LEFT_EDGE_SIZE
           g == grow(h, start, size)
<1>1. h \in GoodHeaps /\ Held(h, blocks) /\ Padded(h) /\ size \in Nat BY SizesServed DEF Sound
<1>2. start \in Data(h) \ Guards /\ b.ptr = start + LEFT_EDGE_SIZE /\ can_grow(h, start, size)
  BY <1>1, HeldBlock
<1> HIDE DEF start
<1>3. g \in GoodHeaps /\ Data(g) = Data(h) /\ Kept(g, h, Data(h) \ {start}) /\ g.head[start].size >= size
  BY <1>1, <1>2, Grown
<1> HIDE DEF g
<1>4. Larger(g, h, Data(h) \ {start}) BY <1>1, <1>3, KeptLarger
<1>5. Held(g, (blocks \ {b}) \cup {Block(b.ptr, size)}) BY <1>1, <1>2, <1>3, <1>4, HeldResized
<1>6. KHEAP_START \in Data(h) \ {start} BY <1>1, <1>2, GoodHeap, GuardsAre
<1>7. Same(g, h, KHEAP_START) BY <1>3, <1>6 DEF Kept
<1>8. Padded(g) BY <1>1, <1>7, PaddedSame
<1> QED BY <1>3, <1>5, <1>8 DEF Sound, g, start

LEMMA FitSound ==
  ASSUME NEW h, NEW blocks, Sound(h, blocks), NEW b \in blocks, NEW size \in Sizes,
         h.head[b.ptr - LEFT_EDGE_SIZE].size >= size
  PROVE  Sound(h, (blocks \ {b}) \cup {Block(b.ptr, size)})
<1> DEFINE start == b.ptr - LEFT_EDGE_SIZE
<1>1. h \in GoodHeaps /\ Held(h, blocks) /\ Padded(h) BY DEF Sound
<1>2. start \in Data(h) \ Guards /\ b.ptr = start + LEFT_EDGE_SIZE /\ h.head[start].size >= size
  BY <1>1, HeldBlock
<1> HIDE DEF start
<1>3. Larger(h, h, Data(h) \ {start}) BY <1>1, GoodHeap DEF Larger
<1>4. Held(h, (blocks \ {b}) \cup {Block(b.ptr, size)}) BY <1>1, <1>2, <1>3, HeldResized
<1> QED BY <1>1, <1>4 DEF Sound

\* Every block that is held has bytes of its own.
LEMMA BlocksUsable ==
  ASSUME NEW h, NEW blocks, Sound(h, blocks), NEW b \in blocks
  PROVE  AbstractAllocator!Usable(b, blocks \ {b})
<1> DEFINE start(c) == c.ptr - LEFT_EDGE_SIZE
<1>1. h \in GoodHeaps /\ Held(h, blocks) /\ h \in Heaps /\ Tiles(h, {})
  BY GoodHeap DEF Sound
<1>2. ASSUME NEW c \in blocks
      PROVE  /\ start(c) \in BlocksOf(h) /\ start(c) \in Nat /\ c.ptr = start(c) + LEFT_EDGE_SIZE
             /\ c.size \in Nat /\ c.ptr \in Nat
             /\ c.ptr + c.size <= get_block_end(h, start(c))
             /\ get_block_end(h, start(c)) <= KHEAP_END /\ KHEAP_START <= start(c)
  <2> DEFINE s == h.head[start(c)].size
  <2>1. start(c) \in Data(h) /\ c.ptr = start(c) + LEFT_EDGE_SIZE /\ c.size \in Nat /\ s >= c.size
    BY <1>1, HeldBlock
  <2>2. start(c) \in BlocksOf(h) /\ start(c) \in Addr /\ start(c) \in Nat /\ s \in Nat
    BY <1>1, <2>1, GoodHeap
  <2>3. get_block_end(h, start(c)) = start(c) + SERVICE_FIELDS_SIZE + s BY DEF get_block_end
  <2>4. get_block_end(h, start(c)) <= KHEAP_END /\ KHEAP_START <= start(c)
    BY <1>1, <2>2, BlocksInside, ServiceFields DEF Addr
  <2> HIDE DEF s, start
  <2>5. c.ptr \in Nat /\ c.ptr + c.size <= get_block_end(h, start(c)) BY <2>1, <2>2, <2>3, ServiceFields
  <2> QED BY <2>1, <2>2, <2>4, <2>5
<1>3. b \in AbstractAllocator!Block
  <2>1. b = Block(b.ptr, b.size) /\ b.size \in Sizes BY <1>1, HeldBlock
  <2>2. b.ptr \in KHEAP_START .. KHEAP_END
    <3>1. /\ b.ptr \in Nat /\ b.size \in Nat /\ start(b) \in Nat /\ b.ptr = start(b) + LEFT_EDGE_SIZE
          /\ b.ptr + b.size <= get_block_end(h, start(b))
          /\ get_block_end(h, start(b)) <= KHEAP_END /\ KHEAP_START <= start(b)
      BY <1>2
    <3>2. get_block_end(h, start(b)) \in Nat BY <1>1, <1>2, BlockEnds DEF BlocksOf
    <3> HIDE DEF start
    <3> QED BY <3>1, <3>2, ServiceFields
  <2> QED BY <2>1, <2>2 DEF AbstractAllocator!Block, Block
<1>4. b.ptr + b.size <= KHEAP_END
  <2>1. get_block_end(h, start(b)) \in Nat BY <1>1, <1>2, BlockEnds DEF BlocksOf
  <2>2. /\ b.ptr \in Nat /\ b.size \in Nat
        /\ b.ptr + b.size <= get_block_end(h, start(b))
        /\ get_block_end(h, start(b)) <= KHEAP_END
    BY <1>2
  <2> HIDE DEF start
  <2> QED BY <2>1, <2>2, ServiceFields
<1>5. ASSUME NEW c \in blocks, NEW d \in blocks, start(c) < start(d)
      PROVE  c.ptr + c.size <= d.ptr
  <2>1. get_block_end(h, start(c)) <= start(d) BY <1>1, <1>2, <1>5 DEF Tiles
  <2>2. get_block_end(h, start(c)) \in Nat BY <1>1, <1>2, BlockEnds DEF BlocksOf
  <2>3. /\ c.ptr \in Nat /\ c.size \in Nat /\ c.ptr + c.size <= get_block_end(h, start(c))
        /\ start(d) \in Nat /\ d.ptr = start(d) + LEFT_EDGE_SIZE
    BY <1>2
  <2> HIDE DEF start
  <2> QED BY <2>1, <2>2, <2>3, ServiceFields
<1>6. ASSUME NEW c \in blocks \ {b} PROVE AbstractAllocator!Apart(b, c)
  <2>1. b.ptr # c.ptr BY <1>1 DEF Held
  <2>2. start(b) # start(c) BY <1>2, <2>1
  <2>3. start(b) < start(c) \/ start(c) < start(b) BY <1>2, <2>2
  <2>4. b.ptr + b.size <= c.ptr \/ c.ptr + c.size <= b.ptr BY <1>5, <2>3
  <2> QED BY <2>4 DEF AbstractAllocator!Apart
<1> QED BY <1>3, <1>4, <1>6 DEF AbstractAllocator!Usable

---------------------------------------------------------------------------
(* The specification.                                                      *)

HeapInv == Sound(heap, live) /\ PanicsOnlyWhenFull

\* What a step may do to the blocks of callers.
Promised == live' = live \/ AbstractAllocator!Next

\* heap_init leaves the guards with one void between them.
LEMMA InitSound ==
  ASSUME HeapInit
  PROVE  HeapInv
<1> DEFINE last == KHEAP_END - SERVICE_FIELDS_SIZE
           first == KHEAP_START + SERVICE_FIELDS_SIZE
           size == last - first - SERVICE_FIELDS_SIZE
           empty == [head |-> [a \in Addr |-> NoTag], foot |-> [a \in Addr |-> NoTag],
                     root |-> [i \in Buckets |-> NULL]]
           one == create_block(empty, "data", KHEAP_START, 0)
           two == create_block(one, "data", last, 0)
           H1 == Arena \ Region(KHEAP_START, 0)
           H2 == H1 \ Region(last, 0)
<1>1. heap = add_void(two, first, size) BY DEF HeapInit, heap_init
<1>2. /\ KHEAP_START \in Addr /\ last \in Addr /\ first \in Addr /\ size \in Nat /\ size > 0
      /\ KHEAP_START < first /\ first < last /\ last < KHEAP_END
      /\ Region(KHEAP_START, 0) = KHEAP_START .. first - 1
      /\ Region(last, 0) = last .. KHEAP_END - 1
      /\ Region(first, size) = first .. last - 1
  BY Layout DEF Addr, Region
<1>3. empty \in SoundHeaps(Arena)
  <2>1. NoTag \in Tag BY Layout DEF NoTag, Tag
  <2>2. empty \in Heaps BY <2>1 DEF Heaps
  <2>3. BlocksOf(empty) = {} /\ voids(empty) = {} BY DEF BlocksOf, voids, NoTag
  <2>4. \A i \in Buckets : empty.root[i] = NULL OBVIOUS
  <2> HIDE DEF empty
  <2>5. Tiles(empty, Arena) BY <2>3 DEF Tiles
  <2>6. Lists(empty) BY <2>3, <2>4 DEF Lists, Rooted, Righted, Lefted, Founded
  <2> QED BY <2>2, <2>5, <2>6 DEF SoundHeaps
<1>4. Data(empty) = {} /\ voids(empty) = {} BY DEF Data, voids, NoTag
<1> HIDE DEF empty
<1>5. WithData(one, empty, Arena, KHEAP_START, 0)
  <2>1. Region(KHEAP_START, 0) \subseteq Arena BY <1>2, ServiceFields DEF Arena
  <2> QED BY <1>2, <1>3, <2>1, DataNew
<1> HIDE DEF one
<1>6. one \in SoundHeaps(H1) /\ Data(one) = {KHEAP_START} /\ voids(one) = {}
  BY <1>4, <1>5 DEF WithData
<1>7. H1 = first .. KHEAP_END - 1 /\ H1 \in SUBSET Arena
  BY <1>2, ServiceFields DEF Arena
<1>8. WithData(two, one, H1, last, 0)
  <2>1. Region(last, 0) \subseteq H1 BY <1>2, <1>7, ServiceFields
  <2> HIDE DEF H1
  <2> QED BY <1>2, <1>6, <1>7, <2>1, DataNew
<1> HIDE DEF two
<1>9. /\ two \in SoundHeaps(H2) /\ Data(two) = {KHEAP_START, last} /\ voids(two) = {}
      /\ two.head[last].size = 0 /\ Kept(two, one, {KHEAP_START})
  BY <1>6, <1>8 DEF WithData, Kept
<1>10. H2 = first .. last - 1 /\ H2 \in SUBSET Arena
  <2>1. /\ first \in Nat /\ last \in Nat /\ KHEAP_END \in Nat /\ first < last /\ last < KHEAP_END
        /\ H1 = first .. KHEAP_END - 1 /\ Region(last, 0) = last .. KHEAP_END - 1
    BY <1>2, <1>7, ServiceFields
  <2> HIDE DEF H1, first, last
  <2> QED BY <1>7, <2>1
<1> HIDE DEF H1, H2
<1>11. WithVoid(heap, two, H2, first, size)
  <2>1. Region(first, size) \subseteq H2 BY <1>2, <1>10
  <2> HIDE DEF size, first
  <2> QED BY <1>1, <1>2, <1>9, <1>10, <2>1, VoidNew
<1>12. /\ heap \in SoundHeaps({}) /\ Data(heap) = {KHEAP_START, last} /\ voids(heap) = {first}
       /\ heap.head[first].size = size /\ Kept(heap, two, {KHEAP_START, last})
  <2>1. H2 \ Region(first, size) = {} BY <1>2, <1>10
  <2> QED BY <1>9, <1>11, <2>1 DEF WithVoid
<1>13. heap.head[last].size = 0 BY <1>9, <1>12 DEF Kept, Same
<1>14. heap.head[KHEAP_START].size = 0
  <2>1. one.head[KHEAP_START].size = 0 BY <1>5 DEF WithData
  <2>2. two.head[KHEAP_START].size = 0 BY <1>9, <2>1 DEF Kept, Same
  <2> QED BY <1>12, <2>2 DEF Kept, Same
<1>15. heap \in GoodHeaps
  <2>1. Guarded(heap) BY <1>12, <1>13 DEF Guarded, Guards
  <2>2. get_block_end(heap, first) = first + SERVICE_FIELDS_SIZE + size BY <1>12 DEF get_block_end
  <2>3. first + SERVICE_FIELDS_SIZE + size # first BY <1>2, ServiceFields
  <2>4. Separated(heap) BY <1>2, <1>12, <2>2, <2>3 DEF Separated
  <2> QED BY <1>12, <2>1, <2>4 DEF GoodHeaps
<1>16. live = {} /\ panic = NoPanic BY DEF HeapInit
<1>17. Held(heap, live) BY <1>12, <1>16 DEF Held, Guards
<1>18. Padded(heap)
  <2>1. get_block_end(heap, KHEAP_START) = KHEAP_START + SERVICE_FIELDS_SIZE + 0
    BY <1>14 DEF get_block_end
  <2>2. get_block_end(heap, KHEAP_START) + LEFT_EDGE_SIZE = FirstData
    BY <2>1, ServiceFields DEF FirstData
  <2>3. FirstData \in Nat BY ServiceFields DEF FirstData
  <2>4. align_up(FirstData, 1) = FirstData BY <2>3 DEF align_up
  <2> QED BY <2>2, <2>4 DEF Padded
<1> QED BY <1>15, <1>16, <1>17, <1>18 DEF HeapInv, Sound, PanicsOnlyWhenFull

LEMMA StillOn ==
  ASSUME panic = NoPanic, panic' = panic
  PROVE  PanicsOnlyWhenFull'
BY DEF PanicsOnlyWhenFull

\* The machine stops in malloc only when no void is large enough.
LEMMA BadMalloc ==
  ASSUME HeapInv, NEW size \in Nat, size <= 2 ^ (HEAP_VOID_BUCKET_COUNT - 1),
         malloc(heap, size).ptr = NULL, PANIC("BAD MALLOC", size)
  PROVE  HeapInv' /\ Promised
<1>1. heap \in GoodHeaps BY DEF HeapInv, Sound
<1>2. /\ heap' = heap /\ live' = live
      /\ panic'.message = "BAD MALLOC" /\ panic'.size = size
  BY DEF PANIC
<1>3. ~ (malloc(heap, size).ptr # NULL) OBVIOUS
<1>4. \A a \in voids(heap) : heap.head[a].size < size BY <1>1, <1>3, MallocResult
<1>5. PanicsOnlyWhenFull' BY <1>2, <1>4 DEF PanicsOnlyWhenFull, Voids, voids
<1> QED BY <1>2, <1>5 DEF HeapInv, Promised

LEMMA NewBlock ==
  ASSUME NEW b, live' = live \cup {b}, AbstractAllocator!Usable(b, live' \ {b})
  PROVE  Promised
<1>1. CASE b \in live
  <2>1. live' = live BY <1>1
  <2> QED BY <2>1 DEF Promised
<1>2. CASE b \notin live
  <2>1. live' \ {b} = live BY <1>2
  <2>2. AbstractAllocator!Usable(b, live) BY <2>1
  <2>3. b \in AbstractAllocator!Block BY <2>2 DEF AbstractAllocator!Usable
  <2> QED BY <2>2, <2>3 DEF Promised, AbstractAllocator!Next, AbstractAllocator!Allocate
<1> QED BY <1>1, <1>2

LEMMA MallocStep ==
  ASSUME HeapInv, NEW size \in Sizes, Malloc(size)
  PROVE  HeapInv' /\ Promised
<1> DEFINE m == malloc(heap, size)
<1>1. size \in Nat /\ size <= 2 ^ (HEAP_VOID_BUCKET_COUNT - 1) BY SizesServed
<1>2. Sound(heap, live) /\ heap \in GoodHeaps BY DEF HeapInv, Sound
<1>3. CASE m.ptr = NULL BY <1>1, <1>3, BadMalloc DEF Malloc
<1>4. CASE m.ptr # NULL
  <2>1. heap' = m.heap /\ live' = live \cup {Block(m.ptr, size)} /\ panic' = panic /\ panic = NoPanic
    BY <1>4 DEF Malloc
  <2>2. PICK n : m.ptr = n + LEFT_EDGE_SIZE /\ Got(m.heap, heap, n, size)
    BY <1>1, <1>2, <1>4, MallocResult
  <2> HIDE DEF m
  <2>3. Sound(m.heap, live \cup {Block(m.ptr, size)}) BY <1>2, <2>2, MallocSound
  <2>4. Sound(heap', live') BY <2>1, <2>3
  <2>6. Block(m.ptr, size) \in live' BY <2>1
  <2>7. AbstractAllocator!Usable(Block(m.ptr, size), live' \ {Block(m.ptr, size)})
    BY <2>4, <2>6, BlocksUsable
  <2>8. Promised BY <2>1, <2>7, NewBlock
  <2>9. PanicsOnlyWhenFull' BY <2>1, StillOn
  <2> QED BY <2>4, <2>8, <2>9 DEF HeapInv
<1> QED BY <1>3, <1>4

LEMMA AllignedMallocStep ==
  ASSUME HeapInv, NEW size \in Sizes, NEW alignment \in Alignments, AllignedMalloc(size, alignment)
  PROVE  HeapInv' /\ Promised
<1> DEFINE wanted == size + alignment - 1
           m == malloc(heap, wanted)
           b == Block(align_up(m.ptr, alignment), size)
<1>1. wanted \in Nat /\ wanted <= 2 ^ (HEAP_VOID_BUCKET_COUNT - 1) BY SizesServed
<1>2. Sound(heap, live) /\ heap \in GoodHeaps BY DEF HeapInv, Sound
<1>3. panic = NoPanic
      /\ \/ m.ptr = NULL /\ PANIC("BAD MALLOC", wanted)
         \/ /\ m.ptr # NULL
            /\ Finish(block_before(m).signature, "BAD ALLIGNED_ALLOC", cut_gap(m, alignment),
                      live \cup {b})
  BY DEF AllignedMalloc
<1> HIDE DEF wanted
<1>4. CASE m.ptr = NULL BY <1>1, <1>3, <1>4, BadMalloc
<1>5. CASE m.ptr # NULL
  <2>1. PICK n : m.ptr = n + LEFT_EDGE_SIZE /\ Got(m.heap, heap, n, wanted)
    BY <1>1, <1>2, <1>5, MallocResult
  <2> HIDE DEF m
  <2>2. block_before(m).signature = "data" /\ Sound(cut_gap(m, alignment), live \cup {b})
    BY <1>2, <2>1, AllignedSound DEF wanted
  <2> HIDE DEF b
  <2>3. heap' = cut_gap(m, alignment) /\ live' = live \cup {b} /\ panic' = panic
    BY <1>3, <1>5, <2>2 DEF Finish
  <2>4. Sound(heap', live') BY <2>2, <2>3
  <2>5. AbstractAllocator!Usable(b, live' \ {b})
    <3>1. b \in live' BY <2>3
    <3> QED BY <2>4, <3>1, BlocksUsable
  <2>6. Promised BY <2>3, <2>5, NewBlock
  <2>7. PanicsOnlyWhenFull' BY <1>3, <2>3, StillOn
  <2> QED BY <2>4, <2>6, <2>7 DEF HeapInv
<1> QED BY <1>4, <1>5

\* A caller's block is a data block: no test of its signature fails.
LEMMA SignatureHeld ==
  ASSUME HeapInv, NEW b \in live
  PROVE  signature_of(b) = "data"
BY HeldBlock DEF HeapInv, Sound, signature_of

LEMMA FreeStep ==
  ASSUME HeapInv, NEW b \in live, Free(b)
  PROVE  HeapInv' /\ Promised
<1>1. signature_of(b) = "data" BY SignatureHeld
<1>2. heap' = free(heap, b.ptr) /\ live' = live \ {b} /\ panic' = panic /\ panic = NoPanic
  BY <1>1 DEF Free, Finish
<1>3. Sound(free(heap, b.ptr), live \ {b}) BY FreeSound DEF HeapInv
<1>4. Sound(heap', live') BY <1>2, <1>3
<1>5. Promised BY <1>2 DEF Promised, AbstractAllocator!Next, AbstractAllocator!Return
<1>6. PanicsOnlyWhenFull' BY <1>2, StillOn
<1> QED BY <1>4, <1>5, <1>6 DEF HeapInv

\* A block is replaced by one where it was, or apart from it.
LEMMA ResizedBlock ==
  ASSUME NEW b \in live, NEW c, live' = (live \ {b}) \cup {c}, AbstractAllocator!Usable(c, live \ {b}),
         c.ptr = b.ptr \/ AbstractAllocator!Apart(b, c)
  PROVE  Promised
<1>1. c \in AbstractAllocator!Block BY DEF AbstractAllocator!Usable
<1>2. AbstractAllocator!Resize BY <1>1 DEF AbstractAllocator!Resize
<1> QED BY <1>2 DEF Promised, AbstractAllocator!Next

LEMMA ReallocInPlaceStep ==
  ASSUME HeapInv, NEW b \in live, NEW size \in Sizes, ReallocInPlace(b, size)
  PROVE  HeapInv' /\ Promised
<1> DEFINE start == b.ptr - LEFT_EDGE_SIZE
           c == Block(b.ptr, size)
           fits == heap.head[start].size >= size
           g == IF fits THEN heap ELSE grow(heap, start, size)
<1>1. Sound(heap, live) /\ heap \in GoodHeaps /\ Held(heap, live) BY DEF HeapInv, Sound
<1>2. signature_of(b) = "data" BY SignatureHeld
<1>3. /\ panic = NoPanic /\ (fits \/ can_grow(heap, start, size))
      /\ Finish(signature_of(b), "BAD REALLOC", g, (live \ {b}) \cup {c})
  BY DEF ReallocInPlace
<1>4. Sound(g, (live \ {b}) \cup {c})
  <2>1. CASE fits BY <1>1, <2>1, FitSound
  <2>2. CASE ~ fits
    <3>1. Sound(grow(heap, start, size), (live \ {b}) \cup {c}) BY <1>1, <1>3, <2>2, GrowSound
    <3> QED BY <2>2, <3>1
  <2> QED BY <2>1, <2>2
<1>5. c.ptr = b.ptr BY DEF Block
<1> HIDE DEF g, c, fits, start
<1>6. heap' = g /\ live' = (live \ {b}) \cup {c} /\ panic' = panic BY <1>2, <1>3 DEF Finish
<1>7. Sound(heap', live') BY <1>4, <1>6
<1>8. AbstractAllocator!Usable(c, live' \ {c})
  <2>1. c \in live' BY <1>6
  <2> QED BY <1>7, <2>1, BlocksUsable
<1>9. live' \ {c} = live \ {b}
  <2>1. c \notin live \ {b} BY <1>1, <1>5 DEF Held
  <2> QED BY <1>6, <2>1
<1>10. AbstractAllocator!Usable(c, live \ {b}) BY <1>8, <1>9
<1>11. Promised BY <1>5, <1>6, <1>10, ResizedBlock
<1>12. PanicsOnlyWhenFull' BY <1>3, <1>6, StillOn
<1> QED BY <1>7, <1>11, <1>12 DEF HeapInv

LEMMA FreshBlock ==
  ASSUME NEW h, NEW blocks, Sound(h, blocks), NEW g, NEW n, NEW wanted, Got(g, h, n, wanted), NEW size
  PROVE  Block(n + LEFT_EDGE_SIZE, size) \notin blocks
<1> DEFINE c == Block(n + LEFT_EDGE_SIZE, size)
<1>1. SUFFICES ASSUME c \in blocks PROVE FALSE OBVIOUS
<1>2. c.ptr = n + LEFT_EDGE_SIZE BY DEF Block
<1> HIDE DEF c
<1>3. c.ptr - LEFT_EDGE_SIZE \in Data(h) BY <1>1, HeldBlock DEF Sound
<1>4. n \in Nat /\ n \notin Data(h) BY DEF Got
<1>5. (n + LEFT_EDGE_SIZE) - LEFT_EDGE_SIZE = n BY <1>4, ServiceFields
<1> QED BY <1>2, <1>3, <1>4, <1>5

LEMMA ReallocByMoveStep ==
  ASSUME HeapInv, NEW b \in live, NEW size \in Sizes, ReallocByMove(b, size)
  PROVE  HeapInv' /\ Promised
<1> DEFINE m == malloc(heap, size)
           c == Block(m.ptr, size)
<1>1. Sound(heap, live) /\ heap \in GoodHeaps BY DEF HeapInv, Sound
<1>2. size \in Nat /\ size <= 2 ^ (HEAP_VOID_BUCKET_COUNT - 1) BY SizesServed
<1>3. signature_of(b) = "data" BY SignatureHeld
<1>4. panic = NoPanic
      /\ \/ m.ptr = NULL /\ PANIC("BAD MALLOC", size)
         \/ /\ m.ptr # NULL
            /\ Finish(signature_of(b), "BAD REALLOC", free(m.heap, b.ptr), (live \ {b}) \cup {c})
  BY DEF ReallocByMove
<1>5. CASE m.ptr = NULL BY <1>2, <1>4, <1>5, BadMalloc
<1>6. CASE m.ptr # NULL
  <2>1. PICK n : m.ptr = n + LEFT_EDGE_SIZE /\ Got(m.heap, heap, n, size)
    BY <1>1, <1>2, <1>6, MallocResult
  <2> HIDE DEF m
  <2>2. Sound(m.heap, live \cup {c}) BY <1>1, <2>1, MallocSound
  <2>3. c \notin live BY <1>1, <2>1, FreshBlock
  <2> HIDE DEF c
  <2>4. Sound(free(m.heap, b.ptr), (live \cup {c}) \ {b})
    <3>1. b \in live \cup {c} OBVIOUS
    <3> QED BY <2>2, <3>1, FreeSound
  <2>5. heap' = free(m.heap, b.ptr) /\ live' = (live \ {b}) \cup {c} /\ panic' = panic
    BY <1>3, <1>4, <1>6 DEF Finish
  <2>6. (live \cup {c}) \ {b} = (live \ {b}) \cup {c} BY <2>3
  <2>7. Sound(heap', live') BY <2>4, <2>5, <2>6
  <2>8. AbstractAllocator!Usable(c, (live \cup {c}) \ {c})
    <3>1. c \in live \cup {c} OBVIOUS
    <3> QED BY <2>2, <3>1, BlocksUsable
  <2>9. (live \cup {c}) \ {c} = live BY <2>3
  <2>10. AbstractAllocator!Usable(c, live) BY <2>8, <2>9
  <2>11. AbstractAllocator!Usable(c, live \ {b}) /\ AbstractAllocator!Apart(b, c)
    BY <2>10 DEF AbstractAllocator!Usable, AbstractAllocator!Apart
  <2>12. Promised BY <2>5, <2>11, ResizedBlock
  <2>13. PanicsOnlyWhenFull' BY <1>4, <2>5, StillOn
  <2> QED BY <2>7, <2>12, <2>13 DEF HeapInv
<1> QED BY <1>5, <1>6

LEMMA HeapStep ==
  ASSUME HeapInv, [HeapNext]_heapVars
  PROVE  HeapInv' /\ Promised
<1>1. CASE \E size \in Sizes : Malloc(size) BY <1>1, MallocStep
<1>2. CASE \E size \in Sizes, alignment \in Alignments : AllignedMalloc(size, alignment)
  BY <1>2, AllignedMallocStep
<1>3. CASE \E b \in live : Free(b) BY <1>3, FreeStep
<1>4. CASE \E b \in live, size \in Sizes : ReallocInPlace(b, size) BY <1>4, ReallocInPlaceStep
<1>5. CASE \E b \in live, size \in Sizes : ReallocByMove(b, size) BY <1>5, ReallocByMoveStep
<1>6. CASE UNCHANGED heapVars
  <2>1. heap' = heap /\ live' = live /\ panic' = panic BY <1>6 DEF heapVars
  <2>2. HeapInv' BY <2>1 DEF HeapInv, PanicsOnlyWhenFull, Voids
  <2> QED BY <2>1, <2>2 DEF Promised
<1> QED BY <1>1, <1>2, <1>3, <1>4, <1>5, <1>6 DEF HeapNext

LEMMA HeapInvariant == HeapSpec => []HeapInv
<1>1. HeapInit => HeapInv BY InitSound
<1>2. HeapInv /\ [HeapNext]_heapVars => HeapInv' BY HeapStep
<1> QED BY <1>1, <1>2, PTL DEF HeapSpec

LEMMA SoundArena ==
  ASSUME HeapInv
  PROVE  ArenaSound
<1>1. heap \in GoodHeaps /\ Held(heap, live) BY DEF HeapInv, Sound
<1>2. /\ heap \in SoundHeaps({}) /\ heap \in Heaps /\ Tiles(heap, {}) /\ Lists(heap)
      /\ Guarded(heap) /\ Separated(heap)
      /\ BlocksOf(heap) = Data(heap) \cup voids(heap) /\ Data(heap) \cap voids(heap) = {}
      /\ Guards \subseteq Data(heap)
  BY <1>1, GoodHeap
<1>3. Starts = BlocksOf(heap) /\ Voids = voids(heap) BY DEF Starts, BlocksOf, Voids
<1>4. BoundaryTags
  <2>1. ASSUME NEW a \in Starts
        PROVE  LET end == get_block_end(heap, a)
                   foot == heap.foot[end - RIGHT_EDGE_SIZE]
               IN  /\ end \in Starts \cup {KHEAP_END}
                   /\ Starts \cap (a + 1 .. end - 1) = {}
                   /\ foot.signature = heap.head[a].signature
                   /\ foot.size = heap.head[a].size
    <3> DEFINE end == get_block_end(heap, a)
    <3>1. a \in BlocksOf(heap) /\ a \in Addr BY <1>2, <1>3, BlocksInside
    <3>2. end <= KHEAP_END /\ end \in Nat /\ end > a /\ a \in Nat /\ a >= KHEAP_START
      BY <1>2, <3>1, BlocksInside, BlockEnds, ServiceFields DEF Addr
    <3>3. end \in Starts \cup {KHEAP_END}
      <4>1. CASE end = KHEAP_END BY <4>1
      <4>2. CASE end # KHEAP_END
        <5> HIDE DEF end
        <5>1. end \in Arena \ {} BY <3>2, <4>2, ServiceFields DEF Arena
        <5> USE DEF end
        <5> QED BY <1>2, <1>3, <3>1, <5>1, BlockAfter
      <4> QED BY <4>1, <4>2
    <3>4. ASSUME NEW x \in Starts, x \in a + 1 .. end - 1 PROVE FALSE
      <4>1. x \in Addr /\ x \in BlocksOf(heap) /\ x # a BY <1>2, <1>3, <3>2, <3>4, BlocksInside
      <4>2. x \in Body(heap, x) /\ x \in Body(heap, a) BY <1>2, <3>2, <3>4, <4>1, BlockEnds DEF Body
      <4> QED BY <1>2, <3>1, <4>1, <4>2, BodiesApart
    <3>5. heap.foot[end - RIGHT_EDGE_SIZE].signature = heap.head[a].signature
          /\ heap.foot[end - RIGHT_EDGE_SIZE].size = heap.head[a].size
      BY <1>2, <3>1 DEF Tiles
    <3> QED BY <3>3, <3>4, <3>5
  <2>2. Guards \subseteq Starts BY <1>2, <1>3
  <2> QED BY <2>1, <2>2 DEF BoundaryTags
<1>5. NoTwoVoids BY <1>2, <1>3 DEF NoTwoVoids, Separated
<1>6. VoidsListed
  <2>1. ASSUME NEW i \in Buckets
        PROVE  LET list == nodes(heap, i)
                   mine == {a \in Voids : bucket_of(heap, a) = i}
                   length == Cardinality(mine)
               IN  /\ {list[k] : k \in 0 .. length - 1} = mine
                   /\ list[length] = NULL
                   /\ \A k \in 0 .. length - 1 :
                        heap.head[list[k]].left = IF k = 0 THEN NULL ELSE list[k - 1]
    <3> DEFINE list == nodes(heap, i)
               length == Cardinality(Mine(heap, i))
    <3>1. {a \in Voids : bucket_of(heap, a) = i} = Mine(heap, i) BY <1>3 DEF Mine
    <3>2. /\ length \in 0 .. Cardinality(voids(heap))
          /\ list[length] = NULL
          /\ \A j \in 0 .. length - 1 : list[j] # NULL
          /\ Passed(heap, i, length) = Mine(heap, i)
      BY <1>2, BucketListed
    <3>3. ASSUME NEW k \in 0 .. length - 1
          PROVE  heap.head[list[k]].left = IF k = 0 THEN NULL ELSE list[k - 1]
      <4>1. Cardinality(voids(heap)) \in Nat BY VoidsFinite
      <4>2. k \in 0 .. Cardinality(voids(heap)) /\ list[k] # NULL BY <3>2, <4>1
      <4> QED BY <1>2, <4>2, NodesMine DEF L
    <3>4. {list[k] : k \in 0 .. length - 1} = Mine(heap, i) BY <3>2 DEF Passed
    <3> QED BY <3>1, <3>2, <3>3, <3>4
  <2> QED BY <2>1 DEF VoidsListed
<1>7. NothingLost
  <2>1. (Starts \ Voids) \ Guards = Data(heap) \ Guards BY <1>2, <1>3
  <2>2. {get_data_ptr(a) : a \in Data(heap) \ Guards} = {b.ptr : b \in live}
    <3>1. ASSUME NEW a \in Data(heap) \ Guards PROVE get_data_ptr(a) \in {b.ptr : b \in live}
      BY <1>1 DEF Held, get_data_ptr
    <3>2. ASSUME NEW b \in live PROVE b.ptr \in {get_data_ptr(a) : a \in Data(heap) \ Guards}
      <4>1. b.ptr - LEFT_EDGE_SIZE \in Data(heap) \ Guards
            /\ b.ptr = (b.ptr - LEFT_EDGE_SIZE) + LEFT_EDGE_SIZE
        BY <1>1, HeldBlock
      <4> QED BY <4>1 DEF get_data_ptr
    <3> QED BY <3>1, <3>2
  <2>3. \A b \in live : heap.head[b.ptr - LEFT_EDGE_SIZE].size >= b.size BY <1>1, HeldBlock
  <2> QED BY <2>1, <2>2, <2>3 DEF NothingLost
<1> QED BY <1>4, <1>5, <1>6, <1>7 DEF ArenaSound

LEMMA SoundWastesNothing ==
  ASSUME HeapInv
  PROVE  NothingWasted
<1>1. heap \in GoodHeaps /\ Padded(heap) /\ PanicsOnlyWhenFull BY DEF HeapInv, Sound
<1>2. Guarded(heap) /\ KHEAP_START \in Data(heap) BY <1>1, GoodHeap, GuardsAre
<1>3. PICK a \in Alignments \cup {1} :
        get_block_end(heap, KHEAP_START) + LEFT_EDGE_SIZE = align_up(FirstData, a)
  BY <1>1 DEF Padded
<1>4. a \in Nat /\ a > 0 BY AlignmentsDivide
<1>5. FirstData \in Nat BY ServiceFields DEF FirstData
<1>6. align_up(FirstData, a) < FirstData + a /\ align_up(FirstData, a) \in Nat
  BY <1>4, <1>5, AlignUp
<1>7. heap.head[KHEAP_START].size < a
  <2> DEFINE s == heap.head[KHEAP_START].size
             x == align_up(FirstData, a)
  <2>1. s \in Nat BY <1>1, <1>2, GoodHeap
  <2>2. KHEAP_START + SERVICE_FIELDS_SIZE + s + LEFT_EDGE_SIZE = x BY <1>3 DEF get_block_end
  <2>3. x < (KHEAP_START + SERVICE_FIELDS_SIZE + LEFT_EDGE_SIZE) + a BY <1>6 DEF FirstData
  <2> HIDE DEF s, x
  <2>4. s < a BY <1>4, <2>1, <2>2, <2>3, ServiceFields
  <2> QED BY <2>4 DEF s
<1>8. GuardLeakBounded BY <1>2, <1>7 DEF GuardLeakBounded, Guarded
<1> QED BY <1>1, <1>8 DEF NothingWasted

\* The arena is sound after every call of heap.c: its blocks tile it and their
\* tags agree, no two voids are neighbours, every void can be found in the
\* list of its bucket, and no data block is without a caller.
THEOREM ArenaIsSound == HeapSpec => []ArenaSound
BY HeapInvariant, SoundArena, PTL

\* Aligned allocations take less than the largest alignment from the arena for
\* good, and the machine stops in heap.c only when no void is large enough.
THEOREM NothingIsWasted == HeapSpec => []NothingWasted
BY HeapInvariant, SoundWastesNothing, PTL

\* malloc, alligned_malloc, realloc and free implement an allocator: callers'
\* blocks lie in the arena and never overlap.
THEOREM HeapKeepsPromise == HeapSpec => AllocatorPromise
<1>1. HeapInit => AbstractAllocator!Init BY DEF HeapInit, AbstractAllocator!Init
<1>2. HeapInv /\ [HeapNext]_heapVars => [live' # live => AbstractAllocator!Next]_live
  BY HeapStep DEF Promised
<1> QED BY <1>1, <1>2, HeapInvariant, PTL DEF HeapSpec, AllocatorPromise
=============================================================================
