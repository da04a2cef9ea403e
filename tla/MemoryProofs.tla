---------------------------- MODULE MemoryProofs ----------------------------
(***************************************************************************)
(* Frames and address spaces, for every set of processes and frames, every *)
(* size of a page, every image and every argument of the system calls that *)
(* satisfy MemoryAssumption.  The argument: each operation on a dictionary *)
(* enters or gives up one pair of a dictionary and a page at a time, and   *)
(* the counter of a frame follows the set of the pairs that hold it.       *)
(***************************************************************************)
EXTENDS Memory, TLAPS, FiniteSetTheorems, WellFoundedInduction

---------------------------------------------------------------------------
(* Arithmetic of pages.                                                    *)

LEMMA Sizes ==
  /\ PAGE_SIZE \in Nat /\ PAGE_SIZE > 0 /\ PT_ENTRIES \in Nat /\ PT_ENTRIES > 0
  /\ Cardinality(KernelFrames) \in Nat
  /\ \A a \in {HEAP_LIMIT, MMAP_START, MMAP_LIMIT, STACK_TOP, KERNEL_PAGE, MMIO_PAGES} : a \in Nat
  /\ MMIO_PAGE \in Nat /\ KERNEL_PAGE <= MMIO_PAGE
<1>1. Cardinality(KernelFrames) \in Nat BY FS_CardinalityType, MemoryAssumption
<1> QED BY <1>1, MemoryAssumption DEF MMIO_PAGE

LEMMA DivMod ==
  ASSUME NEW a \in Nat
  PROVE  /\ a \div PAGE_SIZE \in Nat /\ a % PAGE_SIZE \in 0 .. PAGE_SIZE - 1
         /\ a = PAGE_SIZE * (a \div PAGE_SIZE) + (a % PAGE_SIZE)
<1>1. PAGE_SIZE \in Nat \ {0} BY Sizes
<1> QED BY <1>1

LEMMA Quotient ==
  ASSUME NEW a \in Nat, NEW q \in Nat
  PROVE  /\ PAGE_SIZE * q <= a /\ a < PAGE_SIZE * q + PAGE_SIZE => a \div PAGE_SIZE = q
         /\ (PAGE_SIZE * q) \div PAGE_SIZE = q /\ (PAGE_SIZE * q) % PAGE_SIZE = 0
         /\ q * PAGE_SIZE = PAGE_SIZE * q /\ PAGE_SIZE * q \in Nat
<1>1. PAGE_SIZE \in Nat \ {0} BY Sizes
<1> QED BY <1>1

LEMMA Less ==
  ASSUME NEW a \in Nat, NEW b \in Nat
  PROVE  /\ PAGE_SIZE * a < PAGE_SIZE * b <=> a < b
         /\ PAGE_SIZE * a <= PAGE_SIZE * b <=> a <= b
         /\ a < b => PAGE_SIZE * a + PAGE_SIZE <= PAGE_SIZE * b
<1>1. PAGE_SIZE \in Nat \ {0} BY Sizes
<1> QED BY <1>1

\* Pages from a page on, and one past the last one that a byte before an end is in.
LEMMA Rounding ==
  ASSUME NEW a \in Nat
  PROVE  /\ page_get_num(a) \in Nat /\ RoundedUp(a) \in Nat
         /\ RoundedUp(a) = PAGE_SIZE * page_get_num(a)
         /\ a <= RoundedUp(a) /\ RoundedUp(a) <= a + PAGE_SIZE - 1
<1>1. PAGE_SIZE \in Nat /\ PAGE_SIZE > 0 /\ a + PAGE_SIZE - 1 \in Nat BY Sizes
<1> DEFINE c == a + PAGE_SIZE - 1
<1>2. /\ c \div PAGE_SIZE \in Nat /\ c % PAGE_SIZE \in 0 .. PAGE_SIZE - 1
      /\ c = PAGE_SIZE * (c \div PAGE_SIZE) + (c % PAGE_SIZE)
  BY <1>1, DivMod
<1>3. /\ (c \div PAGE_SIZE) * PAGE_SIZE = PAGE_SIZE * (c \div PAGE_SIZE)
      /\ PAGE_SIZE * (c \div PAGE_SIZE) \in Nat
  BY <1>1, <1>2, Quotient
<1> QED BY <1>1, <1>2, <1>3 DEF page_get_num, RoundedUp

LEMMA IntervalBounds ==
  ASSUME NEW start \in Nat, NEW size \in Nat
  PROVE  /\ PageCount(start, size) \in Nat /\ page_alligned_left(start) \in Nat
         /\ Interval(start, size) \in SUBSET Nat
         /\ \A p \in Interval(start, size) :
              /\ start < PAGE_SIZE * p + PAGE_SIZE
              /\ PAGE_SIZE * p <= start + size - 1
         /\ \A p \in Nat :
              start < PAGE_SIZE * p + PAGE_SIZE /\ PAGE_SIZE * p < start + size =>
                p \in Interval(start, size)
<1> DEFINE a == start \div PAGE_SIZE
           b == start % PAGE_SIZE
           k == page_get_num(b + size)
<1>1. PAGE_SIZE \in Nat /\ PAGE_SIZE > 0 BY Sizes
<1>2. /\ a \in Nat /\ b \in 0 .. PAGE_SIZE - 1 /\ start = PAGE_SIZE * a + b
  BY DivMod
<1>3. /\ b + size \in Nat /\ k \in Nat
      /\ b + size <= PAGE_SIZE * k /\ PAGE_SIZE * k <= b + size + PAGE_SIZE - 1
  BY <1>1, <1>2, Rounding
<1>4. Interval(start, size) = a .. a + k - 1 /\ PageCount(start, size) = k
      /\ page_alligned_left(start) = a
  BY DEF Interval, PageCount, page_alligned_left
<1> HIDE DEF a, b, k
<1>5. PAGE_SIZE * (a + k) = PAGE_SIZE * a + PAGE_SIZE * k BY <1>1, <1>2, <1>3
<1>6. PAGE_SIZE * a \in Nat /\ PAGE_SIZE * k \in Nat BY <1>1, <1>2, <1>3
<1>7. ASSUME NEW p \in a .. a + k - 1
      PROVE  p \in Nat /\ start < PAGE_SIZE * p + PAGE_SIZE /\ PAGE_SIZE * p <= start + size - 1
  <2>1. p \in Nat /\ a <= p /\ p < a + k /\ a + k \in Nat BY <1>2, <1>3
  <2>2. PAGE_SIZE * a <= PAGE_SIZE * p /\ PAGE_SIZE * p + PAGE_SIZE <= PAGE_SIZE * (a + k)
        /\ PAGE_SIZE * p \in Nat
    BY <2>1, <1>2, <1>1, Less
  <2> QED BY <2>1, <2>2, <1>1, <1>2, <1>3, <1>5, <1>6
<1>8. ASSUME NEW p \in Nat, start < PAGE_SIZE * p + PAGE_SIZE, PAGE_SIZE * p < start + size
      PROVE  p \in a .. a + k - 1
  <2>1. PAGE_SIZE * (p + 1) = PAGE_SIZE * p + PAGE_SIZE /\ p + 1 \in Nat /\ PAGE_SIZE * p \in Nat
    BY <1>1
  <2>2. PAGE_SIZE * a < PAGE_SIZE * (p + 1) BY <2>1, <1>8, <1>2, <1>1, <1>6
  <2>3. a <= p BY <2>1, <2>2, <1>2, Less
  <2>4. PAGE_SIZE * p < PAGE_SIZE * (a + k) BY <2>1, <1>8, <1>2, <1>3, <1>5, <1>6, <1>1
  <2>5. p < a + k BY <2>4, <1>2, <1>3, Less
  <2> QED BY <2>3, <2>5, <1>2, <1>3
<1> QED BY <1>2, <1>3, <1>4, <1>7, <1>8

\* An interval that ends before a page has none from that page on.
LEMMA IntervalBelow ==
  ASSUME NEW start \in Nat, NEW size \in Nat, NEW limit \in Nat,
         start + size <= PAGE_SIZE * limit
  PROVE  Interval(start, size) \subseteq 0 .. limit - 1
<1> SUFFICES ASSUME NEW p \in Interval(start, size) PROVE p \in 0 .. limit - 1
  OBVIOUS
<1>1. p \in Nat /\ PAGE_SIZE * p <= start + size - 1 BY IntervalBounds
<1>2. PAGE_SIZE * p < PAGE_SIZE * limit BY <1>1, Sizes
<1>3. p < limit BY <1>1, <1>2, Less
<1> QED BY <1>1, <1>3

---------------------------------------------------------------------------
(* The least of some numbers, and functions that iterate a step.           *)

LEMMA LeastNat ==
  ASSUME NEW S \in SUBSET Nat, S # {}
  PROVE  Min(S) \in S /\ \A n \in S : Min(S) <= n
<1> DEFINE R == OpToRel(<, Nat)
<1>1. \A k, n \in Nat : k < n => <<k, n>> \in R BY DEF OpToRel
<1>2. IsWellFoundedOn(R, Nat) BY NatLessThanWellFounded
<1> HIDE DEF R
<1>3. PICK n \in S : \A k \in S : ~ (<<k, n>> \in R) BY <1>2, WFMin
<1>4. ASSUME NEW k \in S PROVE n <= k
  <2>1. k \in Nat /\ n \in Nat OBVIOUS
  <2>2. ~ (k < n) BY <1>1, <1>3, <2>1
  <2> QED BY <2>1, <2>2
<1> QED BY <1>3, <1>4 DEF Min

\* What starts in a set and is kept by each step holds all the way.
LEMMA Upwards ==
  ASSUME NEW n \in Nat, NEW S, 0 \in S, \A i \in 1 .. n : i - 1 \in S => i \in S
  PROVE  \A i \in 0 .. n : i \in S
<1> DEFINE B == {i \in 0 .. n : i \notin S}
<1> SUFFICES ASSUME B # {} PROVE FALSE OBVIOUS
<1>1. PICK i \in B : \A j \in B : i <= j
  <2>1. B \in SUBSET Nat OBVIOUS
  <2> HIDE DEF B
  <2> QED BY <2>1, LeastNat
<1>2. i \in 1 .. n /\ i - 1 \in 0 .. n OBVIOUS
<1>3. i - 1 \in S BY <1>1, <1>2
<1> QED BY <1>2, <1>3

\* f repeats a step, from x on.
Chain(f, x, G, n) == f[0] = x /\ \A i \in 1 .. n : f[i] = G[<<f[i - 1], i>>]

\* A step that stays in a set can be repeated.
LEMMA Iterates ==
  ASSUME NEW n \in Nat, NEW S, NEW x \in S, NEW G \in [S \X (1 .. n) -> S]
  PROVE  \E f \in [0 .. n -> S] : Chain(f, x, G, n)
<1> DEFINE Long == {k \in 0 .. n : \E f \in [0 .. k -> S] : Chain(f, x, G, k)}
<1>1. 0 \in Long
  <2> DEFINE f == [i \in 0 .. 0 |-> x]
  <2>1. f \in [0 .. 0 -> S] /\ Chain(f, x, G, 0) BY DEF Chain
  <2>2. 0 \in 0 .. n OBVIOUS
  <2> HIDE DEF f
  <2> QED BY <2>1, <2>2
<1>2. ASSUME NEW k \in 1 .. n, k - 1 \in Long PROVE k \in Long
  <2>1. PICK f \in [0 .. k - 1 -> S] : Chain(f, x, G, k - 1) BY <1>2
  <2> DEFINE g == [i \in 0 .. k |-> IF i = k THEN G[<<f[k - 1], k>>] ELSE f[i]]
  <2>2. G[<<f[k - 1], k>>] \in S OBVIOUS
  <2>3. g \in [0 .. k -> S] BY <2>2
  <2>4. g[0] = x BY <2>1 DEF Chain
  <2>5. ASSUME NEW i \in 1 .. k PROVE g[i] = G[<<g[i - 1], i>>]
    <3>1. CASE i = k
      <4>1. k \in 0 .. k /\ k - 1 \in 0 .. k /\ k - 1 # k OBVIOUS
      <4>2. g[k] = G[<<f[k - 1], k>>] /\ g[k - 1] = f[k - 1] BY <4>1
      <4> QED BY <3>1, <4>2
    <3>2. CASE i # k
      <4>1. i \in 1 .. k - 1 /\ i \in 0 .. k /\ i - 1 \in 0 .. k /\ i - 1 # k BY <3>2
      <4>2. f[i] = G[<<f[i - 1], i>>] BY <4>1, <2>1 DEF Chain
      <4> QED BY <3>2, <4>1, <4>2
    <3> QED BY <3>1, <3>2
  <2> HIDE DEF g
  <2>6. Chain(g, x, G, k) BY <2>4, <2>5 DEF Chain
  <2> QED BY <2>3, <2>6
<1> HIDE DEF Long
<1>3. n \in Long BY <1>1, <1>2, Upwards
<1> QED BY <1>3 DEF Long

---------------------------------------------------------------------------
(* The state of the memory, and the pairs of a dictionary and a page that  *)
(* hold a frame.                                                           *)

Memories ==
  [count : [Frames -> Nat], bitmap : SUBSET Frames,
   space : [Spaces -> [tables : SUBSET Nat, map : [Pages -> Frames \union {NONE}]]],
   mmio_next : Nat, leaked : [Frames -> Nat], panic : BOOLEAN]

At(m, s, p) == m.space[s].map[p]

Holders(m, f) == {e \in Spaces \X Pages : At(m, e[1], e[2]) = f}

\* FramesCounted of a state of the memory.
Counted(m) ==
  \A f \in Frames :
    /\ m.count[f] = Cardinality(Holders(m, f)) + m.leaked[f]
    /\ f \in m.bitmap <=> m.count[f] > 0

LEMMA FramesAreNumbers == Frames \subseteq Nat /\ NONE \notin Frames
<1>1. KernelFrames \subseteq Nat BY MemoryAssumption, Sizes
<1> QED BY <1>1, MemoryAssumption DEF Frames

LEMMA PagesAreNumbers ==
  /\ Pages \subseteq Nat /\ IsFiniteSet(Pages)
  /\ \A p \in Nat : p < KERNEL_PAGE => p \in Pages
  /\ \A p \in Pages : PD_INDEX(p) \in Nat
<1>1. MMIO_PAGE + MMIO_PAGES - 1 \in Int BY Sizes
<1>2. IsFiniteSet(Pages) BY <1>1, FS_Interval DEF Pages
<1>3. \A p \in Nat : p < KERNEL_PAGE => p \in Pages BY Sizes DEF Pages
<1>4. Pages \subseteq Nat BY <1>1 DEF Pages
<1>5. \A p \in Nat : PD_INDEX(p) \in Nat
  <2>1. PT_ENTRIES \in Nat \ {0} BY Sizes
  <2> QED BY <2>1 DEF PD_INDEX
<1> QED BY <1>2, <1>3, <1>4, <1>5

LEMMA FiniteHolders ==
  ASSUME NEW m, NEW f
  PROVE  IsFiniteSet(Holders(m, f)) /\ Cardinality(Holders(m, f)) \in Nat
<1>1. IsFiniteSet(Spaces)
  <2>1. IsFiniteSet(Slots \union {KERNEL}) BY FS_AddElement, MemoryAssumption
  <2> QED BY <2>1 DEF Spaces
<1>2. IsFiniteSet(Spaces \X Pages) BY <1>1, PagesAreNumbers, FS_Product
<1>3. Holders(m, f) \in SUBSET (Spaces \X Pages) BY DEF Holders
<1>4. IsFiniteSet(Holders(m, f)) BY <1>2, <1>3, FS_Subset
<1> QED BY <1>4, FS_CardinalityType

LEMMA Fields ==
  ASSUME NEW m \in Memories
  PROVE  /\ m.count \in [Frames -> Nat] /\ m.bitmap \in SUBSET Frames
         /\ m.space \in [Spaces -> [tables : SUBSET Nat, map : [Pages -> Frames \union {NONE}]]]
         /\ m.mmio_next \in Nat /\ m.leaked \in [Frames -> Nat] /\ m.panic \in BOOLEAN
         /\ \A s \in Spaces, p \in Pages : At(m, s, p) \in Frames \union {NONE}
BY DEF Memories, At

\* What entering a counted frame changes.
LEMMA EnteredFields ==
  ASSUME NEW m \in Memories, NEW s \in Spaces, NEW p \in Pages, NEW f \in Frames
  PROVE  LET x == Entered(pmm_set_alloced(m, f), s, p, f)
             old == At(m, s, p)
         IN  /\ x \in Memories
             /\ \A t \in Spaces, q \in Pages :
                  At(x, t, q) = IF t = s /\ q = p THEN f ELSE At(m, t, q)
             /\ \A t \in Spaces : t # s => x.space[t] = m.space[t]
             /\ x.bitmap = m.bitmap \union {f}
             /\ \A g \in Frames : x.count[g] = IF g = f THEN m.count[g] + 1 ELSE m.count[g]
             /\ \A g \in Frames : x.leaked[g] = IF g = old THEN m.leaked[g] + 1 ELSE m.leaked[g]
             /\ x.mmio_next = m.mmio_next /\ x.panic = m.panic
<1> DEFINE n == pmm_set_alloced(m, f)
           x == Entered(n, s, p, f)
           old == At(m, s, p)
           count == [m.count EXCEPT ![f] = @ + 1]
           bitmap == m.bitmap \union {f}
           space == [m.space EXCEPT ![s] = [tables |-> m.space[s].tables \union {PD_INDEX(p)},
                                            map |-> [m.space[s].map EXCEPT ![p] = f]]]
           leaked == [g \in Frames |-> m.leaked[g] + IF g = old THEN 1 ELSE 0]
<1>1. PD_INDEX(p) \in Nat BY PagesAreNumbers
<1>2. /\ m.space[s] \in [tables : SUBSET Nat, map : [Pages -> Frames \union {NONE}]]
      /\ old \in Frames \union {NONE}
  BY Fields
<1>3. count \in [Frames -> Nat] /\ bitmap \in SUBSET Frames BY Fields
<1>4. space \in [Spaces -> [tables : SUBSET Nat, map : [Pages -> Frames \union {NONE}]]]
  BY <1>1, <1>2, Fields
<1>5. leaked \in [Frames -> Nat] BY <1>2, Fields
<1>6. n = [m EXCEPT !.count = count, !.bitmap = bitmap] BY DEF pmm_set_alloced
<1>7. /\ n \in Memories /\ n.count = count /\ n.bitmap = bitmap /\ n.space = m.space
      /\ n.leaked = m.leaked /\ n.mmio_next = m.mmio_next /\ n.panic = m.panic
  <2> HIDE DEF count, bitmap, n
  <2> QED BY <1>3, <1>6 DEF Memories
<1>8. x = [n EXCEPT !.space = space, !.leaked = leaked]
  <2>1. n.space[s] = m.space[s] /\ n.space[s].map[p] = old BY <1>7 DEF At
  <2> HIDE DEF n
  <2> QED BY <1>7, <2>1 DEF Entered
<1>9. /\ x \in Memories /\ x.count = count /\ x.bitmap = bitmap /\ x.space = space
      /\ x.leaked = leaked /\ x.mmio_next = m.mmio_next /\ x.panic = m.panic
  <2> HIDE DEF count, bitmap, space, leaked, n, x
  <2> QED BY <1>4, <1>5, <1>7, <1>8 DEF Memories
<1>10. \A t \in Spaces, q \in Pages :
         At(x, t, q) = IF t = s /\ q = p THEN f ELSE At(m, t, q)
  <2> HIDE DEF x
  <2> QED BY <1>9, <1>2, Fields DEF At
<1>11. \A t \in Spaces : t # s => x.space[t] = m.space[t]
  <2> HIDE DEF x
  <2> QED BY <1>9, Fields
<1>12. \A g \in Frames : /\ x.leaked[g] = IF g = old THEN m.leaked[g] + 1 ELSE m.leaked[g]
                         /\ x.count[g] = IF g = f THEN m.count[g] + 1 ELSE m.count[g]
  <2> HIDE DEF x
  <2> QED BY <1>9, FramesAreNumbers, Fields
<1> QED BY <1>9, <1>10, <1>11, <1>12

LEMMA EnteredCounted ==
  ASSUME NEW m \in Memories, Counted(m),
         NEW s \in Spaces, NEW p \in Pages, NEW f \in Frames
  PROVE  Counted(Entered(pmm_set_alloced(m, f), s, p, f))
<1> DEFINE x == Entered(pmm_set_alloced(m, f), s, p, f)
           old == At(m, s, p)
<1>1. /\ x \in Memories
      /\ \A t \in Spaces, q \in Pages :
           At(x, t, q) = IF t = s /\ q = p THEN f ELSE At(m, t, q)
      /\ x.bitmap = m.bitmap \union {f}
      /\ \A g \in Frames : x.count[g] = IF g = f THEN m.count[g] + 1 ELSE m.count[g]
      /\ \A g \in Frames : x.leaked[g] = IF g = old THEN m.leaked[g] + 1 ELSE m.leaked[g]
  BY EnteredFields
<1> SUFFICES ASSUME NEW g \in Frames
             PROVE  /\ x.count[g] = Cardinality(Holders(x, g)) + x.leaked[g]
                    /\ g \in x.bitmap <=> x.count[g] > 0
  BY DEF Counted
<1>2. /\ m.count[g] = Cardinality(Holders(m, g)) + m.leaked[g]
      /\ g \in m.bitmap <=> m.count[g] > 0
      /\ m.count[g] \in Nat /\ m.leaked[g] \in Nat
  BY Fields DEF Counted
<1>3. IsFiniteSet(Holders(m, g)) /\ Cardinality(Holders(m, g)) \in Nat BY FiniteHolders
<1>4. <<s, p>> \in Holders(m, g) <=> old = g BY DEF Holders
<1>a. \A e \in Spaces \X Pages : e = <<e[1], e[2]>> /\ e[1] \in Spaces /\ e[2] \in Pages OBVIOUS
<1>b. <<s, p>> \in Spaces \X Pages /\ s \in Spaces /\ p \in Pages OBVIOUS
<1> HIDE DEF x
<1>5. CASE g = f
  <2>1. Holders(x, g) = Holders(m, g) \union {<<s, p>>} BY <1>1, <1>5 DEF Holders
  <2>2. Cardinality(Holders(x, g))
          = IF old = g THEN Cardinality(Holders(m, g)) ELSE Cardinality(Holders(m, g)) + 1
    BY <2>1, <1>3, <1>4, FS_AddElement
  <2> QED BY <2>2, <1>1, <1>2, <1>3, <1>5
<1>6. CASE g # f
  <2>1. Holders(x, g) = Holders(m, g) \ {<<s, p>>} BY <1>1, <1>6 DEF Holders
  <2>2. Cardinality(Holders(x, g))
          = IF old = g THEN Cardinality(Holders(m, g)) - 1 ELSE Cardinality(Holders(m, g))
    BY <2>1, <1>3, <1>4, FS_RemoveElement
  <2>3. x.count[g] = m.count[g] /\ (g \in x.bitmap <=> g \in m.bitmap) BY <1>1, <1>6
  <2>4. x.leaked[g] = IF g = old THEN m.leaked[g] + 1 ELSE m.leaked[g] BY <1>1
  <2> HIDE DEF old
  <2>5. x.count[g] = Cardinality(Holders(x, g)) + x.leaked[g]
    BY <2>2, <2>3, <2>4, <1>2, <1>3
  <2> QED BY <2>3, <2>5, <1>2
<1> QED BY <1>5, <1>6

---------------------------------------------------------------------------
(* Giving up pages, and copying the kernel's.                              *)

\* The pairs of one dictionary and some of its pages.
Within(m, s, pages, f) == {e \in Holders(m, f) : e[1] = s /\ e[2] \in pages}

LEMMA ReferencesAreHolders ==
  ASSUME NEW m, NEW s \in Spaces, NEW U \in SUBSET Pages, NEW f
  PROVE  /\ IsFiniteSet(Within(m, s, U, f))
         /\ References(m, s, U, f) = Cardinality(Within(m, s, U, f))
         /\ References(m, s, U, f) \in Nat
         /\ References(m, s, U, f) <= Cardinality(Holders(m, f))
         /\ References(m, s, U, f) = 0 <=> \A p \in U : At(m, s, p) # f
<1> DEFINE W == Within(m, s, U, f)
           R == {p \in U : m.space[s].map[p] = f}
           g == [p \in R |-> <<s, p>>]
<1>1. IsFiniteSet(W) /\ Cardinality(W) <= Cardinality(Holders(m, f))
  <2>1. W \in SUBSET Holders(m, f) BY DEF Within
  <2> QED BY <2>1, FiniteHolders, FS_Subset
<1>2. IsFiniteSet(R)
  <2>1. R \in SUBSET Pages OBVIOUS
  <2> QED BY <2>1, PagesAreNumbers, FS_Subset
<1>3. g \in Bijection(R, W)
  <2>1. g \in [R -> W] BY DEF Within, Holders, At
  <2>2. \A e \in W : e = <<s, e[2]>> /\ e[2] \in R BY DEF Within, Holders, At
  <2>3. \A e \in W : \E p \in R : g[p] = e BY <2>2
  <2>4. \A p, q \in R : g[p] = g[q] => p = q OBVIOUS
  <2> HIDE DEF g, R, W
  <2> QED BY <2>1, <2>3, <2>4 DEF Bijection, Injection, Surjection, IsInjective
<1>4. Cardinality(W) = Cardinality(R)
  <2> HIDE DEF g, R, W
  <2> QED BY <1>2, <1>3, FS_Bijection DEF ExistsBijection
<1>5. Cardinality(R) \in Nat /\ (Cardinality(R) = 0 <=> R = {})
  BY <1>2, FS_CardinalityType, FS_EmptySet
<1>6. References(m, s, U, f) = Cardinality(R) BY DEF References
<1>7. R = {} <=> \A p \in U : At(m, s, p) # f BY DEF At
<1> QED BY <1>1, <1>4, <1>5, <1>6, <1>7

LEMMA ReleasedFields ==
  ASSUME NEW m \in Memories, Counted(m), NEW s \in Spaces, NEW U \in SUBSET Pages
  PROVE  LET x == Released(m, s, U)
         IN  /\ x \in Memories
             /\ \A t \in Spaces, q \in Pages :
                  At(x, t, q) = IF t = s /\ q \in U THEN NONE ELSE At(m, t, q)
             /\ \A t \in Spaces : t # s => x.space[t] = m.space[t]
             /\ \A f \in Frames : x.count[f] = m.count[f] - References(m, s, U, f)
             /\ x.bitmap = {f \in m.bitmap : References(m, s, U, f) \in {0} \union 0 .. m.count[f] - 1}
             /\ x.leaked = m.leaked /\ x.mmio_next = m.mmio_next /\ x.panic = m.panic
<1> DEFINE x == Released(m, s, U)
           count == [f \in Frames |-> m.count[f] - References(m, s, U, f)]
           bitmap == {f \in m.bitmap : References(m, s, U, f) \in {0} \union 0 .. m.count[f] - 1}
           map == [p \in Pages |-> IF p \in U THEN NONE ELSE m.space[s].map[p]]
           space == [m.space EXCEPT ![s] = [@ EXCEPT !.map = map]]
<1>1. m.space[s] \in [tables : SUBSET Nat, map : [Pages -> Frames \union {NONE}]]
  BY Fields
<1>2. count \in [Frames -> Nat]
  <2> SUFFICES ASSUME NEW f \in Frames PROVE m.count[f] - References(m, s, U, f) \in Nat
    OBVIOUS
  <2>1. m.count[f] \in Nat /\ m.leaked[f] \in Nat
        /\ m.count[f] = Cardinality(Holders(m, f)) + m.leaked[f]
    BY Fields DEF Counted
  <2>2. References(m, s, U, f) \in Nat /\ References(m, s, U, f) <= Cardinality(Holders(m, f))
    BY ReferencesAreHolders
  <2> QED BY <2>1, <2>2, FiniteHolders
<1>3. bitmap \in SUBSET Frames BY Fields
<1>4. map \in [Pages -> Frames \union {NONE}] BY <1>1
<1>5. space \in [Spaces -> [tables : SUBSET Nat, map : [Pages -> Frames \union {NONE}]]]
  <2> HIDE DEF map
  <2> QED BY <1>1, <1>4, Fields
<1>6. x = [m EXCEPT !.count = count, !.bitmap = bitmap, !.space = space]
  BY DEF Released
<1>7. /\ x \in Memories /\ x.count = count /\ x.bitmap = bitmap /\ x.space = space
      /\ x.leaked = m.leaked /\ x.mmio_next = m.mmio_next /\ x.panic = m.panic
  <2> HIDE DEF count, bitmap, space, x
  <2> QED BY <1>2, <1>3, <1>5, <1>6 DEF Memories
<1>8. space[s].map = map
  <2> HIDE DEF map
  <2> QED BY <1>1, Fields
<1>9. \A t \in Spaces, q \in Pages :
        At(x, t, q) = IF t = s /\ q \in U THEN NONE ELSE At(m, t, q)
  <2> HIDE DEF x
  <2> QED BY <1>7, <1>8, Fields DEF At
<1>10. \A t \in Spaces : t # s => x.space[t] = m.space[t]
  <2> HIDE DEF x
  <2> QED BY <1>7, Fields
<1> QED BY <1>7, <1>9, <1>10

LEMMA ReleasedCounted ==
  ASSUME NEW m \in Memories, Counted(m), NEW s \in Spaces, NEW U \in SUBSET Pages
  PROVE  Counted(Released(m, s, U))
<1> DEFINE x == Released(m, s, U)
<1>1. /\ x \in Memories
      /\ \A t \in Spaces, q \in Pages :
           At(x, t, q) = IF t = s /\ q \in U THEN NONE ELSE At(m, t, q)
      /\ \A f \in Frames : x.count[f] = m.count[f] - References(m, s, U, f)
      /\ x.bitmap = {f \in m.bitmap : References(m, s, U, f) \in {0} \union 0 .. m.count[f] - 1}
      /\ x.leaked = m.leaked
  BY ReleasedFields
<1> SUFFICES ASSUME NEW f \in Frames
             PROVE  /\ x.count[f] = Cardinality(Holders(x, f)) + x.leaked[f]
                    /\ f \in x.bitmap <=> x.count[f] > 0
  BY DEF Counted
<1> HIDE DEF x
<1> DEFINE H == Holders(m, f)
           W == Within(m, s, U, f)
           r == References(m, s, U, f)
<1>2. /\ m.count[f] = Cardinality(H) + m.leaked[f]
      /\ f \in m.bitmap <=> m.count[f] > 0
      /\ m.count[f] \in Nat /\ m.leaked[f] \in Nat
  BY Fields DEF Counted
<1>3. IsFiniteSet(H) /\ Cardinality(H) \in Nat BY FiniteHolders
<1>4. r = Cardinality(W) /\ r \in Nat /\ r <= Cardinality(H) BY ReferencesAreHolders
<1>5. Holders(x, f) = H \ W BY <1>1, FramesAreNumbers DEF Holders, Within
<1>6. H \intersect W = W BY DEF Within
<1>7. Cardinality(Holders(x, f)) = Cardinality(H) - r
  <2> HIDE DEF H, W, r
  <2>1. Cardinality(H \ W) = Cardinality(H) - Cardinality(H \intersect W) BY <1>3, FS_Difference
  <2> QED BY <2>1, <1>4, <1>5, <1>6
<1>8. x.count[f] = m.count[f] - r /\ x.leaked[f] = m.leaked[f] BY <1>1
<1>9. f \in x.bitmap <=> f \in m.bitmap /\ r \in {0} \union 0 .. m.count[f] - 1 BY <1>1
<1> HIDE DEF H, W, r
<1>10. x.count[f] = Cardinality(Holders(x, f)) + x.leaked[f] BY <1>2, <1>3, <1>4, <1>7, <1>8
<1>11. f \in x.bitmap <=> x.count[f] > 0 BY <1>2, <1>3, <1>4, <1>8, <1>9
<1> QED BY <1>10, <1>11

LEMMA CopiedFields ==
  ASSUME NEW m \in Memories, Counted(m), NEW s \in Slots, \A p \in Pages : At(m, s, p) = NONE
  PROVE  LET x == page_dict_copy(m, s)
         IN  /\ x \in Memories /\ Counted(x)
             /\ \A q \in Pages : At(x, s, q) = At(m, KERNEL, q)
             /\ \A t \in Spaces : t # s => x.space[t] = m.space[t]
             /\ x.mmio_next = m.mmio_next /\ x.panic = m.panic
<1> DEFINE x == page_dict_copy(m, s)
           refs(f) == References(m, KERNEL, Pages, f)
           count == [f \in Frames |-> m.count[f] + refs(f)]
           bitmap == m.bitmap \union {f \in Frames : refs(f) > 0}
           space == [m.space EXCEPT ![s] = m.space[KERNEL]]
<1>1. KERNEL \in Spaces /\ s \in Spaces /\ s # KERNEL BY MemoryAssumption DEF Spaces
<1>2. \A f : refs(f) \in Nat /\ refs(f) = Cardinality(Within(m, KERNEL, Pages, f))
             /\ IsFiniteSet(Within(m, KERNEL, Pages, f))
  BY <1>1, ReferencesAreHolders
<1>3. count \in [Frames -> Nat] /\ bitmap \in SUBSET Frames
  <2> HIDE DEF refs
  <2> QED BY <1>2, Fields
<1>4. space \in [Spaces -> [tables : SUBSET Nat, map : [Pages -> Frames \union {NONE}]]]
  BY <1>1, Fields
<1>5. x = [m EXCEPT !.count = count, !.bitmap = bitmap, !.space = space]
  BY DEF page_dict_copy
<1>6. /\ x \in Memories /\ x.count = count /\ x.bitmap = bitmap /\ x.space = space
      /\ x.leaked = m.leaked /\ x.mmio_next = m.mmio_next /\ x.panic = m.panic
  <2> HIDE DEF count, bitmap, space, x
  <2> QED BY <1>3, <1>4, <1>5 DEF Memories
<1>7. /\ \A q \in Pages : At(x, s, q) = At(m, KERNEL, q)
      /\ \A t \in Spaces : t # s => x.space[t] = m.space[t]
  <2> HIDE DEF x
  <2> QED BY <1>6, <1>1, Fields DEF At
<1>8. Counted(x)
  <2> SUFFICES ASSUME NEW f \in Frames
               PROVE  /\ x.count[f] = Cardinality(Holders(x, f)) + x.leaked[f]
                      /\ f \in x.bitmap <=> x.count[f] > 0
    BY DEF Counted
  <2>1. x.count[f] = m.count[f] + refs(f) /\ x.leaked[f] = m.leaked[f]
        /\ (f \in x.bitmap <=> f \in m.bitmap \/ refs(f) > 0)
    <3> HIDE DEF x, refs
    <3> QED BY <1>6
  <2> DEFINE H == Holders(m, f)
             W == Within(m, KERNEL, Pages, f)
             V == Within(x, s, Pages, f)
  <2>2. /\ m.count[f] = Cardinality(H) + m.leaked[f]
        /\ f \in m.bitmap <=> m.count[f] > 0
        /\ m.count[f] \in Nat /\ m.leaked[f] \in Nat
    BY Fields DEF Counted
  <2>3. IsFiniteSet(H) /\ Cardinality(H) \in Nat BY FiniteHolders
  <2>4. References(x, s, Pages, f) = refs(f)
    <3>1. \A p \in Pages : x.space[s].map[p] = m.space[KERNEL].map[p] BY <1>7 DEF At
    <3>2. {p \in Pages : x.space[s].map[p] = f} = {p \in Pages : m.space[KERNEL].map[p] = f}
      BY <3>1
    <3> QED BY <3>2 DEF References
  <2>5. Cardinality(V) = refs(f) /\ IsFiniteSet(V) BY <1>1, <2>4, ReferencesAreHolders
  <2>6. Holders(x, f) = H \union V /\ H \intersect V = {}
    <3> HIDE DEF x
    <3>1. \A t \in Spaces, q \in Pages : t # s => At(x, t, q) = At(m, t, q) BY <1>7 DEF At
    <3>2. \A e \in H : e[1] # s BY FramesAreNumbers DEF Holders
    <3> QED BY <3>1, <3>2 DEF Holders, Within
  <2> HIDE DEF H, V, x, refs
  <2>7. Cardinality(Holders(x, f)) = Cardinality(H) + refs(f)
    <3>1. Cardinality(H \union V) = Cardinality(H) + Cardinality(V) - Cardinality(H \intersect V)
      BY <2>3, <2>5, FS_Union
    <3>2. Cardinality(H \intersect V) = 0 BY <2>6, FS_EmptySet
    <3>3. refs(f) \in Nat BY <1>2
    <3> QED BY <3>1, <3>2, <3>3, <2>3, <2>5, <2>6
  <2>8. refs(f) \in Nat BY <1>2
  <2> QED BY <2>1, <2>2, <2>3, <2>7, <2>8
<1> QED BY <1>6, <1>7, <1>8

LEMMA DestroyedFields ==
  ASSUME NEW m \in Memories, Counted(m), NEW s \in Slots
  PROVE  LET x == page_dict_destroy(m, s)
         IN  /\ x \in Memories /\ Counted(x)
             /\ \A q \in Pages : At(x, s, q) = NONE
             /\ \A t \in Spaces : t # s => x.space[t] = m.space[t]
             /\ x.mmio_next = m.mmio_next /\ x.panic = m.panic
<1> DEFINE n == Released(m, s, Pages)
           x == page_dict_destroy(m, s)
           space == [n.space EXCEPT ![s] = NoSpace]
<1>1. s \in Spaces BY DEF Spaces
<1>2. /\ n \in Memories /\ Counted(n)
      /\ \A t \in Spaces, q \in Pages : At(n, t, q) = IF t = s THEN NONE ELSE At(m, t, q)
      /\ \A t \in Spaces : t # s => n.space[t] = m.space[t]
      /\ n.mmio_next = m.mmio_next /\ n.panic = m.panic
  BY <1>1, ReleasedFields, ReleasedCounted
<1>3. x = [n EXCEPT !.space = space] BY DEF page_dict_destroy
<1>4. NoSpace \in [tables : SUBSET Nat, map : [Pages -> Frames \union {NONE}]] BY DEF NoSpace
<1> HIDE DEF n
<1>5. space \in [Spaces -> [tables : SUBSET Nat, map : [Pages -> Frames \union {NONE}]]]
  BY <1>1, <1>2, <1>4, Fields
<1>6. /\ x \in Memories /\ x.count = n.count /\ x.bitmap = n.bitmap /\ x.space = space
      /\ x.leaked = n.leaked /\ x.mmio_next = n.mmio_next /\ x.panic = n.panic
  <2> HIDE DEF space, x
  <2> QED BY <1>2, <1>3, <1>5 DEF Memories
<1>7. \A t \in Spaces : t # s => x.space[t] = n.space[t]
  <2> HIDE DEF x
  <2> QED BY <1>1, <1>2, <1>6, Fields
<1>8. \A q \in Pages : At(x, s, q) = NONE
  <2>1. x.space[s] = NoSpace
    <3> HIDE DEF x
    <3> QED BY <1>1, <1>2, <1>6, Fields
  <2> HIDE DEF x
  <2> QED BY <2>1 DEF At, NoSpace
<1>9. \A t \in Spaces, q \in Pages : At(x, t, q) = At(n, t, q)
  <2> HIDE DEF x
  <2> QED BY <1>2, <1>7, <1>8 DEF At
<1>10. Counted(x)
  <2> HIDE DEF x
  <2>1. \A f : Holders(x, f) = Holders(n, f) BY <1>9 DEF Holders
  <2> QED BY <1>2, <1>6, <2>1 DEF Counted
<1> QED BY <1>2, <1>6, <1>7, <1>8, <1>10

---------------------------------------------------------------------------
(* Separate address spaces.                                                *)

\* SpacesSeparate, and why a page of the kernel is entered only once.
Separate(m) ==
  /\ \A s \in Slots, p \in Pages :
       IF p < KERNEL_PAGE THEN At(m, s, p) \in Ram \union {NONE}
       ELSE At(m, s, p) \in {NONE, At(m, KERNEL, p)}
  /\ \A p \in Pages : At(m, KERNEL, p) \in KernelFrames \union {NONE}
  /\ \A p \in Pages : p < KERNEL_PAGE \/ m.mmio_next <= p => At(m, KERNEL, p) = NONE
  /\ \A f \in Ram : \A d, e \in Holders(m, f) : d = e
  /\ KERNEL_PAGE <= m.mmio_next

SoundMemories == {m \in Memories : Counted(m) /\ Separate(m)}

\* x is m after pages of one dictionary were mapped, unless the frames ran out.
Fills(m, x, s, pages) ==
  /\ x \in SoundMemories
  /\ \A t \in Spaces : t # s => x.space[t] = m.space[t]
  /\ x.mmio_next = m.mmio_next
  /\ m.panic => x.panic
  /\ ~ x.panic => \A q \in Pages : At(x, s, q) # NONE <=> At(m, s, q) # NONE \/ q \in pages

LEMMA NobodyHolds ==
  ASSUME NEW m \in Memories, Counted(m), NEW f \in Frames, f \notin m.bitmap
  PROVE  Holders(m, f) = {}
<1>1. m.count[f] = Cardinality(Holders(m, f)) + m.leaked[f] /\ ~ (m.count[f] > 0)
      /\ m.count[f] \in Nat /\ m.leaked[f] \in Nat
  BY Fields DEF Counted
<1>2. IsFiniteSet(Holders(m, f)) /\ Cardinality(Holders(m, f)) \in Nat BY FiniteHolders
<1>3. Cardinality(Holders(m, f)) = 0 BY <1>1, <1>2
<1> QED BY <1>2, <1>3, FS_EmptySet

\* A page of a process is given a frame that no dictionary holds.
LEMMA MapPage ==
  ASSUME NEW m \in SoundMemories, NEW s \in Slots, NEW p \in Pages, p < KERNEL_PAGE
  PROVE  Fills(m, page_dict_map_page(m, s, p), s, {p})
<1> DEFINE free == Ram \ m.bitmap
           f == Min(free)
           x == page_dict_map_page(m, s, p)
<1>1. m \in Memories /\ Counted(m) /\ Separate(m) BY DEF SoundMemories
<1>2. CASE m.panic \/ free = {}
  <2>1. x = [m EXCEPT !.panic = TRUE] BY <1>2 DEF page_dict_map_page
  <2>2. /\ x \in Memories /\ x.count = m.count /\ x.bitmap = m.bitmap /\ x.space = m.space
        /\ x.leaked = m.leaked /\ x.mmio_next = m.mmio_next /\ x.panic = TRUE
    <3> HIDE DEF x
    <3> QED BY <1>1, <2>1 DEF Memories
  <2> HIDE DEF x
  <2>3. \A t, q : At(x, t, q) = At(m, t, q) BY <2>2 DEF At
  <2>4. \A g : Holders(x, g) = Holders(m, g) BY <2>3 DEF Holders
  <2>5. Counted(x) BY <1>1, <2>2, <2>4 DEF Counted
  <2>6. Separate(x) BY <1>1, <2>2, <2>3, <2>4 DEF Separate
  <2>7. Fills(m, x, s, {p}) BY <2>2, <2>5, <2>6 DEF Fills, SoundMemories
  <2> QED BY <2>7 DEF x
<1>3. CASE ~ (m.panic \/ free = {})
  <2>1. f \in Ram /\ f \notin m.bitmap /\ f \in Frames
    <3>1. free \in SUBSET Nat BY MemoryAssumption
    <3>2. f \in free
      <4> HIDE DEF free
      <4> QED BY <3>1, <1>3, LeastNat
    <3> QED BY <3>2 DEF Frames
  <2>2. x = Entered(pmm_set_alloced(m, f), s, p, f) BY <1>3 DEF page_dict_map_page
  <2>3. s \in Spaces /\ s # KERNEL /\ KERNEL \in Spaces BY MemoryAssumption DEF Spaces
  <2> HIDE DEF f, x
  <2>4. /\ x \in Memories
        /\ \A t \in Spaces, q \in Pages :
             At(x, t, q) = IF t = s /\ q = p THEN f ELSE At(m, t, q)
        /\ \A t \in Spaces : t # s => x.space[t] = m.space[t]
        /\ x.mmio_next = m.mmio_next /\ x.panic = m.panic
    BY <1>1, <2>1, <2>2, <2>3, EnteredFields
  <2>5. Counted(x) BY <1>1, <2>1, <2>2, <2>3, EnteredCounted
  <2>6. f # NONE BY <2>1, FramesAreNumbers
  <2>7. \A g \in Ram : \A d, e \in Holders(x, g) : d = e
    <3>1. Holders(m, f) = {} BY <1>1, <2>1, NobodyHolds
    <3>2. ASSUME NEW g \in Ram, NEW d \in Holders(x, g), NEW e \in Holders(x, g)
          PROVE  d = e
      <4>1. /\ d = <<d[1], d[2]>> /\ e = <<e[1], e[2]>>
            /\ d[1] \in Spaces /\ d[2] \in Pages /\ e[1] \in Spaces /\ e[2] \in Pages
            /\ At(x, d[1], d[2]) = g /\ At(x, e[1], e[2]) = g
            /\ d \in Spaces \X Pages /\ e \in Spaces \X Pages
        BY DEF Holders
      <4>2. CASE g = f
        <5>1. d = <<s, p>> /\ e = <<s, p>> BY <2>4, <3>1, <4>1, <4>2 DEF Holders
        <5> QED BY <5>1
      <4>3. CASE g # f
        <5>1. d \in Holders(m, g) /\ e \in Holders(m, g) BY <2>4, <4>1, <4>3 DEF Holders
        <5> QED BY <5>1, <1>1 DEF Separate
      <4> QED BY <4>2, <4>3
    <3> QED BY <3>2
  <2>8. Separate(x)
    <3>1. \A q \in Pages : At(x, KERNEL, q) = At(m, KERNEL, q) BY <2>3, <2>4
    <3>2. \A t \in Slots : t \in Spaces BY DEF Spaces
    <3>3. \A t \in Slots, q \in Pages :
            IF q < KERNEL_PAGE THEN At(x, t, q) \in Ram \union {NONE}
            ELSE At(x, t, q) \in {NONE, At(x, KERNEL, q)}
      BY <1>1, <2>1, <2>4, <3>1, <3>2 DEF Separate
    <3> QED BY <1>1, <2>4, <2>7, <3>1, <3>3 DEF Separate
  <2>9. \A q \in Pages : At(x, s, q) # NONE <=> At(m, s, q) # NONE \/ q \in {p}
    BY <2>3, <2>4, <2>6
  <2>10. Fills(m, x, s, {p}) BY <1>3, <2>4, <2>5, <2>8, <2>9 DEF Fills, SoundMemories
  <2> QED BY <2>10 DEF x
<1> QED BY <1>2, <1>3

LEMMA MapInterval ==
  ASSUME NEW m \in SoundMemories, NEW s \in Slots, NEW start \in Nat, NEW size \in Nat,
         start + size <= PAGE_SIZE * KERNEL_PAGE
  PROVE  Fills(m, page_dict_map_interval(m, s, start, size), s, Interval(start, size))
<1> DEFINE n == PageCount(start, size)
           a == page_alligned_left(start)
           Step(g) == [i \in 0 .. PageCount(start, size) |->
                         IF i = 0 THEN m
                         ELSE page_dict_map_page(g[i - 1], s, page_alligned_left(start) + i - 1)]
           mapped == CHOOSE g : g = Step(g)
           S == SoundMemories
           G == [z \in S \X (1 .. n) |-> page_dict_map_page(z[1], s, a + z[2] - 1)]
<1>1. n \in Nat /\ a \in Nat BY IntervalBounds
<1>n. n \in Nat BY <1>1
<1>2. \A i \in 1 .. n : a + i - 1 \in Pages /\ a + i - 1 < KERNEL_PAGE
  <2>1. Interval(start, size) \subseteq 0 .. KERNEL_PAGE - 1 BY Sizes, IntervalBelow
  <2>2. \A i \in 1 .. n : a + i - 1 \in Interval(start, size) BY <1>1 DEF Interval
  <2>3. \A i \in 1 .. n : a + i - 1 \in Nat /\ a + i - 1 < KERNEL_PAGE BY <2>1, <2>2, Sizes
  <2> QED BY <2>3, PagesAreNumbers
<1>3. G \in [S \X (1 .. n) -> S]
  <2>1. \A y \in S, i \in 1 .. n : page_dict_map_page(y, s, a + i - 1) \in S
    BY <1>2, MapPage DEF Fills
  <2> HIDE DEF S
  <2> QED BY <2>1
<1>4. PICK f \in [0 .. n -> S] : Chain(f, m, G, n)
  <2>1. m \in S OBVIOUS
  <2> HIDE DEF S, G, n
  <2> QED BY <1>n, <1>3, <2>1, Iterates
<1>5. f = Step(f)
  <2>1. \A i \in 1 .. n : G[<<f[i - 1], i>>] = page_dict_map_page(f[i - 1], s, a + i - 1)
    <3> SUFFICES ASSUME NEW i \in 1 .. n
                 PROVE  G[<<f[i - 1], i>>] = page_dict_map_page(f[i - 1], s, a + i - 1)
      OBVIOUS
    <3>1. i - 1 \in 0 .. n BY <1>1
    <3>2. f[i - 1] \in S BY <3>1, <1>4
    <3> QED BY <3>2
  <2> HIDE DEF G
  <2>2. ASSUME NEW i \in 0 .. n PROVE f[i] = Step(f)[i]
    <3>1. CASE i = 0 BY <1>4, <3>1 DEF Chain
    <3>2. CASE i # 0
      <4>1. i \in 1 .. n BY <1>n, <3>2
      <4> QED BY <1>4, <2>1, <3>2, <4>1 DEF Chain
    <3> QED BY <3>1, <3>2
  <2> QED BY <1>1, <1>4, <2>2
<1>6. mapped = Step(mapped) BY <1>5
<1>7. page_dict_map_interval(m, s, start, size) = mapped[n] BY DEF page_dict_map_interval
<1> HIDE DEF mapped, n, a
<1> DEFINE Done == {i \in 0 .. n : Fills(m, mapped[i], s, a .. a + i - 1)}
<1>8. 0 \in Done
  <2>1. mapped[0] = m BY <1>1, <1>6 DEF n
  <2>2. \A q \in Pages : q \notin a .. a + 0 - 1 BY <1>1
  <2>3. Fills(m, m, s, a .. a + 0 - 1) BY <2>2 DEF Fills
  <2> QED BY <1>1, <2>1, <2>3
<1>9. ASSUME NEW i \in 1 .. n, i - 1 \in Done PROVE i \in Done
  <2> DEFINE y == mapped[i - 1]
             x == mapped[i]
  <2>1. Fills(m, y, s, a .. a + (i - 1) - 1) BY <1>9
  <2>2. x = page_dict_map_page(y, s, a + i - 1) BY <1>1, <1>6 DEF n, a
  <2>3. y \in SoundMemories BY <2>1 DEF Fills
  <2>4. Fills(y, x, s, {a + i - 1}) BY <1>2, <2>2, <2>3, MapPage
  <2> HIDE DEF x, y
  <2>5. \A q \in Pages : q \in a .. a + i - 1 <=> q \in a .. a + (i - 1) - 1 \/ q \in {a + i - 1}
    BY <1>1, PagesAreNumbers
  <2>6. Fills(m, x, s, a .. a + i - 1) BY <2>1, <2>4, <2>5 DEF Fills
  <2> QED BY <2>6 DEF x
<1> HIDE DEF Done
<1>m. \A i \in 1 .. n : i - 1 \in Done => i \in Done BY <1>9
<1>10. \A i \in 0 .. n : i \in Done BY <1>n, <1>8, <1>m, Upwards
<1>12. n \in Done BY <1>10, <1>n
<1>11. Fills(m, mapped[n], s, a .. a + n - 1) BY <1>12 DEF Done
<1> QED BY <1>7, <1>11 DEF Interval, n, a

\* A copy holds no frame of user memory.
LEMMA CopySound ==
  ASSUME NEW m \in SoundMemories, NEW s \in Slots, \A p \in Pages : At(m, s, p) = NONE
  PROVE  LET x == page_dict_copy(m, s)
         IN  /\ x \in SoundMemories /\ x.panic = m.panic /\ x.mmio_next = m.mmio_next
             /\ \A t \in Spaces : t # s => x.space[t] = m.space[t]
             /\ \A q \in Pages : q < KERNEL_PAGE => At(x, s, q) = NONE
<1> DEFINE x == page_dict_copy(m, s)
<1>1. m \in Memories /\ Counted(m) /\ Separate(m) BY DEF SoundMemories
<1>2. /\ x \in Memories /\ Counted(x)
      /\ \A q \in Pages : At(x, s, q) = At(m, KERNEL, q)
      /\ \A t \in Spaces : t # s => x.space[t] = m.space[t]
      /\ x.mmio_next = m.mmio_next /\ x.panic = m.panic
  BY <1>1, CopiedFields
<1>3. KERNEL \in Spaces /\ s # KERNEL /\ \A t \in Slots : t \in Spaces
  BY MemoryAssumption DEF Spaces
<1> HIDE DEF x
<1>4. \A t \in Spaces, q \in Pages : t # s => At(x, t, q) = At(m, t, q) BY <1>2 DEF At
<1>5. \A q \in Pages : /\ At(m, KERNEL, q) \in KernelFrames \union {NONE}
                       /\ q < KERNEL_PAGE => At(m, KERNEL, q) = NONE
  BY <1>1 DEF Separate
<1>6. \A f \in Ram : Holders(x, f) \subseteq Holders(m, f)
  <2> SUFFICES ASSUME NEW f \in Ram, NEW e \in Holders(x, f) PROVE e \in Holders(m, f)
    OBVIOUS
  <2>1. e \in Spaces \X Pages /\ e[1] \in Spaces /\ e[2] \in Pages /\ At(x, e[1], e[2]) = f
    BY DEF Holders
  <2>2. f \notin KernelFrames \union {NONE} BY MemoryAssumption
  <2>3. e[1] # s BY <1>2, <1>5, <2>1, <2>2
  <2> QED BY <1>4, <2>1, <2>3 DEF Holders
<1>7. \A t \in Slots, q \in Pages :
        IF q < KERNEL_PAGE THEN At(x, t, q) \in Ram \union {NONE}
        ELSE At(x, t, q) \in {NONE, At(x, KERNEL, q)}
  <2> SUFFICES ASSUME NEW t \in Slots, NEW q \in Pages
               PROVE  IF q < KERNEL_PAGE THEN At(x, t, q) \in Ram \union {NONE}
                      ELSE At(x, t, q) \in {NONE, At(x, KERNEL, q)}
    OBVIOUS
  <2>1. CASE t = s BY <1>2, <1>3, <1>4, <1>5, <2>1
  <2>2. CASE t # s BY <1>1, <1>3, <1>4, <2>2 DEF Separate
  <2> QED BY <2>1, <2>2
<1>8. Separate(x) BY <1>1, <1>2, <1>3, <1>4, <1>6, <1>7 DEF Separate
<1>9. x \in SoundMemories BY <1>2, <1>8 DEF SoundMemories
<1>10. \A q \in Pages : q < KERNEL_PAGE => At(x, s, q) = NONE BY <1>2, <1>5
<1> QED BY <1>2, <1>9, <1>10 DEF x

LEMMA Elements == ASSUME NEW T, NEW q \in Seq(T) PROVE \A i \in 1 .. Len(q) : q[i] \in T
OBVIOUS

\* The pages of the first segments of an image.
Loaded(image, i) == UNION {Interval(image[j].vaddr, image[j].memsz) : j \in 1 .. i}

LEMMA LoadImage ==
  ASSUME NEW m \in SoundMemories, NEW s \in Slots, \A p \in Pages : At(m, s, p) = NONE,
         NEW image \in Images
  PROVE  Fills(page_dict_copy(m, s), _elf_load(m, s, image), s, Loaded(image, Len(image)))
<1> DEFINE n == Len(image)
           c == page_dict_copy(m, s)
           Step(g) == [i \in 0 .. Len(image) |->
                         IF i = 0 THEN page_dict_copy(m, s)
                         ELSE page_dict_map_interval(g[i - 1], s, image[i].vaddr, image[i].memsz)]
           loaded == CHOOSE g : g = Step(g)
           S == SoundMemories
           G == [z \in S \X (1 .. n) |->
                   page_dict_map_interval(z[1], s, image[z[2]].vaddr, image[z[2]].memsz)]
<1>n. n \in Nat BY MemoryAssumption DEF ProgramAssumption
<1>c. c \in S BY CopySound
<1>2. \A i \in 1 .. n :
        /\ image[i].vaddr \in Nat /\ image[i].memsz \in Nat
        /\ image[i].vaddr + image[i].memsz <= PAGE_SIZE * KERNEL_PAGE
  <2> SUFFICES ASSUME NEW i \in 1 .. n
               PROVE  /\ image[i].vaddr \in Nat /\ image[i].memsz \in Nat
                      /\ image[i].vaddr + image[i].memsz <= PAGE_SIZE * KERNEL_PAGE
    OBVIOUS
  <2>0. image \in Seq([vaddr : Nat, memsz : Nat]) BY MemoryAssumption DEF ProgramAssumption
  <2>1. DOMAIN image = 1 .. n BY <2>0
  <2>2. image[i] \in [vaddr : Nat, memsz : Nat]
    BY <2>0, Elements
  <2>3. image[i].vaddr + image[i].memsz + 8 <= HEAP_LIMIT
    BY <2>1, MemoryAssumption DEF ProgramAssumption
  <2>4. HEAP_LIMIT <= PAGE_SIZE * KERNEL_PAGE
    <3>1. KERNEL_PAGE * PAGE_SIZE = PAGE_SIZE * KERNEL_PAGE BY Sizes, Quotient
    <3>2. PAGE_SIZE * KERNEL_PAGE \in Nat BY Sizes, Quotient
    <3> QED BY <3>1, <3>2, Sizes, MemoryAssumption
  <2>5. PAGE_SIZE * KERNEL_PAGE \in Nat BY Sizes, Quotient
  <2> QED BY <2>2, <2>3, <2>4, <2>5, Sizes, SMTT(30)
<1>3. G \in [S \X (1 .. n) -> S]
  <2>1. \A y \in S, i \in 1 .. n :
          page_dict_map_interval(y, s, image[i].vaddr, image[i].memsz) \in S
    BY <1>2, MapInterval DEF Fills
  <2> HIDE DEF S
  <2> QED BY <2>1
<1>4. PICK f \in [0 .. n -> S] : Chain(f, c, G, n)
  <2> HIDE DEF S, G, n, c
  <2> QED BY <1>n, <1>c, <1>3, Iterates
<1>5. f = Step(f)
  <2>1. \A i \in 1 .. n : G[<<f[i - 1], i>>]
                            = page_dict_map_interval(f[i - 1], s, image[i].vaddr, image[i].memsz)
    <3> SUFFICES ASSUME NEW i \in 1 .. n
                 PROVE  G[<<f[i - 1], i>>]
                          = page_dict_map_interval(f[i - 1], s, image[i].vaddr, image[i].memsz)
      OBVIOUS
    <3>1. i - 1 \in 0 .. n BY <1>n
    <3>2. f[i - 1] \in S BY <3>1, <1>4
    <3> QED BY <3>2
  <2> HIDE DEF G
  <2>2. ASSUME NEW i \in 0 .. n PROVE f[i] = Step(f)[i]
    <3>1. CASE i = 0 BY <1>4, <3>1 DEF Chain
    <3>2. CASE i # 0
      <4>1. i \in 1 .. n BY <1>n, <3>2
      <4> QED BY <1>4, <2>1, <3>2, <4>1 DEF Chain
    <3> QED BY <3>1, <3>2
  <2> QED BY <1>4, <2>2
<1>6. loaded = Step(loaded) BY <1>5
<1>7. _elf_load(m, s, image) = loaded[n] BY DEF _elf_load
<1> HIDE DEF loaded, n, c
<1> DEFINE Done == {i \in 0 .. n : Fills(c, loaded[i], s, Loaded(image, i))}
<1>8. 0 \in Done
  <2>1. loaded[0] = c BY <1>n, <1>6 DEF n, c
  <2>2. Loaded(image, 0) = {} BY DEF Loaded
  <2>3. Fills(c, c, s, Loaded(image, 0)) BY <1>c, <2>2 DEF Fills
  <2> QED BY <1>n, <2>1, <2>3
<1>9. ASSUME NEW i \in 1 .. n, i - 1 \in Done PROVE i \in Done
  <2> DEFINE y == loaded[i - 1]
             x == loaded[i]
             I == Interval(image[i].vaddr, image[i].memsz)
  <2>1. Fills(c, y, s, Loaded(image, i - 1)) BY <1>9
  <2>2. x = page_dict_map_interval(y, s, image[i].vaddr, image[i].memsz)
    BY <1>n, <1>6 DEF n
  <2>3. y \in SoundMemories BY <2>1 DEF Fills
  <2>4. Fills(y, x, s, I) BY <1>2, <2>2, <2>3, MapInterval
  <2> HIDE DEF x, y
  <2>5. \A q : q \in Loaded(image, i) <=> q \in Loaded(image, i - 1) \/ q \in I
    <3>1. \A j \in 1 .. i : j = i \/ j \in 1 .. i - 1 OBVIOUS
    <3>2. \A j \in 1 .. i - 1 : j \in 1 .. i OBVIOUS
    <3>3. i \in 1 .. i OBVIOUS
    <3> QED BY <3>1, <3>2, <3>3 DEF Loaded
  <2>6. Fills(c, x, s, Loaded(image, i)) BY <2>1, <2>4, <2>5 DEF Fills
  <2> QED BY <2>6 DEF x
<1> HIDE DEF Done
<1>m. \A i \in 1 .. n : i - 1 \in Done => i \in Done BY <1>9
<1>10. \A i \in 0 .. n : i \in Done BY <1>n, <1>8, <1>m, Upwards
<1>12. n \in Done BY <1>10, <1>n
<1>11. Fills(c, loaded[n], s, Loaded(image, n)) BY <1>12 DEF Done
<1> QED BY <1>7, <1>11 DEF n, c

LEMMA ReleasedSeparate ==
  ASSUME NEW m \in SoundMemories, NEW s \in Slots, NEW x \in Memories,
         \A t \in Spaces : t # s => x.space[t] = m.space[t],
         \A q \in Pages : At(x, s, q) \in {NONE, At(m, s, q)},
         x.mmio_next = m.mmio_next
  PROVE  Separate(x)
<1>1. Separate(m) BY DEF SoundMemories
<1>2. KERNEL \in Spaces /\ s # KERNEL /\ \A t \in Slots : t \in Spaces
  BY MemoryAssumption DEF Spaces
<1>3. \A t \in Spaces, q \in Pages : At(x, t, q) \in {NONE, At(m, t, q)} BY DEF At
<1>4. \A q \in Pages : At(x, KERNEL, q) = At(m, KERNEL, q) BY <1>2 DEF At
<1>5. \A f \in Ram : Holders(x, f) \subseteq Holders(m, f)
  <2> SUFFICES ASSUME NEW f \in Ram, NEW e \in Holders(x, f) PROVE e \in Holders(m, f)
    OBVIOUS
  <2>1. e \in Spaces \X Pages /\ e[1] \in Spaces /\ e[2] \in Pages /\ At(x, e[1], e[2]) = f
    BY DEF Holders
  <2>2. f # NONE BY MemoryAssumption
  <2> QED BY <1>3, <2>1, <2>2 DEF Holders
<1>6. \A t \in Slots, q \in Pages :
        IF q < KERNEL_PAGE THEN At(x, t, q) \in Ram \union {NONE}
        ELSE At(x, t, q) \in {NONE, At(x, KERNEL, q)}
  BY <1>1, <1>2, <1>3, <1>4 DEF Separate
<1> QED BY <1>1, <1>4, <1>5, <1>6 DEF Separate

LEMMA DestroySound ==
  ASSUME NEW m \in SoundMemories, NEW s \in Slots
  PROVE  LET x == page_dict_destroy(m, s)
         IN  /\ x \in SoundMemories /\ x.panic = m.panic
             /\ \A q \in Pages : At(x, s, q) = NONE
             /\ \A t \in Spaces : t # s => x.space[t] = m.space[t]
<1> DEFINE x == page_dict_destroy(m, s)
<1>1. m \in Memories /\ Counted(m) BY DEF SoundMemories
<1>2. /\ x \in Memories /\ Counted(x)
      /\ \A q \in Pages : At(x, s, q) = NONE
      /\ \A t \in Spaces : t # s => x.space[t] = m.space[t]
      /\ x.mmio_next = m.mmio_next /\ x.panic = m.panic
  BY <1>1, DestroyedFields
<1> HIDE DEF x
<1>3. Separate(x) BY <1>2, ReleasedSeparate
<1>4. x \in SoundMemories BY <1>2, <1>3 DEF SoundMemories
<1> QED BY <1>2, <1>4 DEF x

LEMMA UnmapInterval ==
  ASSUME NEW m \in SoundMemories, NEW s \in Slots, NEW start \in Nat, NEW size \in Nat,
         start + size <= PAGE_SIZE * KERNEL_PAGE
  PROVE  LET x == page_dict_unmap_interval(m, s, start, size)
         IN  /\ x \in SoundMemories
             /\ \A t \in Spaces : t # s => x.space[t] = m.space[t]
             /\ ~ x.panic => \A q \in Pages :
                  At(x, s, q) # NONE <=> At(m, s, q) # NONE /\ q \notin Interval(start, size)
<1> DEFINE I == Interval(start, size)
           bare == {p \in I : PD_INDEX(p) \notin m.space[s].tables}
           done == {p \in I : \A q \in bare : p < q}
           n == Released(m, s, done)
           x == page_dict_unmap_interval(m, s, start, size)
<1>1. m \in Memories /\ Counted(m) BY DEF SoundMemories
<1>2. done \in SUBSET Pages
  <2>1. I \subseteq 0 .. KERNEL_PAGE - 1 BY Sizes, IntervalBelow
  <2>2. \A p \in I : p \in Nat /\ p < KERNEL_PAGE BY <2>1, Sizes
  <2> HIDE DEF I
  <2> QED BY <2>2, PagesAreNumbers
<1>3. s \in Spaces BY DEF Spaces
<1>4. /\ n \in Memories /\ Counted(n)
      /\ \A t \in Spaces, q \in Pages :
           At(n, t, q) = IF t = s /\ q \in done THEN NONE ELSE At(m, t, q)
      /\ \A t \in Spaces : t # s => n.space[t] = m.space[t]
      /\ n.mmio_next = m.mmio_next
  <2> HIDE DEF done
  <2> QED BY <1>1, <1>2, <1>3, ReleasedFields, ReleasedCounted
<1>5. x = [n EXCEPT !.panic = bare # {}] BY DEF page_dict_unmap_interval
<1> HIDE DEF n
<1>6. /\ x \in Memories /\ x.count = n.count /\ x.bitmap = n.bitmap /\ x.space = n.space
      /\ x.leaked = n.leaked /\ x.mmio_next = n.mmio_next /\ x.panic = (bare # {})
  <2> DEFINE panic == bare # {}
  <2>1. panic \in BOOLEAN OBVIOUS
  <2>2. x = [n EXCEPT !.panic = panic] BY <1>5
  <2> HIDE DEF panic, x
  <2>3. /\ x \in Memories /\ x.count = n.count /\ x.bitmap = n.bitmap /\ x.space = n.space
        /\ x.leaked = n.leaked /\ x.mmio_next = n.mmio_next /\ x.panic = panic
    BY <1>4, <2>1, <2>2 DEF Memories
  <2> QED BY <2>3 DEF panic
<1> HIDE DEF x, done
<1>7. \A t, q : At(x, t, q) = At(n, t, q) BY <1>6 DEF At
<1>8. \A f : Holders(x, f) = Holders(n, f) BY <1>7 DEF Holders
<1>9. Counted(x) BY <1>4, <1>6, <1>8 DEF Counted
<1>10. Separate(x) BY <1>3, <1>4, <1>6, <1>7, ReleasedSeparate
<1>11. x \in SoundMemories BY <1>6, <1>9, <1>10 DEF SoundMemories
<1>12. \A t \in Spaces : t # s => x.space[t] = m.space[t] BY <1>4, <1>6
<1>13. ASSUME ~ x.panic
       PROVE  \A q \in Pages : At(x, s, q) # NONE <=> At(m, s, q) # NONE /\ q \notin I
  <2>1. bare = {} BY <1>6, <1>13
  <2>2. done = I BY <2>1 DEF done
  <2> QED BY <1>3, <1>4, <1>7, <2>2
<1> QED BY <1>11, <1>12, <1>13 DEF x

\* A device's page is entered where the kernel has none, and no process either.
LEMMA MapSpecial ==
  ASSUME NEW m \in SoundMemories, NEW f \in KernelFrames,
         m.mmio_next < MMIO_PAGE + MMIO_PAGES
  PROVE  LET x == [page_dict_map_page_to_phys(m, KERNEL, m.mmio_next, f) EXCEPT !.mmio_next = @ + 1]
         IN  /\ x \in SoundMemories /\ x.panic = m.panic
             /\ \A t \in Spaces : t # KERNEL => x.space[t] = m.space[t]
<1> DEFINE p == m.mmio_next
           n == Entered(pmm_set_alloced(m, f), KERNEL, p, f)
           x == [n EXCEPT !.mmio_next = @ + 1]
<1>1. m \in Memories /\ Counted(m) /\ Separate(m) BY DEF SoundMemories
<1>2. /\ KERNEL \in Spaces /\ f \in Frames /\ \A t \in Slots : t # KERNEL /\ t \in Spaces
      /\ f \notin Ram
  BY MemoryAssumption DEF Spaces, Frames
<1>3. p \in Pages /\ p \in Nat /\ KERNEL_PAGE <= p
  BY <1>1, Fields, Sizes DEF Pages, Separate
<1>4. /\ n \in Memories /\ Counted(n)
      /\ \A t \in Spaces, q \in Pages :
           At(n, t, q) = IF t = KERNEL /\ q = p THEN f ELSE At(m, t, q)
      /\ \A t \in Spaces : t # KERNEL => n.space[t] = m.space[t]
      /\ n.mmio_next = m.mmio_next /\ n.panic = m.panic
  <2> HIDE DEF p
  <2> QED BY <1>1, <1>2, <1>3, EnteredFields, EnteredCounted
<1> HIDE DEF n
<1>5. /\ x \in Memories /\ x.count = n.count /\ x.bitmap = n.bitmap /\ x.space = n.space
      /\ x.leaked = n.leaked /\ x.mmio_next = p + 1 /\ x.panic = n.panic
  <2> DEFINE next == n.mmio_next + 1
  <2>1. next \in Nat /\ next = p + 1 BY <1>4, Fields
  <2>2. x = [n EXCEPT !.mmio_next = next] OBVIOUS
  <2> HIDE DEF next, x, p
  <2> QED BY <1>4, <2>1, <2>2 DEF Memories
<1> HIDE DEF x
<1>6. \A t, q : At(x, t, q) = At(n, t, q) BY <1>5 DEF At
<1>7. \A g : Holders(x, g) = Holders(n, g) BY <1>6 DEF Holders
<1>8. Counted(x) BY <1>4, <1>5, <1>7 DEF Counted
<1>9. At(m, KERNEL, p) = NONE /\ \A t \in Slots : At(m, t, p) = NONE
  BY <1>1, <1>2, <1>3, Sizes, PagesAreNumbers, Fields DEF Separate
<1> HIDE DEF p
<1>10. Separate(x)
  <2>1. \A t \in Slots, q \in Pages :
          IF q < KERNEL_PAGE THEN At(x, t, q) \in Ram \union {NONE}
          ELSE At(x, t, q) \in {NONE, At(x, KERNEL, q)}
    <3> SUFFICES ASSUME NEW t \in Slots, NEW q \in Pages
                 PROVE  IF q < KERNEL_PAGE THEN At(x, t, q) \in Ram \union {NONE}
                        ELSE At(x, t, q) \in {NONE, At(x, KERNEL, q)}
      OBVIOUS
    <3>1. At(x, t, q) = At(m, t, q) BY <1>2, <1>4, <1>6
    <3>2. At(x, KERNEL, q) = IF q = p THEN f ELSE At(m, KERNEL, q) BY <1>2, <1>4, <1>6
    <3> QED BY <1>1, <1>9, <3>1, <3>2 DEF Separate
  <2>2. \A q \in Pages : /\ At(x, KERNEL, q) \in KernelFrames \union {NONE}
                         /\ q < KERNEL_PAGE \/ x.mmio_next <= q => At(x, KERNEL, q) = NONE
    <3> SUFFICES ASSUME NEW q \in Pages
                 PROVE  /\ At(x, KERNEL, q) \in KernelFrames \union {NONE}
                        /\ q < KERNEL_PAGE \/ x.mmio_next <= q => At(x, KERNEL, q) = NONE
      OBVIOUS
    <3>1. At(x, KERNEL, q) = IF q = p THEN f ELSE At(m, KERNEL, q) BY <1>2, <1>4, <1>6
    <3>2. q < KERNEL_PAGE \/ p + 1 <= q => q # p /\ (q < KERNEL_PAGE \/ p <= q)
      BY <1>3, Sizes, PagesAreNumbers
    <3> QED BY <1>1, <1>5, <3>1, <3>2 DEF Separate, p
  <2>3. \A g \in Ram : Holders(x, g) \subseteq Holders(m, g)
    <3> SUFFICES ASSUME NEW g \in Ram, NEW e \in Holders(x, g) PROVE e \in Holders(m, g)
      OBVIOUS
    <3>1. e \in Spaces \X Pages /\ e[1] \in Spaces /\ e[2] \in Pages /\ At(x, e[1], e[2]) = g
      BY DEF Holders
    <3> QED BY <1>2, <1>4, <1>6, <3>1 DEF Holders
  <2>4. KERNEL_PAGE <= x.mmio_next BY <1>3, <1>5, Sizes
  <2> QED BY <1>1, <2>1, <2>2, <2>3, <2>4 DEF Separate
<1>11. x \in SoundMemories BY <1>5, <1>8, <1>10 DEF SoundMemories
<1> QED BY <1>4, <1>5, <1>11 DEF x, n, p, page_dict_map_page_to_phys

---------------------------------------------------------------------------
(* The heap of a process, in bytes.                                        *)

\* The pages of what brk has granted are present, and none above them.
HeapSound(m, s, t) ==
  /\ t.brk_start <= t.brk /\ t.brk <= t.brk_end /\ t.brk_end <= HEAP_LIMIT
  /\ t.brk_end % PAGE_SIZE = 0 \/ t.brk_end = t.brk_start
  /\ t.brk_start < t.brk_end =>
       \A p \in Pages :
         t.brk_start < PAGE_SIZE * p + PAGE_SIZE /\ PAGE_SIZE * p < t.brk_end =>
           At(m, s, p) # NONE
  /\ \A p \in Pages :
       t.brk_end <= PAGE_SIZE * p /\ PAGE_SIZE * p < HEAP_LIMIT => At(m, s, p) = NONE

Tasks == [alive : BOOLEAN, brk_start : Nat, brk : Nat, brk_end : Nat, mmap_next : Nat]

\* The inductive invariant.
MemoryInv ==
  /\ mem \in SoundMemories
  /\ proc \in [Slots -> Tasks]
  /\ \A s \in Slots :
       /\ ~ proc[s].alive => \A p \in Pages : At(mem, s, p) = NONE
       /\ proc[s].alive /\ ~ mem.panic => HeapSound(mem, s, proc[s])

LEMMA InInterval ==
  ASSUME NEW start \in Nat, NEW size \in Nat, NEW p \in Nat
  PROVE  /\ PAGE_SIZE * p \in Nat
         /\ p \in Interval(start, size)
              <=> start < PAGE_SIZE * p + PAGE_SIZE /\ PAGE_SIZE * p < start + size
<1>1. PAGE_SIZE * p \in Nat BY Sizes
<1>2. p \in Interval(start, size) =>
        start < PAGE_SIZE * p + PAGE_SIZE /\ PAGE_SIZE * p <= start + size - 1
  BY IntervalBounds
<1>3. start < PAGE_SIZE * p + PAGE_SIZE /\ PAGE_SIZE * p < start + size =>
        p \in Interval(start, size)
  BY IntervalBounds
<1> QED BY <1>1, <1>2, <1>3

LEMMA Limits ==
  /\ HEAP_LIMIT <= PAGE_SIZE * KERNEL_PAGE /\ MMAP_LIMIT <= PAGE_SIZE * KERNEL_PAGE
  /\ STACK_TOP <= PAGE_SIZE * KERNEL_PAGE /\ PAGE_SIZE * KERNEL_PAGE \in Nat
  /\ \A p \in Pages : PAGE_SIZE * p < HEAP_LIMIT => p < KERNEL_PAGE
  /\ \A p \in Nat : HEAP_LIMIT < PAGE_SIZE * p + PAGE_SIZE => HEAP_LIMIT <= PAGE_SIZE * p
<1>1. KERNEL_PAGE * PAGE_SIZE = PAGE_SIZE * KERNEL_PAGE /\ PAGE_SIZE * KERNEL_PAGE \in Nat
  BY Sizes, Quotient
<1>2. STACK_TOP <= PAGE_SIZE * KERNEL_PAGE BY <1>1, MemoryAssumption
<1>3. MMAP_LIMIT <= PAGE_SIZE * KERNEL_PAGE BY <1>1, <1>2, Sizes, MemoryAssumption
<1>4. HEAP_LIMIT <= PAGE_SIZE * KERNEL_PAGE BY <1>1, <1>3, Sizes, MemoryAssumption
<1>5. ASSUME NEW p \in Pages, PAGE_SIZE * p < HEAP_LIMIT PROVE p < KERNEL_PAGE
  <2>1. p \in Nat /\ KERNEL_PAGE \in Nat /\ PAGE_SIZE * p \in Nat BY PagesAreNumbers, Sizes
  <2>2. PAGE_SIZE * p < PAGE_SIZE * KERNEL_PAGE BY <1>1, <1>4, <1>5, <2>1, Sizes
  <2> QED BY <2>1, <2>2, Less
<1>6. ASSUME NEW p \in Nat, HEAP_LIMIT < PAGE_SIZE * p + PAGE_SIZE
      PROVE  HEAP_LIMIT <= PAGE_SIZE * p
  <2> DEFINE h == HEAP_LIMIT \div PAGE_SIZE
  <2>1. HEAP_LIMIT \in Nat /\ HEAP_LIMIT % PAGE_SIZE = 0 BY Sizes, MemoryAssumption
  <2>2. h \in Nat /\ HEAP_LIMIT = PAGE_SIZE * h
    <3>1. h \in Nat /\ HEAP_LIMIT = PAGE_SIZE * h + (HEAP_LIMIT % PAGE_SIZE) BY <2>1, DivMod
    <3> HIDE DEF h
    <3>2. PAGE_SIZE * h \in Nat BY <3>1, Quotient
    <3> QED BY <2>1, <3>1, <3>2
  <2>3. PAGE_SIZE * (p + 1) = PAGE_SIZE * p + PAGE_SIZE /\ p + 1 \in Nat BY Sizes
  <2> HIDE DEF h
  <2>4. PAGE_SIZE * h < PAGE_SIZE * (p + 1) BY <1>6, <2>2, <2>3
  <2>5. h <= p BY <2>2, <2>3, <2>4, Less
  <2> QED BY <2>2, <2>5, Less
<1> QED BY <1>1, <1>2, <1>3, <1>4, <1>5, <1>6

\* What is mapped above the limit of the heap does not concern the heap.
LEMMA HeapKept ==
  ASSUME NEW m, NEW x, NEW s, NEW t \in Tasks, HeapSound(m, s, t),
         \A p \in Pages : PAGE_SIZE * p < HEAP_LIMIT => (At(x, s, p) = NONE <=> At(m, s, p) = NONE)
  PROVE  HeapSound(x, s, t)
<1>1. \A p \in Pages : PAGE_SIZE * p \in Nat BY Sizes, PagesAreNumbers
<1>2. t.brk_end \in Nat /\ HEAP_LIMIT \in Nat BY Sizes DEF Tasks
<1> QED BY <1>1, <1>2 DEF HeapSound

LEMMA HeapShrinks ==
  ASSUME NEW m, NEW x, NEW s, NEW t \in Tasks, HeapSound(m, s, t),
         NEW new_brk \in Nat, t.brk_start <= new_brk,
         t.brk_end - RoundedUp(new_brk) >= PAGE_SIZE,
         \A q \in Pages :
           At(x, s, q) # NONE <=> /\ At(m, s, q) # NONE
                                  /\ q \notin Interval(RoundedUp(new_brk),
                                                       t.brk_end - RoundedUp(new_brk))
  PROVE  HeapSound(x, s, [t EXCEPT !.brk = new_brk, !.brk_end = RoundedUp(new_brk)])
<1> DEFINE e == RoundedUp(new_brk)
           k == page_get_num(new_brk)
           u == [t EXCEPT !.brk = new_brk, !.brk_end = e]
<1>1. /\ e \in Nat /\ k \in Nat /\ e = PAGE_SIZE * k /\ new_brk <= e /\ e % PAGE_SIZE = 0
  <2>1. e \in Nat /\ k \in Nat /\ e = PAGE_SIZE * k /\ new_brk <= e BY Rounding
  <2>2. (PAGE_SIZE * k) % PAGE_SIZE = 0
    <3> HIDE DEF k
    <3> QED BY <2>1, Quotient
  <2> QED BY <2>1, <2>2
<1>2. /\ t.brk_start \in Nat /\ t.brk \in Nat /\ t.brk_end \in Nat
      /\ PAGE_SIZE \in Nat /\ PAGE_SIZE > 0 /\ HEAP_LIMIT \in Nat
  BY Sizes DEF Tasks
<1> HIDE DEF e, k
<1>3. e < t.brk_end /\ t.brk_end - e \in Nat /\ e + (t.brk_end - e) = t.brk_end
      /\ t.brk_start < t.brk_end
  BY <1>1, <1>2 DEF e
<1>4. u.brk_start = t.brk_start /\ u.brk = new_brk /\ u.brk_end = e BY DEF Tasks
<1>5. ASSUME NEW p \in Pages
      PROVE  /\ PAGE_SIZE * p \in Nat
             /\ PAGE_SIZE * p < e => PAGE_SIZE * p + PAGE_SIZE <= e
             /\ p \in Interval(e, t.brk_end - e)
                  <=> e < PAGE_SIZE * p + PAGE_SIZE /\ PAGE_SIZE * p < t.brk_end
             /\ At(x, s, p) # NONE <=> At(m, s, p) # NONE /\ p \notin Interval(e, t.brk_end - e)
  <2>1. p \in Nat BY PagesAreNumbers
  <2>2. PAGE_SIZE * p < PAGE_SIZE * k => PAGE_SIZE * p + PAGE_SIZE <= PAGE_SIZE * k
    BY <1>1, <2>1, Less
  <2> QED BY <1>1, <1>3, <2>1, <2>2, InInterval DEF e
<1>6. ASSUME NEW p \in Pages, t.brk_start < PAGE_SIZE * p + PAGE_SIZE, PAGE_SIZE * p < e
      PROVE  At(x, s, p) # NONE
  <2>1. At(m, s, p) # NONE BY <1>1, <1>2, <1>3, <1>5, <1>6 DEF HeapSound
  <2>2. p \notin Interval(e, t.brk_end - e) BY <1>1, <1>2, <1>5, <1>6
  <2> QED BY <1>5, <2>1, <2>2
<1>7. ASSUME NEW p \in Pages, e <= PAGE_SIZE * p, PAGE_SIZE * p < HEAP_LIMIT
      PROVE  At(x, s, p) = NONE
  <2>1. CASE PAGE_SIZE * p < t.brk_end
    <3>1. PAGE_SIZE * p \in Nat BY <1>5
    <3>2. e < PAGE_SIZE * p + PAGE_SIZE BY <1>1, <1>2, <1>7, <3>1
    <3>3. p \in Interval(e, t.brk_end - e) BY <1>5, <2>1, <3>2
    <3> QED BY <1>5, <3>3
  <2>2. CASE ~ (PAGE_SIZE * p < t.brk_end)
    <3>1. At(m, s, p) = NONE BY <1>2, <1>5, <1>7, <2>2 DEF HeapSound
    <3> QED BY <1>5, <3>1
  <2> QED BY <2>1, <2>2
<1> HIDE DEF u
<1>8. HeapSound(x, s, u) BY <1>1, <1>2, <1>3, <1>4, <1>6, <1>7 DEF HeapSound
<1> QED BY <1>8 DEF u, e

LEMMA HeapGrows ==
  ASSUME NEW m, NEW x, NEW s, NEW t \in Tasks, HeapSound(m, s, t),
         NEW new_brk \in Nat, t.brk_start <= new_brk, RoundedUp(new_brk) <= HEAP_LIMIT,
         RoundedUp(new_brk) > t.brk_end,
         \A q \in Pages :
           At(x, s, q) # NONE <=> \/ At(m, s, q) # NONE
                                  \/ q \in Interval(t.brk_end, RoundedUp(new_brk) - t.brk_end)
  PROVE  HeapSound(x, s, [t EXCEPT !.brk = new_brk, !.brk_end = RoundedUp(new_brk)])
<1> DEFINE e == RoundedUp(new_brk)
           k == page_get_num(new_brk)
           u == [t EXCEPT !.brk = new_brk, !.brk_end = e]
<1>1. /\ e \in Nat /\ k \in Nat /\ e = PAGE_SIZE * k /\ new_brk <= e /\ e % PAGE_SIZE = 0
  <2>1. e \in Nat /\ k \in Nat /\ e = PAGE_SIZE * k /\ new_brk <= e BY Rounding
  <2>2. (PAGE_SIZE * k) % PAGE_SIZE = 0
    <3> HIDE DEF k
    <3> QED BY <2>1, Quotient
  <2> QED BY <2>1, <2>2
<1>2. /\ t.brk_start \in Nat /\ t.brk \in Nat /\ t.brk_end \in Nat
      /\ PAGE_SIZE \in Nat /\ PAGE_SIZE > 0 /\ HEAP_LIMIT \in Nat
  BY Sizes DEF Tasks
<1>3. t.brk_end < e /\ e <= HEAP_LIMIT OBVIOUS
<1> HIDE DEF e, k
<1>a. e - t.brk_end \in Nat /\ t.brk_end + (e - t.brk_end) = e BY <1>1, <1>2, <1>3
<1>4. u.brk_start = t.brk_start /\ u.brk = new_brk /\ u.brk_end = e BY DEF Tasks
<1>5. ASSUME NEW p \in Pages
      PROVE  /\ PAGE_SIZE * p \in Nat
             /\ p \in Interval(t.brk_end, e - t.brk_end)
                  <=> t.brk_end < PAGE_SIZE * p + PAGE_SIZE /\ PAGE_SIZE * p < e
             /\ At(x, s, p) # NONE
                  <=> At(m, s, p) # NONE \/ p \in Interval(t.brk_end, e - t.brk_end)
  <2>1. p \in Nat BY PagesAreNumbers
  <2> QED BY <1>1, <1>2, <1>a, <2>1, InInterval DEF e
<1>6. ASSUME NEW p \in Pages, t.brk_start < PAGE_SIZE * p + PAGE_SIZE, PAGE_SIZE * p < e
      PROVE  At(x, s, p) # NONE
  <2>1. CASE t.brk_start < t.brk_end /\ PAGE_SIZE * p < t.brk_end
    BY <1>5, <1>6, <2>1 DEF HeapSound
  <2>2. CASE ~ (t.brk_start < t.brk_end /\ PAGE_SIZE * p < t.brk_end)
    <3>1. t.brk_start <= t.brk_end BY <1>2 DEF HeapSound
    <3>2. p \in Interval(t.brk_end, e - t.brk_end) BY <1>2, <1>5, <1>6, <2>2, <3>1
    <3> QED BY <1>5, <3>2
  <2> QED BY <2>1, <2>2
<1>7. ASSUME NEW p \in Pages, e <= PAGE_SIZE * p, PAGE_SIZE * p < HEAP_LIMIT
      PROVE  At(x, s, p) = NONE
  <2>1. At(m, s, p) = NONE BY <1>1, <1>2, <1>3, <1>5, <1>7 DEF HeapSound
  <2>2. p \notin Interval(t.brk_end, e - t.brk_end) BY <1>1, <1>5, <1>7
  <2> QED BY <1>5, <2>1, <2>2
<1> HIDE DEF u
<1>8. HeapSound(x, s, u) BY <1>1, <1>3, <1>4, <1>6, <1>7 DEF HeapSound
<1> QED BY <1>8 DEF u, e

\* The greatest of some numbers up to a limit.
LEMMA GreatestNat ==
  ASSUME NEW n \in Nat, NEW S \in SUBSET (0 .. n), S # {}
  PROVE  Max(S) \in S /\ \A i \in S : Max(S) >= i
<1> DEFINE D == {k \in Nat : n - k \in S}
<1>1. D \in SUBSET Nat /\ D # {}
  <2>1. PICK i \in S : TRUE OBVIOUS
  <2>2. n - i \in Nat /\ n - (n - i) = i OBVIOUS
  <2> QED BY <2>2
<1>2. \A i \in S : n - i \in D OBVIOUS
<1>3. \A k \in D : k \in Nat /\ n - k \in S OBVIOUS
<1> HIDE DEF D
<1>4. PICK k \in D : \A j \in D : k <= j BY <1>1, LeastNat
<1>5. \A i \in S : n - k >= i BY <1>2, <1>3, <1>4
<1> QED BY <1>3, <1>4, <1>5 DEF Max

\* The heap starts behind the pages of the image, aligned or not.
LEMMA HeapStarts ==
  ASSUME NEW image \in Images
  PROVE  /\ HeapStart(image) \in Nat /\ HeapStart(image) <= HEAP_LIMIT
         /\ \A p \in Loaded(image, Len(image)) : p \in Nat /\ PAGE_SIZE * p < HeapStart(image)
<1> DEFINE E == {image[i].vaddr + image[i].memsz : i \in DOMAIN image}
           e == Max(E)
<1>1. image \in Seq([vaddr : Nat, memsz : Nat]) /\ image # <<>>
      /\ (\A i \in DOMAIN image : image[i].vaddr + image[i].memsz + 8 <= HEAP_LIMIT)
      /\ e % 8 = 0
  BY MemoryAssumption DEF ProgramAssumption
<1>2. DOMAIN image = 1 .. Len(image) /\ Len(image) \in Nat /\ 1 \in DOMAIN image BY <1>1
<1>3. \A i \in DOMAIN image : image[i] \in [vaddr : Nat, memsz : Nat] BY <1>1, <1>2, Elements
<1>4. HEAP_LIMIT \in Nat BY Sizes
<1>5. e \in E /\ (\A i \in E : e >= i)
  <2>1. E \in SUBSET (0 .. HEAP_LIMIT)
    <3> SUFFICES ASSUME NEW i \in DOMAIN image
                 PROVE  image[i].vaddr + image[i].memsz \in 0 .. HEAP_LIMIT
      OBVIOUS
    <3>1. image[i].vaddr \in Nat /\ image[i].memsz \in Nat BY <1>3
    <3>2. image[i].vaddr + image[i].memsz + 8 <= HEAP_LIMIT BY <1>1
    <3> QED BY <1>4, <3>1, <3>2
  <2>2. E # {} BY <1>2
  <2> HIDE DEF E
  <2> QED BY <1>4, <2>1, <2>2, GreatestNat
<1>6. e \in Nat /\ e + 8 <= HEAP_LIMIT
  <2>1. PICK i \in DOMAIN image : e = image[i].vaddr + image[i].memsz BY <1>5
  <2>2. image[i].vaddr \in Nat /\ image[i].memsz \in Nat BY <1>3
  <2> HIDE DEF e
  <2> QED BY <1>1, <2>1, <2>2
<1>7. HeapStart(image) = (e + 7) - (IF ((e + 7) \div 8) % 2 = 1 THEN 8 ELSE 0) BY DEF HeapStart
<1>8. \A i \in DOMAIN image : image[i].vaddr + image[i].memsz <= e BY <1>3, <1>5
<1>9. e % 8 = 0 BY <1>1
<1> DEFINE h == HeapStart(image)
<1> HIDE DEF e, h
<1>10. h \in Nat /\ h <= HEAP_LIMIT /\ (h = e + 7 \/ h = e - 1)
  <2>1. h = e + 7 \/ h = e - 1 BY <1>6, <1>7 DEF h
  <2>2. h = e - 1 => e >= 1
    <3>1. CASE e = 0
      <4>1. (e + 7) \div 8 = 0 BY <3>1
      <4>2. h = e + 7 BY <1>6, <1>7, <4>1 DEF h
      <4> QED BY <1>6, <4>2
    <3>2. CASE e # 0 BY <1>6, <3>2
    <3> QED BY <3>1, <3>2
  <2> QED BY <1>4, <1>6, <2>1, <2>2
<1>11. ASSUME NEW p \in Loaded(image, Len(image)) PROVE p \in Nat /\ PAGE_SIZE * p < h
  <2>1. PICK i \in 1 .. Len(image) : p \in Interval(image[i].vaddr, image[i].memsz) BY DEF Loaded
  <2>2. image[i].vaddr \in Nat /\ image[i].memsz \in Nat BY <1>2, <1>3
  <2>3. p \in Nat /\ PAGE_SIZE * p <= image[i].vaddr + image[i].memsz - 1
    BY <2>1, <2>2, IntervalBounds
  <2>4. image[i].vaddr + image[i].memsz <= e BY <1>2, <1>8
  <2>5. PAGE_SIZE * p \in Nat BY <2>3, Sizes
  <2>6. PAGE_SIZE * p <= e - 1 BY <1>6, <2>2, <2>3, <2>4, <2>5
  <2>7. PAGE_SIZE * p # e - 1
    <3> DEFINE k == PAGE_SIZE \div 16
    <3>1. PAGE_SIZE \in Nat /\ PAGE_SIZE % 16 = 0 BY MemoryAssumption
    <3>2. k \in Nat /\ PAGE_SIZE = 16 * k BY <3>1
    <3> HIDE DEF k
    <3> DEFINE j == k * p
    <3>3. PAGE_SIZE * p = 16 * j /\ j \in Nat BY <2>3, <3>2
    <3> HIDE DEF j
    <3> QED BY <1>6, <1>9, <3>3
  <2> QED BY <1>6, <1>10, <2>3, <2>5, <2>6, <2>7
<1> QED BY <1>10, <1>11 DEF h

---------------------------------------------------------------------------
(* The invariant is kept.                                                  *)

\* A step that changes one dictionary and one process.
LEMMA OneProcess ==
  ASSUME MemoryInv, ~ mem.panic, NEW s \in Slots, NEW x \in SoundMemories, NEW u \in Tasks,
         mem' = x, proc' = [proc EXCEPT ![s] = u],
         \A t \in Spaces : t # s => x.space[t] = mem.space[t],
         ~ u.alive => \A p \in Pages : At(x, s, p) = NONE,
         u.alive /\ ~ x.panic => HeapSound(x, s, u)
  PROVE  MemoryInv'
<1>1. mem' \in SoundMemories OBVIOUS
<1>2. proc' \in [Slots -> Tasks] BY DEF MemoryInv
<1>3. ASSUME NEW t \in Slots
      PROVE  /\ ~ proc'[t].alive => \A p \in Pages : At(x, t, p) = NONE
             /\ proc'[t].alive /\ ~ x.panic => HeapSound(x, t, proc'[t])
  <2>1. CASE t = s
    <3>1. proc'[t] = u BY <2>1 DEF MemoryInv
    <3> QED BY <2>1, <3>1
  <2>2. CASE t # s
    <3>1. proc'[t] = proc[t] /\ proc[t] \in Tasks BY <2>2 DEF MemoryInv
    <3>2. t \in Spaces BY DEF Spaces
    <3>3. \A p : At(x, t, p) = At(mem, t, p) BY <2>2, <3>2 DEF At
    <3>4. ~ proc[t].alive => \A p \in Pages : At(x, t, p) = NONE BY <3>3 DEF MemoryInv
    <3>5. proc[t].alive => HeapSound(x, t, proc[t])
      <4>1. SUFFICES ASSUME proc[t].alive PROVE HeapSound(x, t, proc[t]) OBVIOUS
      <4>2. HeapSound(mem, t, proc[t]) BY <4>1 DEF MemoryInv
      <4> QED BY <3>1, <3>3, <4>2, HeapKept
    <3> QED BY <3>1, <3>4, <3>5
  <2> QED BY <2>1, <2>2
<1> QED BY <1>1, <1>2, <1>3 DEF MemoryInv

LEMMA InitInv == Init => MemoryInv
<1> SUFFICES ASSUME Init PROVE MemoryInv OBVIOUS
<1> DEFINE K == [p \in Pages |-> IF p - KERNEL_PAGE \in KernelFrames THEN p - KERNEL_PAGE ELSE NONE]
           tables == {PD_INDEX(KERNEL_PAGE + f) : f \in KernelFrames}
<1>1. KERNEL \in Spaces /\ (\A s \in Slots : s # KERNEL /\ s \in Spaces)
      /\ KernelFrames \subseteq Frames
  BY MemoryAssumption DEF Spaces, Frames
<1>2. K \in [Pages -> Frames \union {NONE}] BY <1>1
<1>3. tables \in SUBSET Nat
  <2>1. \A f \in KernelFrames : KERNEL_PAGE + f \in Nat /\ f \in Nat
    BY <1>1, FramesAreNumbers, Sizes
  <2>2. PT_ENTRIES \in Nat \ {0} BY Sizes
  <2> QED BY <2>1, <2>2 DEF PD_INDEX
<1>4. NoSpace \in [tables : SUBSET Nat, map : [Pages -> Frames \union {NONE}]] BY DEF NoSpace
<1> DEFINE space == [s \in Spaces |-> IF s # KERNEL THEN NoSpace ELSE [tables |-> tables, map |-> K]]
           count == [f \in Frames |-> IF f \in KernelFrames THEN 1 ELSE 0]
           leaked == [f \in Frames |-> 0]
<1>5. mem = [count |-> count, bitmap |-> KernelFrames, panic |-> FALSE, space |-> space,
             mmio_next |-> MMIO_PAGE, leaked |-> leaked]
  BY DEF Init
<1>6. /\ space \in [Spaces -> [tables : SUBSET Nat, map : [Pages -> Frames \union {NONE}]]]
      /\ count \in [Frames -> Nat] /\ leaked \in [Frames -> Nat]
  <2> HIDE DEF K, tables
  <2> QED BY <1>2, <1>3, <1>4
<1>7. /\ mem.count = count /\ mem.bitmap = KernelFrames /\ mem.panic = FALSE
      /\ mem.space = space /\ mem.mmio_next = MMIO_PAGE /\ mem.leaked = leaked
  <2> HIDE DEF space, count, leaked
  <2> QED BY <1>5
<1>8. mem \in Memories
  <2> HIDE DEF space, count, leaked
  <2> QED BY <1>1, <1>5, <1>6, Sizes DEF Memories
<1>9. \A s \in Spaces, p \in Pages :
        At(mem, s, p) = IF s = KERNEL /\ p - KERNEL_PAGE \in KernelFrames
                        THEN p - KERNEL_PAGE ELSE NONE
  <2>1. \A s \in Spaces : space[s] = IF s # KERNEL THEN NoSpace ELSE [tables |-> tables, map |-> K]
    OBVIOUS
  <2>2. \A p \in Pages : NoSpace.map[p] = NONE BY DEF NoSpace
  <2>3. \A p \in Pages : K[p] = IF p - KERNEL_PAGE \in KernelFrames THEN p - KERNEL_PAGE ELSE NONE
    OBVIOUS
  <2> HIDE DEF K, tables, space
  <2> QED BY <1>7, <2>1, <2>2, <2>3 DEF At
<1>10. \A f \in KernelFrames :
         f \in Nat /\ KERNEL_PAGE + f \in Pages /\ KERNEL_PAGE + f < MMIO_PAGE
  BY <1>1, FramesAreNumbers, MemoryAssumption, Sizes, SMTT(30) DEF Pages, MMIO_PAGE
<1>11. Counted(mem)
  <2> SUFFICES ASSUME NEW f \in Frames
               PROVE  /\ mem.count[f] = Cardinality(Holders(mem, f)) + mem.leaked[f]
                      /\ f \in mem.bitmap <=> mem.count[f] > 0
    BY DEF Counted
  <2>1. mem.leaked[f] = 0 /\ mem.count[f] = (IF f \in KernelFrames THEN 1 ELSE 0)
        /\ mem.bitmap = KernelFrames
    BY <1>7
  <2>2. f # NONE BY FramesAreNumbers
  <2>3. CASE f \in KernelFrames
    <3>1. <<KERNEL, KERNEL_PAGE + f>> \in Holders(mem, f)
      BY <1>1, <1>9, <1>10, <2>3, Sizes DEF Holders
    <3>2. \A e \in Holders(mem, f) : e = <<KERNEL, KERNEL_PAGE + f>>
      <4> SUFFICES ASSUME NEW e \in Holders(mem, f) PROVE e = <<KERNEL, KERNEL_PAGE + f>>
        OBVIOUS
      <4>1. /\ e = <<e[1], e[2]>> /\ e[1] \in Spaces /\ e[2] \in Pages
            /\ At(mem, e[1], e[2]) = f
        BY DEF Holders
      <4>2. e[1] = KERNEL /\ e[2] - KERNEL_PAGE = f BY <1>9, <2>2, <4>1
      <4>3. e[2] = KERNEL_PAGE + f
        <5>1. e[2] \in Nat /\ KERNEL_PAGE \in Nat BY <4>1, PagesAreNumbers, Sizes
        <5> QED BY <4>2, <5>1
      <4> QED BY <4>1, <4>2, <4>3
    <3>3. Holders(mem, f) = {<<KERNEL, KERNEL_PAGE + f>>} BY <3>1, <3>2
    <3>4. Cardinality(Holders(mem, f)) = 1 BY <3>3, FS_Singleton
    <3> QED BY <2>1, <2>3, <3>4
  <2>4. CASE f \notin KernelFrames
    <3>1. Holders(mem, f) = {} BY <1>9, <2>2, <2>4 DEF Holders
    <3>2. Cardinality(Holders(mem, f)) = 0 BY <3>1, FS_EmptySet
    <3> QED BY <2>1, <2>4, <3>2
  <2> QED BY <2>3, <2>4
<1>12. Separate(mem)
  <2>1. \A p \in Pages : p < KERNEL_PAGE \/ MMIO_PAGE <= p => p - KERNEL_PAGE \notin KernelFrames
    <3> SUFFICES ASSUME NEW p \in Pages, p - KERNEL_PAGE \in KernelFrames
                 PROVE  ~ (p < KERNEL_PAGE \/ MMIO_PAGE <= p)
      OBVIOUS
    <3>1. p \in Nat BY PagesAreNumbers
    <3>2. p - KERNEL_PAGE \in Nat /\ KERNEL_PAGE + (p - KERNEL_PAGE) < MMIO_PAGE BY <1>10
    <3> QED BY <3>1, <3>2, Sizes
  <2>2. \A f \in Ram : Holders(mem, f) = {}
    <3>1. \A f \in Ram : f \notin KernelFrames /\ f # NONE BY MemoryAssumption
    <3> QED BY <1>9, <3>1 DEF Holders
  <2>3. \A s \in Slots, p \in Pages : At(mem, s, p) = NONE BY <1>1, <1>9
  <2>4. \A p \in Pages : At(mem, KERNEL, p) \in KernelFrames \union {NONE} BY <1>1, <1>9
  <2>5. \A p \in Pages : p < KERNEL_PAGE \/ mem.mmio_next <= p => At(mem, KERNEL, p) = NONE
    BY <1>1, <1>7, <1>9, <2>1
  <2>6. KERNEL_PAGE <= mem.mmio_next BY <1>7, Sizes
  <2> QED BY <2>2, <2>3, <2>4, <2>5, <2>6 DEF Separate
<1>13. mem \in SoundMemories BY <1>8, <1>11, <1>12 DEF SoundMemories
<1>14. proc \in [Slots -> Tasks] /\ \A s \in Slots : ~ proc[s].alive
  BY DEF Init, Dead, Tasks
<1>15. \A s \in Slots, p \in Pages : At(mem, s, p) = NONE BY <1>1, <1>9
<1> QED BY <1>13, <1>14, <1>15 DEF MemoryInv

LEMMA ExecKeeps ==
  ASSUME MemoryInv, NEW s \in Slots, NEW image \in Images, NEW total \in StackSizes,
         task_create_user_process_from_elf(s, image, total)
  PROVE  MemoryInv'
<1> DEFINE c == page_dict_copy(mem, s)
           y == _elf_load(mem, s, image)
           x == vmm_user_stack_create(y, s, total)
           h == HeapStart(image)
           u == [alive |-> TRUE, brk_start |-> h, brk |-> h, brk_end |-> h,
                 mmap_next |-> MMAP_START]
           start == STACK_TOP - total
<1>1. /\ ~ mem.panic /\ ~ proc[s].alive /\ mem' = x /\ proc' = [proc EXCEPT ![s] = u]
      /\ x = page_dict_map_interval(y, s, start, total)
  BY DEF task_create_user_process_from_elf, vmm_user_stack_create
<1>2. mem \in SoundMemories /\ \A p \in Pages : At(mem, s, p) = NONE BY <1>1 DEF MemoryInv
<1>3. /\ c \in SoundMemories /\ c.panic = mem.panic
      /\ \A t \in Spaces : t # s => c.space[t] = mem.space[t]
      /\ \A q \in Pages : q < KERNEL_PAGE => At(c, s, q) = NONE
  BY <1>2, CopySound
<1>4. Fills(c, y, s, Loaded(image, Len(image))) BY <1>2, LoadImage
<1>5. start \in Nat /\ total \in Nat /\ start + total = STACK_TOP /\ HEAP_LIMIT <= start
  BY Sizes, MemoryAssumption, SMTT(30) DEF ProgramAssumption
<1>6. /\ h \in Nat /\ h <= HEAP_LIMIT
      /\ \A p \in Loaded(image, Len(image)) : p \in Nat /\ PAGE_SIZE * p < h
  BY HeapStarts
<1> HIDE DEF c, y, x, h, start
<1>7. Fills(y, x, s, Interval(start, total))
  <2>1. y \in SoundMemories BY <1>4 DEF Fills
  <2> QED BY <1>1, <1>5, <2>1, Limits, MapInterval
<1>8. x \in SoundMemories /\ \A t \in Spaces : t # s => x.space[t] = mem.space[t]
  BY <1>3, <1>4, <1>7 DEF Fills
<1>9. u \in Tasks BY <1>6, Sizes DEF Tasks
<1>10. ASSUME ~ x.panic PROVE HeapSound(x, s, u)
  <2>1. ASSUME NEW p \in Pages, h <= PAGE_SIZE * p, PAGE_SIZE * p < HEAP_LIMIT
        PROVE  At(x, s, p) = NONE
    <3>1. p \in Nat /\ PAGE_SIZE * p \in Nat BY PagesAreNumbers, Sizes
    <3>2. p < KERNEL_PAGE BY <2>1, Limits
    <3>3. p \notin Loaded(image, Len(image)) BY <1>6, <2>1, <3>1
    <3>4. p \notin Interval(start, total)
      <4>1. SUFFICES ASSUME p \in Interval(start, total) PROVE FALSE OBVIOUS
      <4>2. start < PAGE_SIZE * p + PAGE_SIZE BY <1>5, <3>1, <4>1, InInterval
      <4>3. HEAP_LIMIT < PAGE_SIZE * p + PAGE_SIZE BY <1>5, <3>1, <4>2, Sizes
      <4>4. HEAP_LIMIT <= PAGE_SIZE * p BY <3>1, <4>3, Limits
      <4> QED BY <2>1, <3>1, <4>4, Sizes
    <3>5. ~ y.panic BY <1>7, <1>10 DEF Fills
    <3>6. At(y, s, p) = NONE BY <1>3, <1>4, <3>2, <3>3, <3>5 DEF Fills
    <3> QED BY <1>7, <1>10, <3>4, <3>6 DEF Fills
  <2>2. u.brk_start = h /\ u.brk = h /\ u.brk_end = h OBVIOUS
  <2> HIDE DEF u
  <2> QED BY <1>6, <2>1, <2>2, Sizes DEF HeapSound
<1>11. u.alive OBVIOUS
<1> HIDE DEF u
<1> QED BY <1>1, <1>8, <1>9, <1>10, <1>11, OneProcess

LEMMA ExitKeeps ==
  ASSUME MemoryInv, NEW s \in Slots, Exit(s)
  PROVE  MemoryInv'
<1> DEFINE x == page_dict_destroy(mem, s)
<1>1. ~ mem.panic /\ mem' = x /\ proc' = [proc EXCEPT ![s] = Dead] BY DEF Exit
<1>2. mem \in SoundMemories BY DEF MemoryInv
<1>3. /\ x \in SoundMemories /\ \A q \in Pages : At(x, s, q) = NONE
      /\ \A t \in Spaces : t # s => x.space[t] = mem.space[t]
  BY <1>2, DestroySound
<1>4. Dead \in Tasks /\ ~ Dead.alive BY DEF Dead, Tasks
<1> HIDE DEF x
<1> QED BY <1>1, <1>3, <1>4, OneProcess

LEMMA BrkKeeps ==
  ASSUME MemoryInv, NEW s \in Slots, NEW new_brk \in BrkAddresses, sys_brk(s, new_brk)
  PROVE  MemoryInv'
<1> DEFINE t == proc[s]
           e == RoundedUp(new_brk)
           shrinks == new_brk < t.brk /\ t.brk_end - e >= PAGE_SIZE
           grows == e > t.brk_end
           u == [t EXCEPT !.brk = new_brk, !.brk_end = IF shrinks \/ grows THEN e ELSE t.brk_end]
           x == IF shrinks THEN page_dict_unmap_interval(mem, s, e, t.brk_end - e)
                ELSE IF grows THEN page_dict_map_interval(mem, s, t.brk_end, e - t.brk_end)
                ELSE mem
<1>1. /\ ~ mem.panic /\ t.alive /\ t.brk_start <= new_brk /\ e <= HEAP_LIMIT
      /\ mem' = x /\ proc' = [proc EXCEPT ![s] = u]
  BY DEF sys_brk
<1>2. mem \in SoundMemories /\ t \in Tasks /\ HeapSound(mem, s, t) BY <1>1 DEF MemoryInv
<1>3. new_brk \in Nat /\ e \in Nat /\ new_brk <= e /\ e <= new_brk + PAGE_SIZE - 1
  BY MemoryAssumption, Rounding DEF ProgramAssumption
<1>4. /\ t.brk_start \in Nat /\ t.brk \in Nat /\ t.brk_end \in Nat /\ HEAP_LIMIT \in Nat
      /\ PAGE_SIZE \in Nat /\ PAGE_SIZE > 0
      /\ t.brk_start <= t.brk /\ t.brk <= t.brk_end /\ t.brk_end <= HEAP_LIMIT
  BY <1>2, Sizes DEF Tasks, HeapSound
<1>5. u \in Tasks /\ u.alive BY <1>1, <1>2, <1>3, <1>4 DEF Tasks
<1>6. HEAP_LIMIT <= PAGE_SIZE * KERNEL_PAGE /\ PAGE_SIZE * KERNEL_PAGE \in Nat BY Limits
<1> HIDE DEF t, e
<1>7. /\ x \in SoundMemories
      /\ \A r \in Spaces : r # s => x.space[r] = mem.space[r]
      /\ ~ x.panic => HeapSound(x, s, u)
  <2>1. CASE shrinks
    <3>1. x = page_dict_unmap_interval(mem, s, e, t.brk_end - e) BY <2>1
    <3>2. u = [t EXCEPT !.brk = new_brk, !.brk_end = e] BY <2>1
    <3>3. t.brk_end - e \in Nat /\ e + (t.brk_end - e) <= PAGE_SIZE * KERNEL_PAGE
      BY <1>3, <1>4, <1>6, <2>1
    <3> HIDE DEF x, u
    <3>4. /\ x \in SoundMemories
          /\ \A r \in Spaces : r # s => x.space[r] = mem.space[r]
          /\ ~ x.panic => \A q \in Pages :
               At(x, s, q) # NONE <=> At(mem, s, q) # NONE /\ q \notin Interval(e, t.brk_end - e)
      BY <1>2, <1>3, <3>1, <3>3, UnmapInterval
    <3>5. ~ x.panic => HeapSound(x, s, u)
      BY <1>1, <1>2, <1>3, <2>1, <3>2, <3>4, HeapShrinks DEF e
    <3> QED BY <3>4, <3>5
  <2>2. CASE ~ shrinks /\ grows
    <3>1. x = page_dict_map_interval(mem, s, t.brk_end, e - t.brk_end) BY <2>2
    <3>2. u = [t EXCEPT !.brk = new_brk, !.brk_end = e] BY <2>2
    <3>3. e - t.brk_end \in Nat /\ t.brk_end + (e - t.brk_end) <= PAGE_SIZE * KERNEL_PAGE
      BY <1>1, <1>3, <1>4, <1>6, <2>2
    <3> HIDE DEF x, u
    <3>4. Fills(mem, x, s, Interval(t.brk_end, e - t.brk_end))
      BY <1>2, <1>4, <3>1, <3>3, MapInterval
    <3>5. ~ x.panic => HeapSound(x, s, u)
      BY <1>1, <1>2, <1>3, <2>2, <3>2, <3>4, HeapGrows DEF e, Fills
    <3> QED BY <3>4, <3>5 DEF Fills
  <2>3. CASE ~ shrinks /\ ~ grows
    <3>1. x = mem BY <2>3
    <3>2. u.brk_start = t.brk_start /\ u.brk = new_brk /\ u.brk_end = t.brk_end
      BY <1>2, <2>3 DEF Tasks
    <3>3. new_brk <= t.brk_end BY <1>3, <1>4, <2>3
    <3> HIDE DEF x, u
    <3>4. HeapSound(mem, s, u) BY <1>1, <1>2, <3>2, <3>3 DEF HeapSound
    <3> QED BY <1>2, <3>1, <3>4
  <2> QED BY <2>1, <2>2, <2>3
<1> HIDE DEF x, u
<1> QED BY <1>1, <1>5, <1>7, OneProcess

LEMMA MmapKeeps ==
  ASSUME MemoryInv, NEW s \in Slots, NEW addr \in {0} \union MmapAddresses, NEW len \in Lengths,
         sys_mmap2(s, addr, len)
  PROVE  MemoryInv'
<1> DEFINE t == proc[s]
           size == RoundedUp(len)
           at == IF addr = 0 THEN t.mmap_next ELSE addr
           fits == MMAP_START <= at /\ at + size <= MMAP_LIMIT
           u == IF addr = 0 THEN [t EXCEPT !.mmap_next = @ + size] ELSE t
           x == IF fits THEN page_dict_map_interval(mem, s, at, size) ELSE mem
<1>1. ~ mem.panic /\ t.alive /\ mem' = x BY DEF sys_mmap2
<1>2. mem \in SoundMemories /\ t \in Tasks /\ HeapSound(mem, s, t) BY <1>1 DEF MemoryInv
<1>3. proc' = [proc EXCEPT ![s] = u]
  <2>1. CASE addr = 0
    <3>1. proc' = [proc EXCEPT ![s].mmap_next = @ + size] BY <2>1 DEF sys_mmap2
    <3> QED BY <2>1, <3>1
  <2>2. CASE addr # 0
    <3>1. proc' = proc BY <2>2 DEF sys_mmap2
    <3>2. [proc EXCEPT ![s] = proc[s]] = proc BY DEF MemoryInv
    <3> QED BY <2>2, <3>1, <3>2
  <2> QED BY <2>1, <2>2
<1>4. size \in Nat /\ addr \in Nat
  <2>1. len \in Nat /\ addr \in Nat BY MemoryAssumption DEF ProgramAssumption
  <2> QED BY <2>1, Rounding
<1>5. at \in Nat BY <1>2, <1>4 DEF Tasks
<1> HIDE DEF t, size, at
<1>6. u \in Tasks /\ u.alive /\ HeapSound(mem, s, u)
  <2>1. CASE addr = 0
    <3>1. u = [t EXCEPT !.mmap_next = t.mmap_next + size] BY <2>1
    <3>2. t.mmap_next + size \in Nat BY <1>2, <1>4 DEF Tasks
    <3>3. u \in Tasks /\ u.alive /\ u.brk_start = t.brk_start /\ u.brk = t.brk
          /\ u.brk_end = t.brk_end
      BY <1>1, <1>2, <3>1, <3>2 DEF Tasks
    <3> QED BY <1>2, <3>3 DEF HeapSound
  <2>2. CASE addr # 0 BY <1>1, <1>2, <2>2
  <2> QED BY <2>1, <2>2
<1> HIDE DEF u
<1>7. /\ x \in SoundMemories
      /\ \A r \in Spaces : r # s => x.space[r] = mem.space[r]
      /\ ~ x.panic => HeapSound(x, s, u)
  <2>1. CASE fits
    <3>1. x = page_dict_map_interval(mem, s, at, size) BY <2>1
    <3>2. at + size <= PAGE_SIZE * KERNEL_PAGE /\ HEAP_LIMIT <= at
      BY <1>4, <1>5, <2>1, Limits, Sizes, MemoryAssumption, SMTT(30)
    <3> HIDE DEF x
    <3>3. Fills(mem, x, s, Interval(at, size)) BY <1>2, <1>4, <1>5, <3>1, <3>2, MapInterval
    <3>4. ASSUME ~ x.panic PROVE HeapSound(x, s, u)
      <4>1. ASSUME NEW p \in Pages, PAGE_SIZE * p < HEAP_LIMIT PROVE p \notin Interval(at, size)
        <5>1. p \in Nat /\ PAGE_SIZE * p \in Nat BY PagesAreNumbers, Sizes
        <5>2. SUFFICES ASSUME p \in Interval(at, size) PROVE FALSE OBVIOUS
        <5>3. at < PAGE_SIZE * p + PAGE_SIZE BY <1>4, <1>5, <5>1, <5>2, InInterval
        <5>4. HEAP_LIMIT < PAGE_SIZE * p + PAGE_SIZE BY <1>5, <3>2, <5>1, <5>3, Sizes
        <5>5. HEAP_LIMIT <= PAGE_SIZE * p BY <5>1, <5>4, Limits
        <5> QED BY <4>1, <5>1, <5>5, Sizes
      <4>2. \A p \in Pages : PAGE_SIZE * p < HEAP_LIMIT =>
              (At(x, s, p) = NONE <=> At(mem, s, p) = NONE)
        BY <3>3, <3>4, <4>1 DEF Fills
      <4> QED BY <1>6, <4>2, HeapKept
    <3> QED BY <3>3, <3>4 DEF Fills
  <2>2. CASE ~ fits BY <1>2, <1>6, <2>2
  <2> QED BY <2>1, <2>2
<1> HIDE DEF x
<1> QED BY <1>1, <1>3, <1>6, <1>7, OneProcess

LEMMA MunmapKeeps ==
  ASSUME MemoryInv, NEW s \in Slots, NEW addr \in {0} \union MmapAddresses, NEW len \in Lengths,
         Unmappable(addr, len), sys_munmap(s, addr, len)
  PROVE  MemoryInv'
<1> DEFINE u == proc[s]
           size == RoundedUp(len)
           x == page_dict_unmap_interval(mem, s, addr, size)
<1>1. ~ mem.panic /\ u.alive /\ mem' = x /\ proc' = proc BY DEF sys_munmap
<1>2. mem \in SoundMemories /\ u \in Tasks /\ HeapSound(mem, s, u) BY <1>1 DEF MemoryInv
<1>3. proc' = [proc EXCEPT ![s] = u] BY <1>1 DEF MemoryInv
<1>4. size \in Nat /\ addr \in Nat
  <2>1. len \in Nat /\ addr \in Nat BY MemoryAssumption DEF ProgramAssumption
  <2> QED BY <2>1, Rounding
<1>5. MMAP_START <= addr /\ addr + size <= STACK_TOP BY DEF Unmappable
<1>6. addr + size <= PAGE_SIZE * KERNEL_PAGE /\ HEAP_LIMIT <= addr
  <2> HIDE DEF size
  <2> QED BY <1>4, <1>5, Limits, Sizes, MemoryAssumption
<1> HIDE DEF u, size, x
<1>7. /\ x \in SoundMemories
      /\ \A t \in Spaces : t # s => x.space[t] = mem.space[t]
      /\ ~ x.panic => \A q \in Pages :
           At(x, s, q) # NONE <=> At(mem, s, q) # NONE /\ q \notin Interval(addr, size)
  BY <1>2, <1>4, <1>6, UnmapInterval DEF x
<1>8. ASSUME ~ x.panic PROVE HeapSound(x, s, u)
  <2>1. ASSUME NEW p \in Pages, PAGE_SIZE * p < HEAP_LIMIT PROVE p \notin Interval(addr, size)
    <3>1. p \in Nat /\ PAGE_SIZE * p \in Nat BY PagesAreNumbers, Sizes
    <3>2. SUFFICES ASSUME p \in Interval(addr, size) PROVE FALSE OBVIOUS
    <3>3. addr < PAGE_SIZE * p + PAGE_SIZE BY <1>4, <3>1, <3>2, InInterval
    <3>4. HEAP_LIMIT < PAGE_SIZE * p + PAGE_SIZE BY <1>4, <1>6, <3>1, <3>3, Sizes
    <3>5. HEAP_LIMIT <= PAGE_SIZE * p BY <3>1, <3>4, Limits
    <3> QED BY <2>1, <3>1, <3>5, Sizes
  <2>2. \A p \in Pages : PAGE_SIZE * p < HEAP_LIMIT =>
          (At(x, s, p) = NONE <=> At(mem, s, p) = NONE)
    BY <1>7, <1>8, <2>1
  <2> QED BY <1>2, <2>2, HeapKept
<1> QED BY <1>1, <1>2, <1>3, <1>7, <1>8, OneProcess, ZenonT(60)

LEMMA SpecialKeeps ==
  ASSUME MemoryInv, NEW f \in KernelFrames, vmm_map_special(f)
  PROVE  MemoryInv'
<1> DEFINE x == [page_dict_map_page_to_phys(mem, KERNEL, mem.mmio_next, f)
                   EXCEPT !.mmio_next = @ + 1]
<1>1. ~ mem.panic /\ mem.mmio_next < MMIO_PAGE + MMIO_PAGES /\ mem' = x /\ proc' = proc
  BY DEF vmm_map_special
<1>2. mem \in SoundMemories BY DEF MemoryInv
<1>3. /\ x \in SoundMemories /\ x.panic = mem.panic
      /\ \A t \in Spaces : t # KERNEL => x.space[t] = mem.space[t]
  BY <1>1, <1>2, MapSpecial
<1> HIDE DEF x
<1>4. \A s \in Slots : s # KERNEL /\ s \in Spaces BY MemoryAssumption DEF Spaces
<1>5. \A s \in Slots, p \in Pages : At(x, s, p) = At(mem, s, p) BY <1>3, <1>4 DEF At
<1>6. \A s \in Slots : proc[s].alive => HeapSound(x, s, proc[s])
  <2> SUFFICES ASSUME NEW s \in Slots, proc[s].alive PROVE HeapSound(x, s, proc[s])
    OBVIOUS
  <2>1. proc[s] \in Tasks /\ HeapSound(mem, s, proc[s]) BY <1>1 DEF MemoryInv
  <2> QED BY <1>5, <2>1, HeapKept
<1> QED BY <1>1, <1>3, <1>5, <1>6 DEF MemoryInv

\* Every step of the kernel and of its programs keeps the invariant.
THEOREM MemoryIsSound == Spec => []MemoryInv
<1>1. Init => MemoryInv BY InitInv
<1>2. MemoryInv /\ [Next]_vars => MemoryInv'
  <2> SUFFICES ASSUME MemoryInv, [Next]_vars PROVE MemoryInv' OBVIOUS
  <2>1. CASE \E s \in Slots, image \in Images, total \in StackSizes :
               task_create_user_process_from_elf(s, image, total)
    BY <2>1, ExecKeeps
  <2>2. CASE \E s \in Slots : Exit(s) BY <2>2, ExitKeeps
  <2>3. CASE \E s \in Slots, a \in BrkAddresses : sys_brk(s, a) BY <2>3, BrkKeeps
  <2>4. CASE \E s \in Slots, a \in {0} \union MmapAddresses, len \in Lengths : sys_mmap2(s, a, len)
    BY <2>4, MmapKeeps
  <2>5. CASE \E s \in Slots, a \in {0} \union MmapAddresses, len \in Lengths :
               Unmappable(a, len) /\ sys_munmap(s, a, len)
    BY <2>5, MunmapKeeps
  <2>6. CASE \E f \in KernelFrames : vmm_map_special(f) BY <2>6, SpecialKeeps
  <2>7. CASE UNCHANGED vars
    <3>1. mem' = mem /\ proc' = proc BY <2>7 DEF vars
    <3> QED BY <3>1 DEF MemoryInv
  <2> QED BY <2>1, <2>2, <2>3, <2>4, <2>5, <2>6, <2>7 DEF Next
<1> QED BY <1>1, <1>2, PTL DEF Spec

\* A counter is the number of entries that hold its frame and of those that were
\* written over; user frames have one entry, and the kernel's pages are the
\* kernel's everywhere (pmm.c, paging.c, vmm.c).
THEOREM FramesAreSound == Spec => []FramesSound
<1>1. MemoryInv => FramesSound
  <2> SUFFICES ASSUME MemoryInv PROVE FramesSound OBVIOUS
  <2>1. mem \in Memories /\ Counted(mem) /\ Separate(mem) BY DEF MemoryInv, SoundMemories
  <2>2. \A f : Entries(f) = Cardinality(Holders(mem, f)) BY DEF Entries, Holders, At
  <2>3. FramesCounted BY <2>1, <2>2 DEF Counted, FramesCounted
  <2>4. ASSUME NEW s \in Slots, NEW p \in Pages, p < KERNEL_PAGE, At(mem, s, p) \in Ram
        PROVE  Entries(At(mem, s, p)) = 1
    <3> DEFINE f == At(mem, s, p)
    <3>1. <<s, p>> \in Holders(mem, f) BY DEF Holders, Spaces
    <3>2. \A e \in Holders(mem, f) : e = <<s, p>> BY <2>1, <2>4, <3>1 DEF Separate
    <3>3. Holders(mem, f) = {<<s, p>>} BY <3>1, <3>2
    <3> QED BY <2>2, <3>3, FS_Singleton
  <2>5. \A p \in 0 .. KERNEL_PAGE - 1 : At(mem, KERNEL, p) = NONE
    <3>1. \A p \in 0 .. KERNEL_PAGE - 1 : p \in Nat /\ p < KERNEL_PAGE BY Sizes
    <3> QED BY <2>1, <3>1, PagesAreNumbers DEF Separate
  <2>6. SpacesSeparate BY <2>1, <2>4, <2>5 DEF Separate, SpacesSeparate, At
  <2> QED BY <2>3, <2>6 DEF FramesSound
<1> QED BY <1>1, MemoryIsSound, PTL

\* What brk has granted is mapped, and no page above it (sys_mem.c).
THEOREM HeapIsMapped == Spec => []HeapMapped
<1>1. MemoryInv => HeapMapped
  <2> SUFFICES ASSUME MemoryInv, NEW s \in Slots, proc[s].alive, ~ mem.panic
               PROVE  LET t == proc[s]
                      IN  /\ t.brk_start <= t.brk /\ t.brk <= t.brk_end
                          /\ t.brk_start < t.brk =>
                               Interval(t.brk_start, t.brk - t.brk_start) \subseteq Present(mem, s)
                          /\ Present(mem, s) \cap
                               (page_get_num(t.brk_end) .. HEAP_LIMIT \div PAGE_SIZE - 1) = {}
    BY DEF HeapMapped
  <2> DEFINE t == proc[s]
  <2>1. t \in Tasks /\ HeapSound(mem, s, t) BY DEF MemoryInv
  <2>2. /\ t.brk_start \in Nat /\ t.brk \in Nat /\ t.brk_end \in Nat /\ HEAP_LIMIT \in Nat
        /\ PAGE_SIZE \in Nat /\ PAGE_SIZE > 0
        /\ t.brk_start <= t.brk /\ t.brk <= t.brk_end /\ t.brk_end <= HEAP_LIMIT
    BY <2>1, Sizes DEF Tasks, HeapSound
  <2> HIDE DEF t
  <2>3. ASSUME t.brk_start < t.brk, NEW p \in Interval(t.brk_start, t.brk - t.brk_start)
        PROVE  p \in Present(mem, s)
    <3>1. t.brk - t.brk_start \in Nat BY <2>2, <2>3
    <3>2. p \in Nat BY <2>2, <3>1, IntervalBounds
    <3>3. /\ PAGE_SIZE * p \in Nat /\ t.brk_start < PAGE_SIZE * p + PAGE_SIZE
          /\ PAGE_SIZE * p < t.brk_start + (t.brk - t.brk_start)
      BY <2>2, <2>3, <3>1, <3>2, InInterval
    <3>4. PAGE_SIZE * p < t.brk_end /\ t.brk_start < t.brk_end BY <2>2, <2>3, <3>3
    <3>5. p \in Pages
      <4>1. PAGE_SIZE * p < PAGE_SIZE * KERNEL_PAGE BY <2>2, <3>3, <3>4, Limits
      <4>2. p < KERNEL_PAGE BY <3>2, <4>1, Less, Sizes
      <4> QED BY <3>2, <4>2, PagesAreNumbers
    <3>6. At(mem, s, p) # NONE BY <2>1, <3>3, <3>4, <3>5 DEF HeapSound
    <3> QED BY <3>5, <3>6 DEF Present, At
  <2>4. ASSUME NEW p \in Present(mem, s),
               p \in page_get_num(t.brk_end) .. HEAP_LIMIT \div PAGE_SIZE - 1
        PROVE  FALSE
    <3> DEFINE k == page_get_num(t.brk_end)
               h == HEAP_LIMIT \div PAGE_SIZE
    <3>1. k \in Nat /\ t.brk_end <= PAGE_SIZE * k BY <2>2, Rounding
    <3>2. h \in Nat /\ HEAP_LIMIT = PAGE_SIZE * h + (HEAP_LIMIT % PAGE_SIZE)
          /\ HEAP_LIMIT % PAGE_SIZE \in 0 .. PAGE_SIZE - 1
      BY <2>2, DivMod
    <3>3. p \in k .. h - 1 BY <2>4
    <3> HIDE DEF k, h
    <3>4. p \in Nat /\ k <= p /\ p < h BY <3>1, <3>2, <3>3
    <3>5. PAGE_SIZE * k <= PAGE_SIZE * p /\ PAGE_SIZE * p < PAGE_SIZE * h
          /\ PAGE_SIZE * p \in Nat /\ PAGE_SIZE * k \in Nat /\ PAGE_SIZE * h \in Nat
      BY <3>1, <3>2, <3>4, Less, Quotient
    <3>6. t.brk_end <= PAGE_SIZE * p /\ PAGE_SIZE * p < HEAP_LIMIT
      BY <2>2, <3>1, <3>2, <3>5
    <3>7. p \in Pages /\ At(mem, s, p) # NONE BY DEF Present, At
    <3> QED BY <2>1, <3>6, <3>7 DEF HeapSound
  <2> QED BY <2>2, <2>3, <2>4 DEF t
<1> QED BY <1>1, MemoryIsSound, PTL
=============================================================================
