---------------------------- MODULE ContainerProofs ----------------------------
(***************************************************************************)
(* Theorems about the containers of lib/: the growing array, for any       *)
(* elements and any number of them.                                        *)
(***************************************************************************)
EXTENDS DynamicArray, FiniteSetTheorems, SequenceTheorems, WellFoundedInduction, TLAPS

---------------------------------------------------------------------------
(* Numbers, steps that are repeated, and powers of two.                    *)

LEMMA LeastNat ==
  ASSUME NEW S \in SUBSET Nat, S # {}
  PROVE  \E n \in S : \A m \in S : n <= m
<1> DEFINE R == OpToRel(<, Nat)
<1>1. \A m, n \in Nat : m < n => <<m, n>> \in R BY DEF OpToRel
<1>2. IsWellFoundedOn(R, Nat) BY NatLessThanWellFounded
<1> HIDE DEF R
<1>3. PICK n \in S : \A m \in S : ~ (<<m, n>> \in R) BY <1>2, WFMin
<1>4. ASSUME NEW m \in S PROVE n <= m
  <2>1. m \in Nat /\ n \in Nat OBVIOUS
  <2>2. ~ (m < n) BY <1>1, <1>3, <2>1
  <2> QED BY <2>1, <2>2
<1> QED BY <1>4

LEMMA Upwards ==
  ASSUME NEW n \in Nat, NEW S, 0 \in S, \A i \in 1 .. n : i - 1 \in S => i \in S
  PROVE  \A i \in 0 .. n : i \in S
<1> DEFINE B == {i \in 0 .. n : i \notin S}
<1> SUFFICES ASSUME B # {} PROVE FALSE OBVIOUS
<1>1. PICK i \in B : \A j \in B : i <= j
  <2>1. B \in SUBSET Nat OBVIOUS
  <2> HIDE DEF B
  <2> QED BY <2>1, LeastNat
<1>2. i \in 1 .. n /\ i - 1 \in 0 .. n OBVIOUS
<1>3. i - 1 \in S BY <1>1, <1>2
<1> QED BY <1>2, <1>3

\* f repeats a step, from x on.
Repeats(f, x, G, n) == f[0] = x /\ \A i \in 1 .. n : f[i] = G[f[i - 1]]

\* A step that stays in a set can be repeated.
LEMMA Iterates ==
  ASSUME NEW n \in Nat, NEW S, NEW x \in S, NEW G \in [S -> S]
  PROVE  \E f \in [0 .. n -> S] : Repeats(f, x, G, n)
<1> DEFINE Long == {k \in 0 .. n : \E f \in [0 .. k -> S] : Repeats(f, x, G, k)}
<1>1. 0 \in Long
  <2> DEFINE f == [i \in 0 .. 0 |-> x]
  <2>1. f \in [0 .. 0 -> S] /\ Repeats(f, x, G, 0) BY DEF Repeats
  <2>2. 0 \in 0 .. n OBVIOUS
  <2> HIDE DEF f
  <2> QED BY <2>1, <2>2
<1>2. ASSUME NEW k \in 1 .. n, k - 1 \in Long PROVE k \in Long
  <2>1. PICK f \in [0 .. k - 1 -> S] : Repeats(f, x, G, k - 1) BY <1>2
  <2> DEFINE g == [i \in 0 .. k |-> IF i = k THEN G[f[k - 1]] ELSE f[i]]
  <2>2. G[f[k - 1]] \in S OBVIOUS
  <2>3. g \in [0 .. k -> S] BY <2>2
  <2>4. g[0] = x BY <2>1 DEF Repeats
  <2>5. ASSUME NEW i \in 1 .. k PROVE g[i] = G[g[i - 1]]
    <3>1. CASE i = k
      <4>1. k \in 0 .. k /\ k - 1 \in 0 .. k /\ k - 1 # k OBVIOUS
      <4>2. g[k] = G[f[k - 1]] /\ g[k - 1] = f[k - 1] BY <4>1
      <4> QED BY <3>1, <4>2
    <3>2. CASE i # k
      <4>1. i \in 1 .. k - 1 /\ i \in 0 .. k /\ i - 1 \in 0 .. k /\ i - 1 # k BY <3>2
      <4>2. f[i] = G[f[i - 1]] BY <4>1, <2>1 DEF Repeats
      <4> QED BY <3>2, <4>1, <4>2
    <3> QED BY <3>1, <3>2
  <2> HIDE DEF g
  <2>6. Repeats(g, x, G, k) BY <2>4, <2>5 DEF Repeats
  <2> QED BY <2>3, <2>6
<1> HIDE DEF Long
<1>3. n \in Long BY <1>1, <1>2, Upwards
<1> QED BY <1>3 DEF Long

Doubles(f, n) == f \in [0 .. n -> Nat] /\ f[0] = 1 /\ \A i \in 1 .. n : f[i] = 2 * f[i - 1]

LEMMA BitDoubles ==
  ASSUME NEW n \in Nat
  PROVE  \E f : Doubles(f, n) /\ bit(n) = f[n]
<1> DEFINE G == [m \in Nat |-> 2 * m]
           Step(g) == [i \in 0 .. n |-> IF i = 0 THEN 1 ELSE 2 * g[i - 1]]
           shifted == CHOOSE g : g = Step(g)
<1>1. bit(n) = shifted[n] BY DEF bit
<1>2. G \in [Nat -> Nat] /\ 1 \in Nat OBVIOUS
<1>3. PICK f \in [0 .. n -> Nat] : Repeats(f, 1, G, n)
  <2> HIDE DEF G
  <2> QED BY <1>2, Iterates
<1>4. f = Step(f)
  <2>1. ASSUME NEW i \in 0 .. n PROVE f[i] = Step(f)[i]
    <3>1. CASE i = 0 BY <1>3, <3>1 DEF Repeats
    <3>2. CASE i # 0
      <4>1. i \in 1 .. n /\ i - 1 \in 0 .. n BY <3>2
      <4>2. f[i] = G[f[i - 1]] /\ f[i - 1] \in Nat BY <1>3, <4>1 DEF Repeats
      <4> QED BY <3>2, <4>2
    <3> QED BY <3>1, <3>2
  <2> QED BY <1>3, <2>1
<1>5. shifted = Step(shifted) BY <1>4
<1> HIDE DEF shifted
<1>6. shifted[0] = 1 /\ \A i \in 1 .. n : shifted[i] = 2 * shifted[i - 1]
  <2>1. \A i \in 0 .. n : shifted[i] = Step(shifted)[i] BY <1>5
  <2>2. 0 \in 0 .. n OBVIOUS
  <2>3. ASSUME NEW i \in 1 .. n PROVE shifted[i] = 2 * shifted[i - 1]
    <3>1. i \in 0 .. n /\ i # 0 OBVIOUS
    <3> QED BY <2>1, <3>1
  <2> QED BY <2>1, <2>2, <2>3
<1>7. \A i \in 0 .. n : shifted[i] \in Nat
  <2> DEFINE S == {i \in 0 .. n : shifted[i] \in Nat}
  <2>1. 0 \in S BY <1>6
  <2>2. \A i \in 1 .. n : i - 1 \in S => i \in S BY <1>6
  <2>3. \A i \in 0 .. n : i \in S
    <3> HIDE DEF S
    <3> QED BY <2>1, <2>2, Upwards
  <2> QED BY <2>3
<1>8. shifted \in [0 .. n -> Nat]
  <2>1. shifted = [i \in 0 .. n |-> shifted[i]] BY <1>5
  <2> QED BY <1>7, <2>1
<1> QED BY <1>1, <1>6, <1>8 DEF Doubles

LEMMA DoublesAgree ==
  ASSUME NEW n \in Nat, NEW m \in Nat, n <= m, NEW f, NEW g, Doubles(f, n), Doubles(g, m)
  PROVE  \A i \in 0 .. n : f[i] = g[i]
<1> DEFINE S == {i \in 0 .. n : f[i] = g[i]}
<1>1. 0 \in S BY DEF Doubles
<1>2. ASSUME NEW i \in 1 .. n, i - 1 \in S PROVE i \in S
  <2>1. i \in 0 .. n /\ i \in 1 .. m OBVIOUS
  <2>2. f[i] = 2 * f[i - 1] /\ g[i] = 2 * g[i - 1] BY <2>1 DEF Doubles
  <2> QED BY <1>2, <2>1, <2>2
<1>3. \A i \in 1 .. n : i - 1 \in S => i \in S BY <1>2
<1>4. \A i \in 0 .. n : i \in S
  <2> HIDE DEF S
  <2> QED BY <1>1, <1>3, Upwards
<1> QED BY <1>4

LEMMA Bits ==
  /\ bit(0) = 1
  /\ \A n \in Nat : bit(n) \in Nat /\ bit(n + 1) = 2 * bit(n)
<1>1. bit(0) = 1 BY BitDoubles DEF Doubles
<1>2. ASSUME NEW n \in Nat PROVE bit(n) \in Nat /\ bit(n + 1) = 2 * bit(n)
  <2>1. PICK f : Doubles(f, n) /\ bit(n) = f[n] BY BitDoubles
  <2>2. PICK g : Doubles(g, n + 1) /\ bit(n + 1) = g[n + 1] BY BitDoubles
  <2>3. f[n] = g[n] BY <2>1, <2>2, DoublesAgree
  <2>4. g[n + 1] = 2 * g[n] /\ f[n] \in Nat
    <3>1. n + 1 \in 1 .. n + 1 /\ n \in 0 .. n /\ n + 1 - 1 = n OBVIOUS
    <3> QED BY <2>1, <2>2, <3>1 DEF Doubles
  <2> QED BY <2>1, <2>2, <2>3, <2>4
<1> QED BY <1>1, <1>2

LEMMA BitGrows ==
  ASSUME NEW n \in Nat
  PROVE  bit(n) \in Nat /\ n < bit(n)
<1> DEFINE S == {i \in 0 .. n : i < bit(i)}
<1>1. 0 \in S BY Bits
<1>2. ASSUME NEW i \in 1 .. n, i - 1 \in S PROVE i \in S
  <2>1. i - 1 \in Nat /\ i - 1 + 1 = i OBVIOUS
  <2>2. bit(i) = 2 * bit(i - 1) /\ bit(i - 1) \in Nat BY <2>1, Bits
  <2> QED BY <1>2, <2>2
<1>3. \A i \in 1 .. n : i - 1 \in S => i \in S BY <1>2
<1>4. n \in S
  <2> HIDE DEF S
  <2> QED BY <1>1, <1>3, Upwards
<1> QED BY <1>4, Bits

LEMMA BitOrder ==
  ASSUME NEW m \in Nat, NEW n \in Nat, m < n
  PROVE  2 * bit(m) <= bit(n)
<1> DEFINE k == n - m - 1
           S == {i \in 0 .. k : 2 * bit(m) <= bit(m + 1 + i)}
<1>0. k \in Nat /\ bit(m) \in Nat /\ bit(m + 1) = 2 * bit(m) BY Bits
<1>1. 0 \in S BY <1>0
<1>2. ASSUME NEW i \in 1 .. k, i - 1 \in S PROVE i \in S
  <2>1. m + i \in Nat /\ m + 1 + (i - 1) = m + i /\ m + 1 + i = m + i + 1 OBVIOUS
  <2>2. bit(m + i + 1) = 2 * bit(m + i) /\ bit(m + i) \in Nat BY <2>1, Bits
  <2>3. 2 * bit(m) <= bit(m + i) BY <1>2, <2>1
  <2> QED BY <1>0, <2>1, <2>2, <2>3
<1>3. \A i \in 1 .. k : i - 1 \in S => i \in S BY <1>2
<1>4. k \in S
  <2> HIDE DEF S, k
  <2> QED BY <1>0, <1>1, <1>3, Upwards
<1>5. m + 1 + k = n OBVIOUS
<1> QED BY <1>4, <1>5

\* A shrink takes the array to a quarter.
LEMMA NewSizeIs ==
  ASSUME NEW k \in Nat, NEW count \in Nat \ {0}, 4 * count < bit(k), 4 * (count + 1) >= bit(k)
  PROVE  /\ k - 2 \in Nat /\ NewSize(count) = bit(k - 2)
         /\ bit(k) = 4 * bit(k - 2) /\ count = bit(k - 2) - 1
<1> DEFINE m == k - 2
<1>1. k >= 3
  <2>1. bit(1) = 2 /\ bit(2) = 4 /\ bit(0) = 1
    <3>1. bit(0 + 1) = 2 * bit(0) /\ bit(1 + 1) = 2 * bit(1) /\ bit(0) = 1 BY Bits
    <3>2. 0 + 1 = 1 /\ 1 + 1 = 2 OBVIOUS
    <3> QED BY <3>1, <3>2
  <2>2. k # 0 /\ k # 1 /\ k # 2 BY <2>1
  <2> QED BY <2>2
<1>2. /\ m \in Nat /\ m >= 1 /\ m - 1 \in Nat /\ bit(m) \in Nat /\ bit(m - 1) \in Nat
      /\ bit(k) = 4 * bit(m) /\ bit(m) = 2 * bit(m - 1) /\ m < bit(m)
  <2>1. m \in Nat /\ m >= 1 /\ m - 1 \in Nat /\ m + 1 \in Nat BY <1>1
  <2>2. bit(m + 1) = 2 * bit(m) /\ bit(m + 1 + 1) = 2 * bit(m + 1) /\ bit(m - 1 + 1) = 2 * bit(m - 1)
    BY <2>1, Bits
  <2>3. m + 1 + 1 = k /\ m - 1 + 1 = m BY <1>1
  <2>4. bit(m) \in Nat /\ bit(m - 1) \in Nat /\ m < bit(m) BY <2>1, BitGrows
  <2> QED BY <2>1, <2>2, <2>3, <2>4
<1> HIDE DEF m
<1>3. count = bit(m) - 1 BY <1>2
<1>4. NewSize(count) = bit(m)
  <2>1. CASE count = 1
    <3>1. bit(m) = 2 BY <1>2, <1>3, <2>1
    <3> QED BY <2>1, <3>1 DEF NewSize
  <2>2. CASE count # 1
    <3> DEFINE Fits(n) == bit(n - 1) < count /\ count <= bit(n)
    <3>1. m \in 1 .. count /\ Fits(m) BY <1>2, <1>3, <2>2
    <3>2. ASSUME NEW n \in 1 .. count, Fits(n) PROVE n = m
      <4>1. n \in Nat /\ n - 1 \in Nat /\ bit(n) \in Nat /\ bit(n - 1) \in Nat BY Bits
      <4>2. CASE n < m
        <5>1. 2 * bit(n) <= bit(m) BY <1>2, <4>1, <4>2, BitOrder
        <5> QED BY <1>2, <1>3, <2>2, <3>2, <4>1, <5>1
      <4>3. CASE n > m
        <5>1. m = n - 1 \/ m < n - 1 BY <1>2, <4>1, <4>3
        <5>2. m < n - 1 => 2 * bit(m) <= bit(n - 1) BY <1>2, <4>1, BitOrder
        <5> QED BY <1>2, <1>3, <3>2, <4>1, <5>1, <5>2
      <4> QED BY <1>2, <4>1, <4>2, <4>3
    <3> HIDE DEF Fits
    <3>3. (CHOOSE n \in 1 .. count : Fits(n)) = m BY <3>1, <3>2
    <3> QED BY <2>2, <3>3 DEF NewSize, Fits
  <2> QED BY <2>1, <2>2
<1> QED BY <1>2, <1>3, <1>4 DEF m

LEMMA WrapIs ==
  ASSUME NEW n \in Nat \ {0}, NEW i \in Int, -1 <= i, i <= 2 * n
  PROVE  /\ Wrap(i, n) = IF i < 0 THEN i + n ELSE IF i < n THEN i ELSE IF i < 2 * n THEN i - n ELSE 0
         /\ Wrap(i, n) \in Cells(n)
<1>1. Wrap(i, n) = IF i < 0 THEN i + n ELSE IF i < n THEN i ELSE IF i < 2 * n THEN i - n ELSE 0
  <2>1. i % n \in Int /\ 0 <= i % n /\ i % n < n /\ i = n * (i \div n) + (i % n) /\ i \div n \in Int
    OBVIOUS
  <2> DEFINE q == i \div n
             r == i % n
  <2>2. q \in Int /\ r \in Int /\ 0 <= r /\ r < n /\ i = n * q + r BY <2>1
  <2> HIDE DEF q, r
  <2>3. q \in {-1, 0, 1, 2}
    <3>1. CASE q > 2
      <4>1. n * q >= 3 * n BY <2>2, <3>1, SMT
      <4>2. n * q \in Int BY <2>2
      <4> QED BY <2>2, <4>1, <4>2
    <3>2. CASE q < -1
      <4>1. n * q <= - (2 * n) BY <2>2, <3>2, SMT
      <4>2. n * q \in Int BY <2>2
      <4> QED BY <2>2, <4>1, <4>2
    <3> QED BY <2>2, <3>1, <3>2
  <2>4. r = IF i < 0 THEN i + n ELSE IF i < n THEN i ELSE IF i < 2 * n THEN i - n ELSE 0
    BY <2>2, <2>3
  <2> QED BY <2>4 DEF Wrap, r
<1> QED BY <1>1 DEF Cells

LEMMA WrapTwice ==
  ASSUME NEW n \in Nat \ {0}, NEW x \in Int, NEW i \in Int,
         -1 <= x, x <= 2 * n, -1 <= i, i <= n, -1 <= x + i, x + i <= 2 * n
  PROVE  Wrap(Wrap(x, n) + i, n) = Wrap(x + i, n)
<1> DEFINE y == Wrap(x, n)
<1>0. n \in Nat \ {0} OBVIOUS
<1>1. y = IF x < 0 THEN x + n ELSE IF x < n THEN x ELSE IF x < 2 * n THEN x - n ELSE 0 BY WrapIs
<1>2. y \in Int /\ 0 <= y /\ y < n BY WrapIs DEF Cells
<1>3. y + i \in Int /\ -1 <= y + i /\ y + i <= 2 * n /\ x + i \in Int BY <1>2
<1> HIDE DEF y
<1>4. Wrap(y + i, n) = IF y + i < 0 THEN y + i + n ELSE IF y + i < n THEN y + i
                       ELSE IF y + i < 2 * n THEN y + i - n ELSE 0
  BY <1>2, <1>3, <1>0, WrapIs
<1>5. Wrap(x + i, n) = IF x + i < 0 THEN x + i + n ELSE IF x + i < n THEN x + i
                       ELSE IF x + i < 2 * n THEN x + i - n ELSE 0
  BY <1>3, WrapIs
<1>6. Wrap(y + i, n) = Wrap(x + i, n) BY <1>1, <1>2, <1>4, <1>5
<1> QED BY <1>6 DEF y

LEMMA WrapApart ==
  ASSUME NEW n \in Nat \ {0}, NEW x \in Cells(n), NEW i \in 0 .. n, NEW j \in 0 .. n, i < j, j - i < n
  PROVE  Wrap(x + i, n) # Wrap(x + j, n)
<1>1. x \in Int /\ 0 <= x /\ x < n BY DEF Cells
<1>2. Wrap(x + i, n) = IF x + i < n THEN x + i ELSE IF x + i < 2 * n THEN x + i - n ELSE 0 BY <1>1, WrapIs
<1>3. Wrap(x + j, n) = IF x + j < n THEN x + j ELSE IF x + j < 2 * n THEN x + j - n ELSE 0 BY <1>1, WrapIs
<1> QED BY <1>1, <1>2, <1>3

---------------------------------------------------------------------------
(* The array as a ring that holds a sequence.                              *)

Values == Elements \union {JUNK}
Buffers == UNION {[Cells(n) -> Values] : n \in Nat}
Arrays == [size : Nat, start : Int, end : Int, elements_count : Nat, buffer : Buffers]

Ring(a) ==
  /\ a \in Arrays /\ a.size > 0 /\ a.buffer \in [Cells(a.size) -> Values]
  /\ a.start \in Cells(a.size) /\ a.elements_count <= a.size
  /\ a.end = Wrap(a.start + a.elements_count + 1, a.size)

\* Of an array that may be full.
Laid(a, s) ==
  /\ Ring(a) /\ s \in Seq(Elements) /\ Len(s) = a.elements_count
  /\ \A i \in 1 .. Len(s) : a.buffer[Wrap(a.start + i, a.size)] = s[i]

\* Between the calls: it has room, and would shrink with one element less.
Roomy(a) ==
  /\ a.elements_count < a.size /\ (a.size = 1 \/ 4 * a.elements_count >= a.size)
  /\ \E k \in Nat : a.size = bit(k)

LEMMA BufferIn ==
  ASSUME NEW n \in Nat, NEW f \in [Cells(n) -> Values]
  PROVE  f \in Buffers
BY DEF Buffers

\* An array by its fields.
LEMMA LaidIf ==
  ASSUME NEW a, NEW n \in Nat \ {0}, NEW start \in Cells(n), NEW end, NEW count \in 0 .. n,
         NEW buffer \in [Cells(n) -> Values], NEW s \in Seq(Elements), Len(s) = count,
         a = [size |-> n, start |-> start, end |-> end, elements_count |-> count, buffer |-> buffer],
         end = Wrap(start + count + 1, n),
         \A i \in 1 .. count : buffer[Wrap(start + i, n)] = s[i]
  PROVE  Laid(a, s)
<1>1. start \in Int /\ 0 <= start /\ start < n /\ count \in Nat BY DEF Cells
<1>2. end \in Int BY <1>1, WrapIs DEF Cells
<1>3. buffer \in Buffers BY BufferIn
<1>4. a \in Arrays BY <1>1, <1>2, <1>3 DEF Arrays
<1>5. /\ a.size = n /\ a.start = start /\ a.end = end /\ a.elements_count = count /\ a.buffer = buffer
  OBVIOUS
<1> QED BY ONLY <1>1, <1>4, <1>5, n \in Nat \ {0}, start \in Cells(n), count \in 0 .. n,
                buffer \in [Cells(n) -> Values], s \in Seq(Elements), Len(s) = count,
                end = Wrap(start + count + 1, n),
                \A i \in 1 .. count : buffer[Wrap(start + i, n)] = s[i] DEF Laid, Ring

LEMMA LaidGives ==
  ASSUME NEW a, NEW s, Laid(a, s)
  PROVE  /\ a = [size |-> a.size, start |-> a.start, end |-> a.end,
                 elements_count |-> a.elements_count, buffer |-> a.buffer]
         /\ a.size \in Nat \ {0} /\ a.start \in Int /\ 0 <= a.start /\ a.start < a.size
         /\ a.start \in Cells(a.size)
         /\ a.elements_count \in 0 .. a.size /\ a.elements_count \in Nat
         /\ a.buffer \in [Cells(a.size) -> Values]
         /\ s \in Seq(Elements) /\ Len(s) = a.elements_count
         /\ a.end = Wrap(a.start + a.elements_count + 1, a.size) /\ a.end \in Cells(a.size)
         /\ \A i \in 1 .. a.elements_count : a.buffer[Wrap(a.start + i, a.size)] = s[i]
<1>1. a = [size |-> a.size, start |-> a.start, end |-> a.end,
           elements_count |-> a.elements_count, buffer |-> a.buffer]
  BY DEF Laid, Ring, Arrays
<1>2. /\ a.size \in Nat \ {0} /\ a.start \in Int /\ 0 <= a.start /\ a.start < a.size
      /\ a.elements_count \in Nat /\ a.elements_count <= a.size
  BY DEF Laid, Ring, Arrays, Cells
<1>3. a.end \in Cells(a.size)
  <2>1. a.start + a.elements_count + 1 <= 2 * a.size /\ -1 <= a.start + a.elements_count + 1
    BY <1>2
  <2> QED BY <1>2, <2>1, WrapIs DEF Laid, Ring
<1> QED BY <1>1, <1>2, <1>3 DEF Laid, Ring

LEMMA TidyLaid ==
  ASSUME NEW a, NEW s, Laid(a, s)
  PROVE  Laid(Tidy(a), s) /\ Tidy(a).size = a.size /\ Tidy(a).elements_count = a.elements_count
<1> DEFINE live == {Wrap(a.start + i, a.size) : i \in 1 .. a.elements_count}
           buffer == [c \in Cells(a.size) |-> IF c \in live THEN a.buffer[c] ELSE JUNK]
           b == Tidy(a)
<1>1. /\ a = [size |-> a.size, start |-> a.start, end |-> a.end,
              elements_count |-> a.elements_count, buffer |-> a.buffer]
      /\ a.size \in Nat \ {0} /\ a.start \in Int /\ 0 <= a.start /\ a.start < a.size
      /\ a.start \in Cells(a.size)
      /\ a.elements_count \in 0 .. a.size /\ a.elements_count \in Nat
      /\ a.buffer \in [Cells(a.size) -> Values]
      /\ s \in Seq(Elements) /\ Len(s) = a.elements_count
      /\ a.end = Wrap(a.start + a.elements_count + 1, a.size) /\ a.end \in Cells(a.size)
      /\ \A i \in 1 .. a.elements_count : a.buffer[Wrap(a.start + i, a.size)] = s[i]
  BY LaidGives
<1>2. b = [a EXCEPT !.buffer = buffer] BY DEF Tidy
<1>3. buffer \in [Cells(a.size) -> Values] BY <1>1 DEF Values
<1>4. ASSUME NEW i \in 1 .. a.elements_count PROVE buffer[Wrap(a.start + i, a.size)] = s[i]
  <2>1. Wrap(a.start + i, a.size) \in live OBVIOUS
  <2>2. Wrap(a.start + i, a.size) \in Cells(a.size) BY <1>1, WrapIs
  <2> HIDE DEF live
  <2> QED BY <1>1, <2>1, <2>2
<1> HIDE DEF buffer, b
<1>5. b = [size |-> a.size, start |-> a.start, end |-> a.end,
           elements_count |-> a.elements_count, buffer |-> buffer]
  BY <1>1, <1>2
<1>6. Laid(b, s) BY ONLY <1>1, <1>3, <1>4, <1>5, LaidIf
<1> QED BY <1>5, <1>6 DEF b

LEMMA PushedBack ==
  ASSUME NEW a, NEW s, Laid(a, s), a.elements_count < a.size, NEW e \in Elements
  PROVE  LET b == [a EXCEPT !.buffer[a.end] = e, !.elements_count = @ + 1, !.end = Wrap(@ + 1, a.size)]
         IN  Laid(b, Append(s, e)) /\ b.size = a.size
<1> DEFINE n == a.size
           count == a.elements_count
           buffer == [a.buffer EXCEPT ![a.end] = e]
           end == Wrap(a.end + 1, n)
           more == count + 1
           t == Append(s, e)
           b == [a EXCEPT !.buffer[a.end] = e, !.elements_count = @ + 1, !.end = Wrap(@ + 1, a.size)]
<1>1. /\ a = [size |-> a.size, start |-> a.start, end |-> a.end,
              elements_count |-> a.elements_count, buffer |-> a.buffer]
      /\ a.size \in Nat \ {0} /\ a.start \in Int /\ 0 <= a.start /\ a.start < a.size
      /\ a.start \in Cells(a.size)
      /\ a.elements_count \in 0 .. a.size /\ a.elements_count \in Nat
      /\ a.buffer \in [Cells(a.size) -> Values]
      /\ s \in Seq(Elements) /\ Len(s) = a.elements_count
      /\ a.end = Wrap(a.start + a.elements_count + 1, a.size) /\ a.end \in Cells(a.size)
      /\ \A i \in 1 .. a.elements_count : a.buffer[Wrap(a.start + i, a.size)] = s[i]
  BY LaidGives
<1>2. b = [a EXCEPT !.buffer = buffer, !.elements_count = more, !.end = end] BY <1>1
<1>3. more \in 1 .. n BY <1>1
<1>4. buffer \in [Cells(n) -> Values] BY <1>1 DEF Values
<1>5. end = Wrap(a.start + more + 1, n)
  <2> DEFINE x == a.start + count + 1
  <2>1. x \in Int /\ -1 <= x /\ x <= 2 * n /\ 1 \in Int /\ -1 <= 1 /\ 1 <= n /\ -1 <= x + 1 /\ x + 1 <= 2 * n
    BY <1>1, <1>3
  <2>2. a.end = Wrap(x, n) BY <1>1
  <2>3. Wrap(Wrap(x, n) + 1, n) = Wrap(x + 1, n)
    <3>0. n \in Nat \ {0} BY <1>1
    <3> HIDE DEF x, n
    <3> QED BY <3>0, <2>1, WrapTwice
  <2>4. x + 1 = a.start + more + 1 BY <1>1
  <2> QED BY <2>2, <2>3, <2>4
<1>6. t \in Seq(Elements) /\ Len(t) = more /\ t[more] = e /\ \A i \in 1 .. count : t[i] = s[i] BY <1>1
<1>7. ASSUME NEW i \in 1 .. more PROVE buffer[Wrap(a.start + i, n)] = t[i]
  <2>1. Wrap(a.start + i, n) \in Cells(n)
    <3>1. a.start + i \in Int /\ -1 <= a.start + i /\ a.start + i <= 2 * n BY <1>1, <1>3
    <3> QED BY <1>1, <3>1, WrapIs
  <2>2. CASE i = more BY <1>1, <1>6, <2>1, <2>2
  <2>3. CASE i # more
    <3>1. i \in 1 .. count /\ i < more BY <1>1, <2>3
    <3>2. Wrap(a.start + i, n) # a.end
      <4>1. i \in 0 .. n /\ more \in 0 .. n /\ more - i < n BY <1>1, <1>3, <3>1
      <4>2. Wrap(a.start + i, n) # Wrap(a.start + more, n) BY <1>1, <3>1, <4>1, WrapApart
      <4> QED BY <1>1, <4>2
    <3>3. buffer[Wrap(a.start + i, n)] = a.buffer[Wrap(a.start + i, n)] BY <1>1, <2>1, <3>2
    <3> QED BY <1>1, <1>6, <3>1, <3>3
  <2> QED BY <2>2, <2>3
<1> HIDE DEF b, buffer, end, more, t
<1>8. b = [size |-> n, start |-> a.start, end |-> end, elements_count |-> more, buffer |-> buffer]
  BY <1>1, <1>2
<1>9. Laid(b, t)
  <2>1. more \in 0 .. n BY <1>3
  <2> QED BY ONLY <1>1, <1>4, <1>5, <1>6, <1>7, <1>8, <2>1, LaidIf
<1> QED BY <1>8, <1>9 DEF b, t

LEMMA PushedFront ==
  ASSUME NEW a, NEW s, Laid(a, s), a.elements_count < a.size, NEW e \in Elements
  PROVE  LET b == [a EXCEPT !.buffer[a.start] = e, !.elements_count = @ + 1, !.start = Wrap(@ - 1, a.size)]
         IN  Laid(b, <<e>> \o s) /\ b.size = a.size
<1> DEFINE n == a.size
           count == a.elements_count
           buffer == [a.buffer EXCEPT ![a.start] = e]
           start == Wrap(a.start - 1, n)
           more == count + 1
           t == <<e>> \o s
           b == [a EXCEPT !.buffer[a.start] = e, !.elements_count = @ + 1, !.start = Wrap(@ - 1, a.size)]
<1>1. /\ a = [size |-> a.size, start |-> a.start, end |-> a.end,
              elements_count |-> a.elements_count, buffer |-> a.buffer]
      /\ a.size \in Nat \ {0} /\ a.start \in Int /\ 0 <= a.start /\ a.start < a.size
      /\ a.start \in Cells(a.size)
      /\ a.elements_count \in 0 .. a.size /\ a.elements_count \in Nat
      /\ a.buffer \in [Cells(a.size) -> Values]
      /\ s \in Seq(Elements) /\ Len(s) = a.elements_count
      /\ a.end = Wrap(a.start + a.elements_count + 1, a.size) /\ a.end \in Cells(a.size)
      /\ \A i \in 1 .. a.elements_count : a.buffer[Wrap(a.start + i, a.size)] = s[i]
  BY LaidGives
<1>2. b = [a EXCEPT !.buffer = buffer, !.elements_count = more, !.start = start] BY <1>1
<1>3. more \in 1 .. n BY <1>1
<1>4. buffer \in [Cells(n) -> Values] BY <1>1 DEF Values
<1>5. ASSUME NEW i \in 0 .. n PROVE Wrap(start + i, n) = Wrap(a.start - 1 + i, n)
  <2>1. /\ a.start - 1 \in Int /\ -1 <= a.start - 1 /\ a.start - 1 <= 2 * n
        /\ -1 <= a.start - 1 + i /\ a.start - 1 + i <= 2 * n /\ i \in Int /\ -1 <= i /\ i <= n
    BY <1>1
  <2> QED BY <1>1, <2>1, WrapTwice
<1>6. start \in Cells(n) BY <1>1, WrapIs
<1>7. a.end = Wrap(start + more + 1, n)
  <2>1. start \in Int /\ 0 <= start /\ start < n
    <3> HIDE DEF start
    <3> QED BY <1>1, <1>6 DEF Cells
  <2>2. Wrap(start + more, n) = Wrap(a.start + count, n)
    <3>1. more \in 0 .. n /\ a.start - 1 + more = a.start + count BY <1>1, <1>3
    <3> QED BY <1>5, <3>1
  <2>3. Wrap(start + more + 1, n) = Wrap(Wrap(start + more, n) + 1, n)
    <3>1. start + more \in Int /\ -1 <= start + more /\ start + more <= 2 * n /\ start + more + 1 <= 2 * n
          /\ -1 <= start + more + 1
      BY <1>1, <1>3, <2>1
    <3> HIDE DEF start, more
    <3> QED BY <1>1, <3>1, WrapTwice
  <2>4. Wrap(a.start + count + 1, n) = Wrap(Wrap(a.start + count, n) + 1, n)
    <3>1. a.start + count \in Int /\ -1 <= a.start + count /\ a.start + count <= 2 * n
          /\ a.start + count + 1 <= 2 * n /\ -1 <= a.start + count + 1
      BY <1>1
    <3> QED BY <1>1, <3>1, WrapTwice
  <2> QED BY <1>1, <2>2, <2>3, <2>4
<1>8. t \in Seq(Elements) /\ Len(t) = more /\ t[1] = e /\ \A i \in 2 .. more : t[i] = s[i - 1] BY <1>1
<1>9. ASSUME NEW i \in 1 .. more PROVE buffer[Wrap(start + i, n)] = t[i]
  <2>1. i \in 0 .. n BY <1>1, <1>3
  <2>2. Wrap(start + i, n) = Wrap(a.start + (i - 1), n)
    <3>1. a.start - 1 + i = a.start + (i - 1) BY <1>1
    <3> QED BY <1>5, <2>1, <3>1
  <2>3. CASE i = 1
    <3>1. Wrap(a.start + 0, n) = a.start BY <1>1, WrapIs
    <3> QED BY <1>1, <1>8, <2>2, <2>3, <3>1
  <2>4. CASE i # 1
    <3>1. i - 1 \in 1 .. count /\ i \in 2 .. more BY <1>1, <2>4
    <3>2. Wrap(a.start + (i - 1), n) \in Cells(n)
      <4>1. a.start + (i - 1) \in Int /\ -1 <= a.start + (i - 1) /\ a.start + (i - 1) <= 2 * n BY <1>1, <2>1, <3>1
      <4> QED BY <1>1, <4>1, WrapIs
    <3>3. Wrap(a.start + (i - 1), n) # a.start
      <4>1. 0 \in 0 .. n /\ i - 1 \in 0 .. n /\ 0 < i - 1 /\ i - 1 - 0 < n BY <1>1, <3>1
      <4>2. Wrap(a.start + 0, n) # Wrap(a.start + (i - 1), n) BY <1>1, <4>1, WrapApart
      <4>3. Wrap(a.start + 0, n) = a.start BY <1>1, WrapIs
      <4> QED BY <4>2, <4>3
    <3>4. buffer[Wrap(a.start + (i - 1), n)] = a.buffer[Wrap(a.start + (i - 1), n)] BY <1>1, <3>2, <3>3
    <3> QED BY <1>1, <1>8, <2>2, <3>1, <3>4
  <2> QED BY <2>3, <2>4
<1> HIDE DEF b, buffer, start, more, t
<1>10. b = [size |-> n, start |-> start, end |-> a.end, elements_count |-> more, buffer |-> buffer]
  BY <1>1, <1>2
<1>11. Laid(b, t)
  <2>1. more \in 0 .. n BY <1>3
  <2> QED BY ONLY <1>1, <1>4, <1>6, <1>7, <1>8, <1>9, <1>10, <2>1, LaidIf
<1> QED BY <1>10, <1>11 DEF b, t

LEMMA PoppedBack ==
  ASSUME NEW a, NEW s, Laid(a, s), a.elements_count > 0
  PROVE  LET b == [a EXCEPT !.end = Wrap(@ - 1, a.size), !.elements_count = @ - 1]
         IN  Laid(b, Front(s)) /\ b.size = a.size /\ b.elements_count = a.elements_count - 1
<1> DEFINE n == a.size
           end == Wrap(a.end - 1, n)
           less == a.elements_count - 1
           t == Front(s)
           b == [a EXCEPT !.end = Wrap(@ - 1, a.size), !.elements_count = @ - 1]
<1>1. /\ a = [size |-> a.size, start |-> a.start, end |-> a.end,
              elements_count |-> a.elements_count, buffer |-> a.buffer]
      /\ a.size \in Nat \ {0} /\ a.start \in Int /\ 0 <= a.start /\ a.start < a.size
      /\ a.start \in Cells(a.size)
      /\ a.elements_count \in 0 .. a.size /\ a.elements_count \in Nat
      /\ a.buffer \in [Cells(a.size) -> Values]
      /\ s \in Seq(Elements) /\ Len(s) = a.elements_count
      /\ a.end = Wrap(a.start + a.elements_count + 1, a.size) /\ a.end \in Cells(a.size)
      /\ \A i \in 1 .. a.elements_count : a.buffer[Wrap(a.start + i, a.size)] = s[i]
  BY LaidGives
<1>2. b = [a EXCEPT !.elements_count = less, !.end = end] BY <1>1
<1>3. less \in 0 .. n BY <1>1
<1>4. end = Wrap(a.start + less + 1, n)
  <2> DEFINE x == a.start + a.elements_count + 1
  <2>1. x \in Int /\ -1 <= x /\ x <= 2 * n /\ -1 \in Int /\ -1 <= n /\ -1 <= x + -1 /\ x + -1 <= 2 * n
    BY <1>1
  <2>2. Wrap(Wrap(x, n) + -1, n) = Wrap(x + -1, n)
    <3>0. n \in Nat \ {0} BY <1>1
    <3> HIDE DEF x, n
    <3> QED BY <3>0, <2>1, WrapTwice
  <2>3. x + -1 = a.start + less + 1 BY <1>1
  <2>4. a.end + -1 = a.end - 1 BY <1>1 DEF Cells
  <2> QED BY <1>1, <2>2, <2>3, <2>4
<1>5. t \in Seq(Elements) /\ Len(t) = less /\ \A i \in 1 .. less : t[i] = s[i] BY <1>1 DEF Front
<1>6. \A i \in 1 .. less : a.buffer[Wrap(a.start + i, n)] = t[i] BY <1>1, <1>5
<1> HIDE DEF b, end, less, t
<1>7. b = [size |-> n, start |-> a.start, end |-> end, elements_count |-> less, buffer |-> a.buffer]
  BY <1>1, <1>2
<1>8. Laid(b, t) BY ONLY <1>1, <1>3, <1>4, <1>5, <1>6, <1>7, LaidIf
<1> QED BY <1>7, <1>8 DEF b, t, less

LEMMA PoppedFront ==
  ASSUME NEW a, NEW s, Laid(a, s), a.elements_count > 0
  PROVE  LET b == [a EXCEPT !.start = Wrap(@ + 1, a.size), !.elements_count = @ - 1]
         IN  Laid(b, Tail(s)) /\ b.size = a.size /\ b.elements_count = a.elements_count - 1
<1> DEFINE n == a.size
           start == Wrap(a.start + 1, n)
           less == a.elements_count - 1
           t == Tail(s)
           b == [a EXCEPT !.start = Wrap(@ + 1, a.size), !.elements_count = @ - 1]
<1>1. /\ a = [size |-> a.size, start |-> a.start, end |-> a.end,
              elements_count |-> a.elements_count, buffer |-> a.buffer]
      /\ a.size \in Nat \ {0} /\ a.start \in Int /\ 0 <= a.start /\ a.start < a.size
      /\ a.start \in Cells(a.size)
      /\ a.elements_count \in 0 .. a.size /\ a.elements_count \in Nat
      /\ a.buffer \in [Cells(a.size) -> Values]
      /\ s \in Seq(Elements) /\ Len(s) = a.elements_count
      /\ a.end = Wrap(a.start + a.elements_count + 1, a.size) /\ a.end \in Cells(a.size)
      /\ \A i \in 1 .. a.elements_count : a.buffer[Wrap(a.start + i, a.size)] = s[i]
  BY LaidGives
<1>2. b = [a EXCEPT !.elements_count = less, !.start = start] BY <1>1
<1>3. less \in 0 .. n BY <1>1
<1>4. ASSUME NEW i \in 0 .. n PROVE Wrap(start + i, n) = Wrap(a.start + (i + 1), n)
  <2> DEFINE x == a.start + 1
  <2>1. /\ x \in Int /\ -1 <= x /\ x <= 2 * n /\ -1 <= x + i /\ x + i <= 2 * n
        /\ i \in Int /\ -1 <= i /\ i <= n
    BY <1>1
  <2>2. Wrap(Wrap(x, n) + i, n) = Wrap(x + i, n)
    <3>0. n \in Nat \ {0} BY <1>1
    <3> HIDE DEF x, n
    <3> QED BY <3>0, <2>1, WrapTwice
  <2>3. x + i = a.start + (i + 1) BY <1>1
  <2> QED BY <2>2, <2>3
<1>5. start \in Cells(n)
  <2>1. a.start + 1 \in Int /\ -1 <= a.start + 1 /\ a.start + 1 <= 2 * n BY <1>1
  <2> QED BY <1>1, <2>1, WrapIs
<1>6. a.end = Wrap(start + less + 1, n)
  <2>1. less + 1 \in 0 .. n /\ a.start + (less + 1 + 1) = a.start + a.elements_count + 1 BY <1>1, <1>3
  <2>2. Wrap(start + (less + 1), n) = Wrap(a.start + (less + 1 + 1), n) BY <1>4, <2>1
  <2>3. start \in Int
    <3> HIDE DEF start
    <3> QED BY <1>5 DEF Cells
  <2>4. start + (less + 1) = start + less + 1
    <3> HIDE DEF start
    <3> QED BY <1>1, <2>3
  <2> QED BY <1>1, <2>1, <2>2, <2>4
<1>7. t \in Seq(Elements) /\ Len(t) = less /\ \A i \in 1 .. less : t[i] = s[i + 1] BY <1>1
<1>8. ASSUME NEW i \in 1 .. less PROVE a.buffer[Wrap(start + i, n)] = t[i]
  <2>1. i \in 0 .. n /\ i + 1 \in 1 .. a.elements_count BY <1>1, <1>3
  <2> QED BY <1>1, <1>4, <1>7, <2>1
<1> HIDE DEF b, start, less, t
<1>9. b = [size |-> n, start |-> start, end |-> a.end, elements_count |-> less, buffer |-> a.buffer]
  BY <1>1, <1>2
<1>10. Laid(b, t) BY ONLY <1>1, <1>3, <1>5, <1>6, <1>7, <1>8, <1>9, LaidIf
<1> QED BY <1>9, <1>10 DEF b, t, less

LEMMA MemcpyIs ==
  ASSUME NEW n \in Nat, NEW a, a.buffer \in [Cells(n) -> Values], NEW size \in Nat,
         NEW to \in Int, NEW from \in Int, NEW count \in Nat, count = 0 \/ (0 <= from /\ from + count <= n)
  PROVE  /\ memcpy(a, to, from, count, size) \in [Cells(size) -> Values]
         /\ \A c \in Cells(size) :
              memcpy(a, to, from, count, size)[c] =
                IF to <= c /\ c < to + count THEN a.buffer[from + c - to]
                ELSE IF c < n THEN a.buffer[c] ELSE JUNK
<1> DEFINE copy == memcpy(a, to, from, count, size)
<1>1. DOMAIN copy = Cells(size) /\ copy = [c \in Cells(size) |-> copy[c]] BY DEF memcpy
<1>2. ASSUME NEW c \in Cells(size)
      PROVE  /\ copy[c] = IF to <= c /\ c < to + count THEN a.buffer[from + c - to]
                          ELSE IF c < n THEN a.buffer[c] ELSE JUNK
             /\ copy[c] \in Values
  <2>1. c \in Int /\ 0 <= c BY DEF Cells
  <2>2. copy[c] = IF c \in to .. to + count - 1 THEN a.buffer[from + c - to]
                  ELSE IF c \in DOMAIN a.buffer THEN a.buffer[c] ELSE JUNK
    BY DEF memcpy
  <2>3. c \in to .. to + count - 1 <=> to <= c /\ c < to + count BY <2>1
  <2>4. c \in DOMAIN a.buffer <=> c < n BY <2>1 DEF Cells
  <2>5. JUNK \in Values BY DEF Values
  <2>6. to <= c /\ c < to + count => from + c - to \in Cells(n) BY <2>1 DEF Cells
  <2>7. c < n => c \in Cells(n) BY <2>1 DEF Cells
  <2> HIDE DEF copy
  <2> QED BY <2>2, <2>3, <2>4, <2>5, <2>6, <2>7
<1> HIDE DEF copy
<1>3. copy \in [Cells(size) -> Values] BY <1>1, <1>2
<1> QED BY <1>2, <1>3 DEF copy

LEMMA ExpandLaid ==
  ASSUME NEW a, NEW s, Laid(a, s)
  PROVE  LET b == array_expand_(a)
         IN  /\ Laid(b, s) /\ b.elements_count = a.elements_count
             /\ b.size = IF a.size = a.elements_count THEN 2 * a.size ELSE a.size
<1> DEFINE n == a.size
           b == array_expand_(a)
           right == right_elements_count(a)
<1>1. /\ a = [size |-> a.size, start |-> a.start, end |-> a.end,
              elements_count |-> a.elements_count, buffer |-> a.buffer]
      /\ a.size \in Nat \ {0} /\ a.start \in Int /\ 0 <= a.start /\ a.start < a.size
      /\ a.start \in Cells(a.size)
      /\ a.elements_count \in 0 .. a.size /\ a.elements_count \in Nat
      /\ a.buffer \in [Cells(a.size) -> Values]
      /\ s \in Seq(Elements) /\ Len(s) = a.elements_count
      /\ a.end = Wrap(a.start + a.elements_count + 1, a.size) /\ a.end \in Cells(a.size)
      /\ \A i \in 1 .. a.elements_count : a.buffer[Wrap(a.start + i, a.size)] = s[i]
  BY LaidGives
<1>2. CASE n # a.elements_count
  <2>1. b = a BY <1>2 DEF array_expand_
  <2> QED BY <1>2, <2>1
<1>3. CASE n = a.elements_count
  <2> DEFINE start == IF n = 1 THEN 1 ELSE IF a.start < a.end THEN 2 * n - right - 1 ELSE 2 * n - 1
             end == IF n = 1 THEN 1 ELSE IF a.start < a.end THEN a.end ELSE n
             buffer == IF n = 1 \/ ~ (a.start < a.end) THEN memcpy(a, 0, 0, 0, 2 * n)
                       ELSE memcpy(a, 2 * n - right, a.start + 1, right, 2 * n)
  <2>1. b = [size |-> 2 * n, start |-> start, end |-> end, elements_count |-> n, buffer |-> buffer]
    <3>1. CASE n = 1
      <4>1. b = [a EXCEPT !.size = 2, !.start = 1, !.end = 1, !.buffer = memcpy(a, 0, 0, 0, 2)]
        BY <1>3, <3>1 DEF array_expand_
      <4>2. 2 * n = 2 BY <3>1
      <4>3. start = 1 /\ end = 1 /\ buffer = memcpy(a, 0, 0, 0, 2) BY <3>1, <4>2
      <4> HIDE DEF b, start, end, buffer
      <4> QED BY <1>1, <1>3, <4>1, <4>2, <4>3
    <3>2. CASE n # 1 /\ a.start < a.end
      <4>1. b = [a EXCEPT !.size = 2 * n, !.start = 2 * n - right - 1,
                          !.buffer = memcpy(a, 2 * n - right, a.start + 1, right, 2 * n)]
        BY <1>3, <3>2 DEF array_expand_
      <4>2. start = 2 * n - right - 1 /\ end = a.end
            /\ buffer = memcpy(a, 2 * n - right, a.start + 1, right, 2 * n)
        BY <3>2
      <4> HIDE DEF b, start, end, buffer, right
      <4> QED BY <1>1, <1>3, <4>1, <4>2
    <3>3. CASE n # 1 /\ ~ (a.start < a.end)
      <4>1. b = [a EXCEPT !.size = 2 * n, !.start = 2 * n - 1, !.end = n, !.buffer = memcpy(a, 0, 0, 0, 2 * n)]
        BY <1>3, <3>3 DEF array_expand_
      <4>2. start = 2 * n - 1 /\ end = n /\ buffer = memcpy(a, 0, 0, 0, 2 * n) BY <3>3
      <4> HIDE DEF b, start, end, buffer
      <4> QED BY <1>1, <1>3, <4>1, <4>2
    <3> QED BY <3>1, <3>2, <3>3
  <2>2. right = n - a.start - 1 /\ right \in Nat BY <1>1 DEF right_elements_count
  <2>3. a.end = IF a.start = n - 1 THEN 0 ELSE a.start + 1
    <3>1. a.start + n + 1 \in Int /\ -1 <= a.start + n + 1 /\ a.start + n + 1 <= 2 * n BY <1>1
    <3>2. a.end = Wrap(a.start + n + 1, n) BY <1>1, <1>3
    <3>3. Wrap(a.start + n + 1, n) = IF a.start + n + 1 < n THEN a.start + n + 1
                                     ELSE IF a.start + n + 1 < 2 * n THEN a.start + n + 1 - n ELSE 0
      BY <1>1, <3>1, WrapIs
    <3> QED BY <1>1, <3>2, <3>3
  <2>4. 2 * n \in Nat \ {0} /\ n \in 0 .. 2 * n BY <1>1
  <2>5. start = IF a.start = n - 1 THEN 2 * n - 1 ELSE n + a.start BY <1>1, <2>2, <2>3
  <2>6. start \in Cells(2 * n) /\ start \in Int /\ start >= n /\ start < 2 * n
    <3> HIDE DEF start
    <3>1. start \in Int /\ start >= n /\ start < 2 * n BY <1>1, <2>5
    <3> QED BY <1>1, <3>1 DEF Cells
  <2>7. /\ buffer \in [Cells(2 * n) -> Values]
        /\ \A c \in Cells(2 * n) :
             buffer[c] = IF a.start # n - 1 /\ n + a.start < c THEN a.buffer[c - n]
                         ELSE IF c < n THEN a.buffer[c] ELSE JUNK
    <3>1. CASE a.start = n - 1
      <4>1. buffer = memcpy(a, 0, 0, 0, 2 * n) BY <1>1, <2>3, <3>1
      <4>2. /\ memcpy(a, 0, 0, 0, 2 * n) \in [Cells(2 * n) -> Values]
            /\ \A c \in Cells(2 * n) :
                 memcpy(a, 0, 0, 0, 2 * n)[c] =
                   IF 0 <= c /\ c < 0 + 0 THEN a.buffer[0 + c - 0] ELSE IF c < n THEN a.buffer[c] ELSE JUNK
        <5> DEFINE m == 2 * n
                   z == 0
        <5>1. z \in Nat /\ z \in Int /\ 0 <= z /\ z + z <= n /\ n \in Nat /\ m \in Nat BY <1>1
        <5> HIDE DEF m, z
        <5>2. \A c \in Cells(m) :
                 memcpy(a, z, z, z, m)[c] =
                   IF z <= c /\ c < z + z THEN a.buffer[z + c - z] ELSE IF c < n THEN a.buffer[c] ELSE JUNK
          BY ONLY <1>1, <5>1, MemcpyIs
        <5>3. memcpy(a, z, z, z, m) \in [Cells(m) -> Values] BY ONLY <1>1, <5>1, MemcpyIs
        <5> QED BY <5>2, <5>3 DEF m, z
      <4>3. \A c \in Cells(2 * n) : ~ (0 <= c /\ c < 0 + 0) BY DEF Cells
      <4> HIDE DEF buffer
      <4> QED BY <3>1, <4>1, <4>2, <4>3
    <3>2. CASE a.start # n - 1
      <4>1. buffer = memcpy(a, 2 * n - right, a.start + 1, right, 2 * n) BY <1>1, <2>3, <3>2
      <4>2. 2 * n - right \in Int /\ a.start + 1 \in Int /\ 0 <= a.start + 1 /\ a.start + 1 + right <= n
        BY <1>1, <2>2
      <4>3. /\ memcpy(a, 2 * n - right, a.start + 1, right, 2 * n) \in [Cells(2 * n) -> Values]
            /\ \A c \in Cells(2 * n) :
                 memcpy(a, 2 * n - right, a.start + 1, right, 2 * n)[c] =
                   IF 2 * n - right <= c /\ c < 2 * n - right + right THEN a.buffer[a.start + 1 + c - (2 * n - right)]
                   ELSE IF c < n THEN a.buffer[c] ELSE JUNK
        <5> DEFINE m == 2 * n
                   to == m - right
                   from == a.start + 1
        <5>1. /\ m \in Nat /\ n \in Nat /\ to \in Int /\ from \in Int /\ 0 <= from /\ from + right <= n
              /\ a.buffer \in [Cells(n) -> Values] /\ right \in Nat
          BY <1>1, <2>2, <2>4, <4>2
        <5> HIDE DEF right, m, to, from
        <5>2. \A c \in Cells(m) : memcpy(a, to, from, right, m)[c] =
                IF to <= c /\ c < to + right THEN a.buffer[from + c - to]
                ELSE IF c < n THEN a.buffer[c] ELSE JUNK
          BY ONLY <5>1, MemcpyIs
        <5>3. memcpy(a, to, from, right, m) \in [Cells(m) -> Values] BY ONLY <5>1, MemcpyIs
        <5> QED BY <5>2, <5>3 DEF m, to, from
      <4>4. ASSUME NEW c \in Cells(2 * n)
            PROVE  /\ (2 * n - right <= c /\ c < 2 * n - right + right) <=> n + a.start < c
                   /\ a.start + 1 + c - (2 * n - right) = c - n
        <5> HIDE DEF right
        <5>1. c \in Int /\ c < 2 * n BY <1>1 DEF Cells
        <5> QED BY <1>1, <2>2, <5>1
      <4> HIDE DEF buffer, right
      <4> QED BY <3>2, <4>1, <4>3, <4>4
    <3> QED BY <3>1, <3>2
  <2>8. end = Wrap(start + n + 1, 2 * n)
    <3> DEFINE m == 2 * n
               x == start + n + 1
    <3>1. end = IF a.start = n - 1 THEN n ELSE a.start + 1 BY <1>1, <2>3
    <3>2. x \in Int /\ -1 <= x /\ x <= 2 * m /\ m <= x /\ x < 2 * m
      <4> HIDE DEF start
      <4> QED BY <1>1, <2>6
    <3>3. Wrap(x, m) = x - m
      <4> HIDE DEF x, m
      <4> QED BY <2>4, <3>2, WrapIs DEF m
    <3> HIDE DEF start, end
    <3> QED BY <1>1, <2>5, <3>1, <3>3
  <2>9. ASSUME NEW i \in 1 .. n PROVE buffer[Wrap(start + i, 2 * n)] = s[i]
    <3>1. a.buffer[Wrap(a.start + i, n)] = s[i] BY <1>1, <1>3
    <3>2. Wrap(a.start + i, n) = IF a.start + i < n THEN a.start + i ELSE a.start + i - n
      <4>1. a.start + i \in Int /\ -1 <= a.start + i /\ a.start + i < 2 * n /\ ~ (a.start + i < 0) BY <1>1
      <4> QED BY <1>1, <4>1, WrapIs
    <3>3. Wrap(start + i, 2 * n) = IF start + i < 2 * n THEN start + i ELSE start + i - 2 * n
      <4> DEFINE m == 2 * n
                 x == start + i
      <4>1. x \in Int /\ -1 <= x /\ x < 2 * m /\ ~ (x < 0) /\ m \in Nat \ {0}
        <5> HIDE DEF start
        <5> QED BY <1>1, <2>6
      <4>2. Wrap(x, m) = IF x < m THEN x ELSE x - m
        <5> HIDE DEF x, m
        <5> QED BY <4>1, WrapIs
      <4>3. m = 2 * n /\ x = start + i OBVIOUS
      <4> HIDE DEF start, m, x
      <4>4. n \in Int /\ start \in Int /\ i \in Int BY <1>1, <2>6
      <4> QED BY ONLY <4>1, <4>2, <4>3, <4>4
    <3> DEFINE c == Wrap(start + i, 2 * n)
    <3>4. c \in Cells(2 * n) /\ c = IF start + i < 2 * n THEN start + i ELSE start + i - 2 * n
      <4> HIDE DEF start
      <4> QED BY <1>1, <2>6, <3>3 DEF Cells
    <3>5. buffer[c] = a.buffer[Wrap(a.start + i, n)]
      <4> HIDE DEF buffer, start, c
      <4>1. c \in Int BY <1>1, <3>4 DEF Cells
      <4>2. IF a.start # n - 1 /\ n + a.start < c THEN c - n = Wrap(a.start + i, n)
            ELSE c < n /\ c = Wrap(a.start + i, n)
        <5>1. start \in Int /\ i \in Int /\ 1 <= i /\ i <= n BY <1>1, <2>6
        <5>2. CASE a.start = n - 1
          <6>1. c = i - 1 /\ Wrap(a.start + i, n) = i - 1 BY <1>1, <2>5, <3>2, <3>4, <5>1, <5>2
          <6> QED BY <1>1, <5>1, <5>2, <6>1
        <5>3. CASE a.start # n - 1
          <6>1. c = IF a.start + i < n THEN n + a.start + i ELSE a.start + i - n
            BY <1>1, <2>5, <3>4, <5>1, <5>3
          <6> QED BY <1>1, <3>2, <5>1, <5>3, <6>1
        <5> QED BY <5>2, <5>3
      <4> QED BY <2>7, <3>4, <4>2
    <3> QED BY <3>1, <3>5
  <2> HIDE DEF b, start, end, buffer
  <2>10. Laid(b, s)
    <3> DEFINE m == 2 * n
    <3>1. Len(s) = n BY <1>1, <1>3
    <3>2. /\ m \in Nat \ {0} /\ n \in 0 .. m /\ start \in Cells(m) /\ buffer \in [Cells(m) -> Values]
          /\ end = Wrap(start + n + 1, m) /\ \A i \in 1 .. n : buffer[Wrap(start + i, m)] = s[i]
          /\ b = [size |-> m, start |-> start, end |-> end, elements_count |-> n, buffer |-> buffer]
      BY <2>1, <2>4, <2>6, <2>7, <2>8, <2>9
    <3> HIDE DEF m
    <3> QED BY ONLY <1>1, <3>1, <3>2, LaidIf
  <2> QED BY <1>3, <2>1, <2>10 DEF b
<1> QED BY <1>2, <1>3

LEMMA EmptyLaid == Laid(Empty, <<>>)
<1> DEFINE buffer == [c \in {0} |-> JUNK]
<1>1. Empty = [size |-> 1, start |-> 0, end |-> 0, elements_count |-> 0, buffer |-> buffer] BY DEF Empty
<1>2. Cells(1) = {0} BY DEF Cells
<1>3. buffer \in [Cells(1) -> Values] /\ 0 \in Cells(1) BY <1>2 DEF Values
<1>4. 1 \in Nat \ {0} /\ 0 \in 0 .. 1 /\ <<>> \in Seq(Elements) /\ Len(<<>>) = 0
  OBVIOUS
<1>5. 0 = Wrap(0 + 0 + 1, 1)
  <2>1. Wrap(1, 1) = 0
    <3>1. 1 \in Int /\ -1 <= 1 /\ 1 <= 2 * 1 OBVIOUS
    <3>2. Wrap(1, 1) = IF 1 < 0 THEN 1 + 1 ELSE IF 1 < 1 THEN 1 ELSE IF 1 < 2 * 1 THEN 1 - 1 ELSE 0
      BY ONLY <1>4, <3>1, WrapIs
    <3> QED BY <3>2
  <2>2. 0 + 0 + 1 = 1 OBVIOUS
  <2> QED BY <2>1, <2>2
<1>6. \A i \in 1 .. 0 : buffer[Wrap(0 + i, 1)] = <<>>[i] OBVIOUS
<1>7. 0 = Len(<<>>) OBVIOUS
<1> HIDE DEF buffer
<1> QED BY ONLY <1>1, <1>3, <1>4, <1>5, <1>6, <1>7, LaidIf

LEMMA ShrinkLaid ==
  ASSUME NEW a, NEW s, Laid(a, s), NEW k \in Nat, a.size = bit(k), a.size > 1,
         4 * a.elements_count < a.size, 4 * (a.elements_count + 1) >= a.size
  PROVE  LET b == array_shrink_(a)
         IN  /\ Laid(b, s) /\ b.elements_count = a.elements_count
             /\ b.size = IF a.elements_count = 0 THEN 1 ELSE bit(k - 2)
             /\ a.elements_count # 0 => k - 2 \in Nat /\ bit(k - 2) = a.elements_count + 1
<1> DEFINE n == a.size
           count == a.elements_count
           p == bit(k - 2)
           b == array_shrink_(a)
           right == right_elements_count(a)
<1>1. /\ a = [size |-> a.size, start |-> a.start, end |-> a.end,
              elements_count |-> a.elements_count, buffer |-> a.buffer]
      /\ a.size \in Nat \ {0} /\ a.start \in Int /\ 0 <= a.start /\ a.start < a.size
      /\ a.start \in Cells(a.size)
      /\ a.elements_count \in 0 .. a.size /\ a.elements_count \in Nat
      /\ a.buffer \in [Cells(a.size) -> Values]
      /\ s \in Seq(Elements) /\ Len(s) = a.elements_count
      /\ a.end = Wrap(a.start + a.elements_count + 1, a.size) /\ a.end \in Cells(a.size)
      /\ \A i \in 1 .. a.elements_count : a.buffer[Wrap(a.start + i, a.size)] = s[i]
  BY LaidGives
<1>2. CASE count = 0
  <2>1. b = Empty BY <1>2 DEF array_shrink_
  <2>2. s = <<>> BY <1>1, <1>2
  <2> HIDE DEF b
  <2>3. Laid(b, s) BY <2>1, <2>2, EmptyLaid
  <2>4. b.elements_count = 0 /\ b.size = 1 BY <2>1 DEF Empty
  <2> QED BY <1>2, <2>3, <2>4 DEF b
<1>3. CASE count # 0
  <2>1. k - 2 \in Nat /\ NewSize(count) = p /\ n = 4 * p /\ count = p - 1
    <3>1. count \in Nat \ {0} BY <1>1, <1>3
    <3>2. 4 * count < bit(k) /\ 4 * (count + 1) >= bit(k) OBVIOUS
    <3> HIDE DEF count
    <3> QED BY <3>1, <3>2, NewSizeIs
  <2>2. p \in Nat /\ p >= 2
    <3>1. p \in Nat BY <2>1, Bits
    <3> HIDE DEF p
    <3> QED BY <1>1, <1>3, <2>1, <3>1
  <2> HIDE DEF p
  <2>0. /\ n \in Int /\ a.start \in Int /\ 0 <= a.start /\ a.start < n /\ n = 4 * p /\ count = p - 1
        /\ p \in Int /\ p >= 2 /\ count \in Int
    BY <1>1, <2>1, <2>2
  <2>3. right = n - a.start - 1 /\ right \in Nat /\ right \in Int BY <1>1 DEF right_elements_count
  <2> DEFINE ahead == a.start + count + 1 <= n
  <2>4. a.end = IF a.start + count + 1 < n THEN a.start + count + 1 ELSE a.start + count + 1 - n
    <3>1. a.start + count + 1 \in Int /\ -1 <= a.start + count + 1 /\ a.start + count + 1 < 2 * n
          /\ ~ (a.start + count + 1 < 0)
      BY <2>0
    <3> QED BY <1>1, <3>1, WrapIs
  <2>5. ahead <=> (a.start < a.end \/ a.end = 0) BY <2>0, <2>4
  <2>6. ~ ahead => a.start > a.end BY <2>0, <2>4
  <2> DEFINE start == IF ahead THEN p - 1 ELSE p - right - 1
             end == IF ahead THEN Wrap(count, p) ELSE a.end
             buffer == IF ahead THEN memcpy(a, 0, a.start + 1, count, p)
                       ELSE memcpy(a, p - right, a.start + 1, right, p)
  <2>7. b = [size |-> p, start |-> start, end |-> end, elements_count |-> count, buffer |-> buffer]
    <3>1. ~ (count = 0 /\ n # 1) /\ p # n BY <1>1, <1>3, <2>1, <2>2
    <3>2. CASE ahead
      <4>1. b = [a EXCEPT !.size = p, !.start = p - 1, !.end = Wrap(count, p),
                          !.buffer = memcpy(a, 0, a.start + 1, count, p)]
        BY <2>1, <2>5, <3>1, <3>2 DEF array_shrink_
      <4>2. start = p - 1 /\ end = Wrap(count, p) /\ buffer = memcpy(a, 0, a.start + 1, count, p)
        BY <3>2
      <4> HIDE DEF b, start, end, buffer
      <4> QED BY <1>1, <4>1, <4>2
    <3>3. CASE ~ ahead
      <4>1. b = [a EXCEPT !.size = p, !.start = p - right - 1,
                          !.buffer = memcpy(a, p - right, a.start + 1, right, p)]
        BY <2>1, <2>5, <2>6, <3>1, <3>3 DEF array_shrink_
      <4>2. start = p - right - 1 /\ end = a.end /\ buffer = memcpy(a, p - right, a.start + 1, right, p)
        BY <3>3
      <4> HIDE DEF b, start, end, buffer, right
      <4> QED BY <1>1, <4>1, <4>2
    <3> QED BY <3>2, <3>3
  <2>8. ~ ahead => right < count BY <1>1, <2>3
  <2>9. start \in Int /\ 0 <= start /\ start < p /\ start \in Cells(p)
    <3>1. start \in Int /\ 0 <= start /\ start < p
      <4> HIDE DEF right
      <4> QED BY <2>0, <2>3, <2>8
    <3> HIDE DEF start
    <3> QED BY <2>2, <3>1 DEF Cells
  <2>10. /\ buffer \in [Cells(p) -> Values]
         /\ \A c \in Cells(p) :
              /\ ahead /\ c < count => buffer[c] = a.buffer[a.start + 1 + c]
              /\ ~ ahead => buffer[c] = IF p - right <= c THEN a.buffer[a.start + 1 + c - (p - right)]
                                        ELSE a.buffer[c]
    <3> DEFINE from == a.start + 1
    <3>1. from \in Int /\ 0 <= from /\ n \in Nat /\ 0 \in Int BY <1>1
    <3>2. \A c \in Cells(p) : c \in Int /\ 0 <= c /\ c < p /\ c < n BY <2>0 DEF Cells
    <3>3. CASE ahead
      <4>1. from + count <= n BY <1>1, <3>3
      <4>2. buffer = memcpy(a, 0, from, count, p) BY <3>3
      <4> HIDE DEF from, buffer
      <4>3. /\ buffer \in [Cells(p) -> Values]
            /\ \A c \in Cells(p) :
                 buffer[c] = IF 0 <= c /\ c < 0 + count THEN a.buffer[from + c - 0]
                             ELSE IF c < n THEN a.buffer[c] ELSE JUNK
        <5> DEFINE z == 0
                   amount == count
        <5>1. /\ z \in Int /\ z = 0 /\ amount \in Nat /\ from \in Int /\ 0 <= from /\ from + amount <= n /\ n \in Nat
              /\ p \in Nat /\ a.buffer \in [Cells(n) -> Values]
          BY <1>1, <2>2, <3>1, <4>1
        <5> HIDE DEF z, amount
        <5>2. \A c \in Cells(p) : memcpy(a, z, from, amount, p)[c] =
                IF z <= c /\ c < z + amount THEN a.buffer[from + c - z]
                ELSE IF c < n THEN a.buffer[c] ELSE JUNK
          BY ONLY <5>1, MemcpyIs
        <5>3. memcpy(a, z, from, amount, p) \in [Cells(p) -> Values] BY ONLY <5>1, MemcpyIs
        <5> QED BY <4>2, <5>2, <5>3 DEF z, amount
      <4>4. ASSUME NEW c \in Cells(p), c < count PROVE buffer[c] = a.buffer[a.start + 1 + c]
        <5>1. 0 <= c /\ c < 0 + count /\ from + c - 0 = a.start + 1 + c
          BY <1>1, <3>2, <4>4 DEF from
        <5> QED BY <4>3, <5>1
      <4> QED BY <3>3, <4>3, <4>4
    <3>4. CASE ~ ahead
      <4> DEFINE to == p - right
      <4>1. from + right <= n /\ to \in Int BY <2>0, <2>3
      <4>2. buffer = memcpy(a, to, from, right, p) BY <3>4
      <4> HIDE DEF from, buffer, right, to
      <4>3. /\ buffer \in [Cells(p) -> Values]
            /\ \A c \in Cells(p) :
                 buffer[c] = IF to <= c /\ c < to + right THEN a.buffer[from + c - to]
                             ELSE IF c < n THEN a.buffer[c] ELSE JUNK
        <5>1. /\ to \in Int /\ right \in Nat /\ from \in Int /\ 0 <= from /\ from + right <= n /\ n \in Nat
              /\ p \in Nat /\ a.buffer \in [Cells(n) -> Values]
          BY <1>1, <2>2, <2>3, <3>1, <4>1
        <5>2. \A c \in Cells(p) : memcpy(a, to, from, right, p)[c] =
                IF to <= c /\ c < to + right THEN a.buffer[from + c - to]
                ELSE IF c < n THEN a.buffer[c] ELSE JUNK
          BY ONLY <5>1, MemcpyIs
        <5>3. memcpy(a, to, from, right, p) \in [Cells(p) -> Values] BY ONLY <5>1, MemcpyIs
        <5> QED BY <4>2, <5>2, <5>3
      <4>4. ASSUME NEW c \in Cells(p)
            PROVE  buffer[c] = IF p - right <= c THEN a.buffer[a.start + 1 + c - (p - right)] ELSE a.buffer[c]
        <5>1. c < to + right /\ c < n BY <2>2, <2>3, <3>2 DEF to
        <5>2. from + c - to = a.start + 1 + c - (p - right) /\ (to <= c <=> p - right <= c) BY DEF to, from
        <5> QED BY <4>3, <5>1, <5>2
      <4> QED BY <3>4, <4>3, <4>4
    <3> QED BY <3>3, <3>4
  <2>11. end = Wrap(start + count + 1, p)
    <3> DEFINE x == start + count + 1
    <3>1. x \in Int /\ -1 <= x /\ x < 2 * p /\ p <= x /\ p \in Nat \ {0}
          /\ x = IF ahead THEN p + count ELSE p - right + count
      <4> HIDE DEF right
      <4> QED BY <2>0, <2>3, <2>8
    <3>2. Wrap(x, p) = x - p
      <4> HIDE DEF x
      <4> QED BY <3>1, WrapIs
    <3>3. CASE ahead
      <4>1. Wrap(count, p) = count
        <5>1. count \in Int /\ 0 <= count /\ count < p BY <2>0
        <5> HIDE DEF count
        <5> QED BY <2>2, <5>1, WrapIs
      <4> QED BY <1>1, <2>2, <3>1, <3>2, <3>3, <4>1
    <3>4. CASE ~ ahead
      <4>1. end = a.start + count + 1 - n BY <1>1, <2>4, <3>4
      <4> HIDE DEF end, right, x
      <4> QED BY <2>0, <2>3, <3>1, <3>2, <3>4, <4>1 DEF x
    <3> QED BY <3>3, <3>4
  <2>12. ASSUME NEW i \in 1 .. count PROVE buffer[Wrap(start + i, p)] = s[i]
    <3>1. a.buffer[Wrap(a.start + i, n)] = s[i] BY <1>1
    <3>2. Wrap(a.start + i, n) = IF a.start + i < n THEN a.start + i ELSE a.start + i - n
      <4>1. a.start + i \in Int /\ -1 <= a.start + i /\ a.start + i < 2 * n /\ ~ (a.start + i < 0) BY <1>1
      <4> QED BY <1>1, <4>1, WrapIs
    <3> DEFINE x == start + i
               c == Wrap(x, p)
    <3>3. x \in Int /\ -1 <= x /\ x < 2 * p /\ ~ (x < 0) /\ p \in Nat \ {0}
      <4> HIDE DEF start
      <4> QED BY <2>0, <2>9
    <3>4. c = (IF x < p THEN x ELSE x - p) /\ c \in Cells(p)
      <4> HIDE DEF x
      <4> QED BY <3>3, WrapIs
    <3>5. i \in Int /\ 1 <= i /\ i <= count /\ i < p BY <2>0
    <3>6. CASE ahead
      <4>1. x = p - 1 + i BY <3>6
      <4> HIDE DEF x, c, start, buffer
      <4>2. c = i - 1 BY <2>2, <3>4, <3>5, <4>1
      <4>3. c < count /\ a.start + 1 + c = a.start + i /\ a.start + i < n BY <1>1, <3>5, <3>6, <4>2
      <4>4. buffer[c] = a.buffer[a.start + i] BY <2>10, <3>4, <3>6, <4>3
      <4>5. Wrap(a.start + i, n) = a.start + i BY <3>2, <4>3
      <4> QED BY <3>1, <4>4, <4>5 DEF c, x
    <3>7. CASE ~ ahead
      <4>1. x = p - right - 1 + i BY <3>7
      <4> HIDE DEF x, c, start, buffer, right
      <4>2. c = IF i <= right THEN p - right - 1 + i ELSE i - right - 1 BY <2>2, <2>3, <3>4, <3>5, <4>1
      <4>3. CASE i <= right
        <5>1. p - right <= c /\ a.start + 1 + c - (p - right) = a.start + i /\ a.start + i < n
          BY <2>0, <2>3, <3>5, <4>2, <4>3
        <5>2. buffer[c] = a.buffer[a.start + i] BY <2>10, <3>4, <3>7, <5>1
        <5>3. Wrap(a.start + i, n) = a.start + i BY <3>2, <5>1
        <5> QED BY <3>1, <5>2, <5>3 DEF c, x
      <4>4. CASE ~ (i <= right)
        <5>1. ~ (p - right <= c) /\ c = a.start + i - n /\ ~ (a.start + i < n)
          BY <2>0, <2>3, <3>5, <4>2, <4>4
        <5>2. buffer[c] = a.buffer[c] BY <2>10, <3>4, <3>7, <5>1
        <5>3. Wrap(a.start + i, n) = c BY <3>2, <5>1
        <5> QED BY <3>1, <5>2, <5>3 DEF c, x
      <4> QED BY <4>3, <4>4
    <3> QED BY <3>6, <3>7
  <2> HIDE DEF b, start, end, buffer
  <2>13. Laid(b, s)
    <3>1. p \in Nat \ {0} /\ count \in 0 .. p BY <2>0
    <3> QED BY ONLY <1>1, <2>7, <2>9, <2>10, <2>11, <2>12, <3>1, LaidIf
  <2>14. b.elements_count = count /\ b.size = p BY <2>7
  <2>15. p = count + 1 BY <2>0
  <2> QED BY <1>3, <2>1, <2>13, <2>14, <2>15 DEF b, p
<1> QED BY <1>2, <1>3

\* What holds between the calls.
Holds(a, s) == Laid(a, s) /\ Roomy(a)

LEMMA ExpandHolds ==
  ASSUME NEW a, NEW s, Laid(a, s), NEW k \in Nat, a.size = bit(k), a.elements_count > 0,
         4 * a.elements_count >= a.size
  PROVE  Holds(Tidy(array_expand_(a)), s)
<1> DEFINE b == array_expand_(a)
<1>1. Laid(b, s) /\ b.elements_count = a.elements_count
      /\ b.size = IF a.size = a.elements_count THEN 2 * a.size ELSE a.size
  BY ExpandLaid
<1>2. a.size \in Nat \ {0} /\ a.elements_count \in Nat /\ a.elements_count <= a.size BY LaidGives
<1> HIDE DEF b
<1>3. Laid(Tidy(b), s) /\ Tidy(b).size = b.size /\ Tidy(b).elements_count = b.elements_count
  BY <1>1, TidyLaid
<1>4. Roomy(Tidy(b))
  <2>1. CASE a.size = a.elements_count
    <3>1. b.size = bit(k + 1) /\ k + 1 \in Nat
      <4>1. bit(k + 1) = 2 * bit(k) /\ k + 1 \in Nat BY Bits
      <4> QED BY <1>1, <2>1, <4>1
    <3>2. b.elements_count < b.size /\ 4 * b.elements_count >= b.size BY <1>1, <1>2, <2>1
    <3> QED BY <1>3, <3>1, <3>2 DEF Roomy
  <2>2. CASE a.size # a.elements_count
    <3>1. b.elements_count < b.size /\ 4 * b.elements_count >= b.size BY <1>1, <1>2, <2>2
    <3> QED BY <1>1, <1>3, <2>2, <3>1 DEF Roomy
  <2> QED BY <2>1, <2>2
<1> QED BY <1>3, <1>4 DEF Holds, b

LEMMA ShrunkHolds ==
  ASSUME NEW a, NEW s, Laid(a, s), NEW k \in Nat, a.size = bit(k), a.elements_count < a.size,
         a.size = 1 \/ 4 * (a.elements_count + 1) >= a.size
  PROVE  Holds(Tidy(ShrunkIfSparse(a)), s)
<1> DEFINE b == ShrunkIfSparse(a)
<1>1. a.size \in Nat \ {0} /\ a.elements_count \in Nat /\ a.elements_count <= a.size BY LaidGives
<1>2. Laid(b, s) /\ Roomy(b)
  <2>1. CASE a.size > 1 /\ a.elements_count * 4 < a.size
    <3>1. b = array_shrink_(a) BY <2>1 DEF ShrunkIfSparse
    <3>2. 4 * a.elements_count < a.size /\ 4 * (a.elements_count + 1) >= a.size BY <1>1, <2>1
    <3> HIDE DEF b
    <3>3. /\ Laid(b, s) /\ b.elements_count = a.elements_count
          /\ b.size = IF a.elements_count = 0 THEN 1 ELSE bit(k - 2)
          /\ a.elements_count # 0 => k - 2 \in Nat /\ bit(k - 2) = a.elements_count + 1
      BY <2>1, <3>1, <3>2, ShrinkLaid
    <3>4. CASE a.elements_count = 0
      <4>1. b.size = bit(0) /\ b.size = 1 /\ b.elements_count < b.size BY <3>3, <3>4, Bits
      <4> QED BY <3>3, <4>1 DEF Roomy
    <3>5. CASE a.elements_count # 0
      <4>1. b.elements_count < b.size /\ 4 * b.elements_count >= b.size BY <1>1, <3>3, <3>5
      <4> QED BY <3>3, <3>5, <4>1 DEF Roomy
    <3> QED BY <3>4, <3>5
  <2>2. CASE ~ (a.size > 1 /\ a.elements_count * 4 < a.size)
    <3>1. b = a BY <2>2 DEF ShrunkIfSparse
    <3>2. a.size = 1 \/ 4 * a.elements_count >= a.size BY <1>1, <2>2
    <3> HIDE DEF b
    <3> QED BY <3>1, <3>2 DEF Roomy
  <2> QED BY <2>1, <2>2
<1> HIDE DEF b
<1>3. Laid(Tidy(b), s) /\ Tidy(b).size = b.size /\ Tidy(b).elements_count = b.elements_count
  BY <1>2, TidyLaid
<1> QED BY <1>2, <1>3 DEF Holds, Roomy, b

LEMMA PushBackHolds ==
  ASSUME NEW a, NEW s, Holds(a, s), NEW e \in Elements
  PROVE  Holds(Tidy(dynamic_array_push_back(a, e)), Append(s, e))
<1> DEFINE b == [a EXCEPT !.buffer[a.end] = e, !.elements_count = @ + 1, !.end = Wrap(@ + 1, a.size)]
           t == Append(s, e)
<1>1. Laid(a, s) /\ Roomy(a) BY DEF Holds
<1>2. a.size \in Nat \ {0} /\ a.elements_count \in Nat /\ Len(s) = a.elements_count /\ s \in Seq(Elements)
  BY <1>1, LaidGives
<1>3. Laid(b, t) /\ b.size = a.size BY <1>1, PushedBack DEF Roomy
<1>4. dynamic_array_push_back(a, e) = array_expand_(b) BY DEF dynamic_array_push_back
<1>5. Len(t) = a.elements_count + 1 BY <1>2
<1>6. PICK k \in Nat : a.size = bit(k) BY <1>1 DEF Roomy
<1> HIDE DEF b, t
<1>7. b.elements_count = a.elements_count + 1 BY <1>3, <1>5 DEF Laid
<1>8. b.elements_count > 0 /\ 4 * b.elements_count >= b.size BY <1>1, <1>2, <1>3, <1>7 DEF Roomy
<1>9. Holds(Tidy(array_expand_(b)), t) BY <1>3, <1>6, <1>8, ExpandHolds
<1> QED BY <1>4, <1>9 DEF t

LEMMA PushFrontHolds ==
  ASSUME NEW a, NEW s, Holds(a, s), NEW e \in Elements
  PROVE  Holds(Tidy(dynamic_array_push_front(a, e)), <<e>> \o s)
<1> DEFINE b == [a EXCEPT !.buffer[a.start] = e, !.elements_count = @ + 1, !.start = Wrap(@ - 1, a.size)]
           t == <<e>> \o s
<1>1. Laid(a, s) /\ Roomy(a) BY DEF Holds
<1>2. a.size \in Nat \ {0} /\ a.elements_count \in Nat /\ Len(s) = a.elements_count /\ s \in Seq(Elements)
  BY <1>1, LaidGives
<1>3. Laid(b, t) /\ b.size = a.size BY <1>1, PushedFront DEF Roomy
<1>4. dynamic_array_push_front(a, e) = array_expand_(b) BY DEF dynamic_array_push_front
<1>5. Len(t) = a.elements_count + 1 BY <1>2
<1>6. PICK k \in Nat : a.size = bit(k) BY <1>1 DEF Roomy
<1> HIDE DEF b, t
<1>7. b.elements_count = a.elements_count + 1 BY <1>3, <1>5 DEF Laid
<1>8. b.elements_count > 0 /\ 4 * b.elements_count >= b.size BY <1>1, <1>2, <1>3, <1>7 DEF Roomy
<1>9. Holds(Tidy(array_expand_(b)), t) BY <1>3, <1>6, <1>8, ExpandHolds
<1> QED BY <1>4, <1>9 DEF t

LEMMA TidyHolds ==
  ASSUME NEW a, NEW s, Holds(a, s)
  PROVE  Holds(Tidy(a), s)
BY TidyLaid DEF Holds, Roomy

LEMMA PopBackHolds ==
  ASSUME NEW a, NEW s, Holds(a, s)
  PROVE  Holds(Tidy(dynamic_array_pop_back(a)), IF s = <<>> THEN s ELSE Front(s))
<1> DEFINE b == [a EXCEPT !.end = Wrap(@ - 1, a.size), !.elements_count = @ - 1]
           t == Front(s)
<1>1. Laid(a, s) /\ Roomy(a) BY DEF Holds
<1>2. a.size \in Nat \ {0} /\ a.elements_count \in Nat /\ Len(s) = a.elements_count /\ s \in Seq(Elements)
  BY <1>1, LaidGives
<1>3. CASE a.elements_count = 0
  <2>1. s = <<>> BY <1>2, <1>3
  <2>2. dynamic_array_pop_back(a) = a BY <1>3 DEF dynamic_array_pop_back
  <2> QED BY <2>1, <2>2, TidyHolds
<1>4. CASE a.elements_count # 0
  <2>1. s # <<>> /\ a.elements_count > 0 BY <1>2, <1>4
  <2>2. Laid(b, t) /\ b.size = a.size /\ b.elements_count = a.elements_count - 1 BY <1>1, <2>1, PoppedBack
  <2>3. dynamic_array_pop_back(a) = ShrunkIfSparse(b) BY <1>4 DEF dynamic_array_pop_back
  <2>4. PICK k \in Nat : a.size = bit(k) BY <1>1 DEF Roomy
  <2> HIDE DEF b, t
  <2>5. b.elements_count < b.size /\ (b.size = 1 \/ 4 * (b.elements_count + 1) >= b.size)
    BY <1>1, <1>2, <2>2 DEF Roomy
  <2>6. Holds(Tidy(ShrunkIfSparse(b)), t) BY <2>2, <2>4, <2>5, ShrunkHolds
  <2> QED BY <2>1, <2>3, <2>6 DEF t
<1> QED BY <1>3, <1>4

LEMMA PopFrontHolds ==
  ASSUME NEW a, NEW s, Holds(a, s)
  PROVE  Holds(Tidy(dynamic_array_pop_front(a)), IF s = <<>> THEN s ELSE Tail(s))
<1> DEFINE b == [a EXCEPT !.start = Wrap(@ + 1, a.size), !.elements_count = @ - 1]
           t == Tail(s)
<1>1. Laid(a, s) /\ Roomy(a) BY DEF Holds
<1>2. a.size \in Nat \ {0} /\ a.elements_count \in Nat /\ Len(s) = a.elements_count /\ s \in Seq(Elements)
  BY <1>1, LaidGives
<1>3. CASE a.elements_count = 0
  <2>1. s = <<>> BY <1>2, <1>3
  <2>2. dynamic_array_pop_front(a) = a BY <1>3 DEF dynamic_array_pop_front
  <2> QED BY <2>1, <2>2, TidyHolds
<1>4. CASE a.elements_count # 0
  <2>1. s # <<>> /\ a.elements_count > 0 BY <1>2, <1>4
  <2>2. Laid(b, t) /\ b.size = a.size /\ b.elements_count = a.elements_count - 1 BY <1>1, <2>1, PoppedFront
  <2>3. dynamic_array_pop_front(a) = ShrunkIfSparse(b) BY <1>4 DEF dynamic_array_pop_front
  <2>4. PICK k \in Nat : a.size = bit(k) BY <1>1 DEF Roomy
  <2> HIDE DEF b, t
  <2>5. b.elements_count < b.size /\ (b.size = 1 \/ 4 * (b.elements_count + 1) >= b.size)
    BY <1>1, <1>2, <2>2 DEF Roomy
  <2>6. Holds(Tidy(ShrunkIfSparse(b)), t) BY <2>2, <2>4, <2>5, ShrunkHolds
  <2> QED BY <2>1, <2>3, <2>6 DEF t
<1> QED BY <1>3, <1>4

LEMMA EmptyHolds == Holds(Empty, <<>>)
<1>1. Empty.size = 1 /\ Empty.elements_count = 0 BY DEF Empty
<1> QED BY <1>1, EmptyLaid, Bits DEF Holds, Roomy

LEMMA ElementsAre ==
  ASSUME NEW a, NEW s, Laid(a, s)
  PROVE  ElementsOf(a) = s
<1>1. /\ s \in Seq(Elements) /\ Len(s) = a.elements_count /\ a.elements_count \in Nat /\ a.start \in Int
      /\ \A i \in 1 .. a.elements_count : a.buffer[Wrap(a.start + i, a.size)] = s[i]
  BY LaidGives
<1>2. ASSUME NEW i \in 1 .. a.elements_count PROVE dynamic_array_get_by_index(a, i - 1) = s[i]
  <2>1. a.start + (i - 1) + 1 = a.start + i BY <1>1
  <2> QED BY <1>1, <2>1 DEF dynamic_array_get_by_index
<1>3. s = [i \in 1 .. Len(s) |-> s[i]] BY <1>1
<1> QED BY <1>1, <1>2, <1>3 DEF ElementsOf

---------------------------------------------------------------------------
(* Sorting: the elements in another order.                                 *)

Shuffle(s, t) == \E p \in Bijection(1 .. Len(s), 1 .. Len(s)) : t = Shuffled(s, p)

LEMMA BijectionIs ==
  ASSUME NEW n \in Nat, NEW p
  PROVE  p \in Bijection(1 .. n, 1 .. n) <=>
           /\ p \in [1 .. n -> 1 .. n]
           /\ \A i, j \in 1 .. n : p[i] = p[j] => i = j
           /\ \A k \in 1 .. n : \E i \in 1 .. n : p[i] = k
BY DEF Bijection, Injection, Surjection, IsInjective

LEMMA ShuffleItself ==
  ASSUME NEW s \in Seq(Elements)
  PROVE  Shuffle(s, s)
<1> DEFINE n == Len(s)
           p == [i \in 1 .. n |-> i]
<1>1. n \in Nat /\ s = [i \in 1 .. n |-> s[i]] OBVIOUS
<1>2. p \in Bijection(1 .. n, 1 .. n)
  <2>1. p \in [1 .. n -> 1 .. n] /\ (\A i, j \in 1 .. n : p[i] = p[j] => i = j)
        /\ \A k \in 1 .. n : \E i \in 1 .. n : p[i] = k
    OBVIOUS
  <2> HIDE DEF p, n
  <2> QED BY <1>1, <2>1, BijectionIs
<1>3. Shuffled(s, p) = s BY <1>1 DEF Shuffled
<1> HIDE DEF p
<1> QED BY <1>2, <1>3 DEF Shuffle

LEMMA ShuffleSeq ==
  ASSUME NEW s \in Seq(Elements), NEW t, Shuffle(s, t)
  PROVE  t \in Seq(Elements) /\ Len(t) = Len(s)
<1>1. PICK p \in Bijection(1 .. Len(s), 1 .. Len(s)) : t = Shuffled(s, p) BY DEF Shuffle
<1>2. Len(s) \in Nat OBVIOUS
<1>3. p \in [1 .. Len(s) -> 1 .. Len(s)] BY <1>1, <1>2, BijectionIs
<1>4. t = [i \in 1 .. Len(s) |-> s[p[i]]] BY <1>1 DEF Shuffled
<1>5. \A i \in 1 .. Len(s) : s[p[i]] \in Elements BY <1>3
<1> QED BY <1>2, <1>4, <1>5

\* Two elements exchanged.
Exchange(t, i, j) == [t EXCEPT ![i] = t[j], ![j] = t[i]]

LEMMA ShuffleExchange ==
  ASSUME NEW s \in Seq(Elements), NEW t, Shuffle(s, t), NEW i \in 1 .. Len(s), NEW j \in 1 .. Len(s), i # j
  PROVE  Shuffle(s, Exchange(t, i, j))
<1> DEFINE n == Len(s)
<1>1. PICK p \in Bijection(1 .. n, 1 .. n) : t = Shuffled(s, p) BY DEF Shuffle
<1>2. n \in Nat /\ i \in 1 .. n /\ j \in 1 .. n OBVIOUS
<1> HIDE DEF n
<1>3. /\ p \in [1 .. n -> 1 .. n]
      /\ \A k, m \in 1 .. n : p[k] = p[m] => k = m
      /\ \A k \in 1 .. n : \E m \in 1 .. n : p[m] = k
  BY <1>1, <1>2, BijectionIs
<1> DEFINE q == [k \in 1 .. n |-> IF k = i THEN p[j] ELSE IF k = j THEN p[i] ELSE p[k]]
<1>4. q \in [1 .. n -> 1 .. n] BY <1>2, <1>3
<1>5. \A k, m \in 1 .. n : q[k] = q[m] => k = m BY <1>2, <1>3
<1>6. ASSUME NEW k \in 1 .. n PROVE \E m \in 1 .. n : q[m] = k
  <2>1. PICK m \in 1 .. n : p[m] = k BY <1>3
  <2>2. CASE m = i
    <3>1. q[j] = k BY <1>2, <2>1, <2>2
    <3> QED BY <1>2, <3>1
  <2>3. CASE m = j
    <3>1. q[i] = k BY <1>2, <2>1, <2>3
    <3> QED BY <1>2, <3>1
  <2>4. CASE m # i /\ m # j
    <3>1. q[m] = k BY <2>1, <2>4
    <3> QED BY <3>1
  <2> QED BY <2>2, <2>3, <2>4
<1>7. q \in Bijection(1 .. n, 1 .. n)
  <2> HIDE DEF q
  <2> QED BY <1>2, <1>4, <1>5, <1>6, BijectionIs
<1>8. Exchange(t, i, j) = Shuffled(s, q)
  <2>1. t = [k \in 1 .. n |-> s[p[k]]] BY <1>1 DEF Shuffled, n
  <2>2. Shuffled(s, q) = [k \in 1 .. n |-> s[q[k]]] BY DEF Shuffled, n
  <2>3. \A k \in 1 .. n : Exchange(t, i, j)[k] = s[q[k]] BY <1>2, <2>1 DEF Exchange
  <2>4. Exchange(t, i, j) = [k \in 1 .. n |-> Exchange(t, i, j)[k]]
    <3> DEFINE e == [t EXCEPT ![i] = t[j], ![j] = t[i]]
    <3>1. DOMAIN t = 1 .. n BY <2>1
    <3>2. DOMAIN e = 1 .. n /\ e = [k \in DOMAIN e |-> e[k]] BY <3>1
    <3> HIDE DEF e
    <3>3. e = [k \in 1 .. n |-> e[k]] BY <3>2
    <3> QED BY <3>3 DEF e, Exchange
  <2> HIDE DEF q
  <2> QED BY <2>2, <2>3, <2>4
<1> HIDE DEF q
<1> QED BY <1>7, <1>8 DEF Shuffle, n

\* Of two shuffles in order neither has the smaller element in any place: the
\* elements up to it would have to be among fewer.
LEMMA NotSmaller ==
  ASSUME NEW s \in Seq(Elements), NEW t, NEW u, Shuffle(s, t), Shuffle(s, u), InOrder(t), InOrder(u),
         NEW i \in 1 .. Len(s)
  PROVE  t[i] >= u[i]
<1> DEFINE n == Len(s)
<1>1. n \in Nat /\ i \in 1 .. n OBVIOUS
<1>2. PICK p \in Bijection(1 .. n, 1 .. n) : t = Shuffled(s, p) BY DEF Shuffle
<1>3. PICK r \in Bijection(1 .. n, 1 .. n) : u = Shuffled(s, r) BY DEF Shuffle
<1>4. /\ t \in Seq(Elements) /\ Len(t) = n /\ u \in Seq(Elements) /\ Len(u) = n /\ Elements \subseteq Int
  BY ShuffleSeq, DynamicArrayAssumption
<1> HIDE DEF n
<1>5. /\ p \in [1 .. n -> 1 .. n] /\ r \in [1 .. n -> 1 .. n]
      /\ \A k, m \in 1 .. n : p[k] = p[m] => k = m
      /\ \A k \in 1 .. n : \E m \in 1 .. n : r[m] = k
  BY <1>1, <1>2, <1>3, BijectionIs
<1>6. /\ \A k \in 1 .. n : t[k] = s[p[k]] /\ u[k] = s[r[k]]
      /\ \A k \in 1 .. n : t[k] \in Int /\ u[k] \in Int
  <2>1. t = [k \in 1 .. n |-> s[p[k]]] /\ u = [k \in 1 .. n |-> s[r[k]]] BY <1>2, <1>3 DEF Shuffled, n
  <2>2. \A k \in 1 .. n : t[k] = s[p[k]] /\ u[k] = s[r[k]] BY <2>1
  <2>3. \A k \in 1 .. n : t[k] \in Elements /\ u[k] \in Elements BY <1>4
  <2> QED BY <1>4, <2>2, <2>3
<1> DEFINE q == [k \in 1 .. i |-> CHOOSE m \in 1 .. n : r[m] = p[k]]
<1>7. ASSUME NEW k \in 1 .. i PROVE q[k] \in 1 .. n /\ r[q[k]] = p[k] /\ k \in 1 .. n
  <2>1. k \in 1 .. n BY <1>1
  <2>2. p[k] \in 1 .. n BY <1>5, <2>1
  <2>3. \E m \in 1 .. n : r[m] = p[k] BY <1>5, <2>2
  <2> QED BY <2>1, <2>3
<1> HIDE DEF q
<1> SUFFICES ASSUME t[i] < u[i] PROVE FALSE BY <1>1, <1>6
<1>8. ASSUME NEW k \in 1 .. i PROVE q[k] \in 1 .. i - 1
  <2>0. q[k] \in 1 .. n /\ r[q[k]] = p[k] /\ k \in 1 .. n BY <1>7
  <2>1. q[k] \in 1 .. n /\ u[q[k]] = t[k] /\ k \in 1 .. n
    <3>1. u[q[k]] = s[r[q[k]]] /\ t[k] = s[p[k]] BY <1>6, <2>0
    <3> QED BY <2>0, <3>1
  <2>2. t[k] <= t[i]
    <3>1. CASE k = i BY <1>1, <1>6, <3>1
    <3>2. CASE k < i BY <1>1, <1>4, <2>1, <3>2 DEF InOrder
    <3> QED BY <1>1, <3>1, <3>2
  <2>3. ASSUME q[k] >= i PROVE FALSE
    <3>1. u[i] <= u[q[k]]
      <4>1. CASE q[k] = i BY <1>1, <1>6, <4>1
      <4>2. CASE i < q[k] BY <1>1, <1>4, <2>1, <4>2 DEF InOrder
      <4> QED BY <1>1, <2>1, <2>3, <4>1, <4>2
    <3> QED BY <1>1, <1>6, <2>1, <2>2, <3>1
  <2> QED BY <1>1, <2>1, <2>3
<1>9. PICK x, y \in 1 .. i : x # y /\ q[x] = q[y]
  <2>1. IsFiniteSet(1 .. i) /\ Cardinality(1 .. i) = i /\ IsFiniteSet(1 .. i - 1)
        /\ Cardinality(1 .. i - 1) = i - 1
    BY <1>1, FS_Interval
  <2>2. q \in [1 .. i -> 1 .. i - 1] BY <1>8 DEF q
  <2>3. i - 1 < i BY <1>1
  <2> QED BY <2>1, <2>2, <2>3, FS_PigeonHole
<1>10. p[x] = p[y] BY <1>7, <1>9
<1> QED BY <1>5, <1>7, <1>9, <1>10

LEMMA SortedIs ==
  ASSUME NEW s \in Seq(Elements), NEW t, Shuffle(s, t), InOrder(t)
  PROVE  Sorted(s) = t
<1> DEFINE S == {Shuffled(s, p) : p \in Bijection(1 .. Len(s), 1 .. Len(s))}
<1>1. \A u : u \in S <=> Shuffle(s, u) BY DEF Shuffle
<1>2. ASSUME NEW u \in S, InOrder(u) PROVE u = t
  <2>1. Shuffle(s, u) BY <1>1
  <2>2. /\ t \in Seq(Elements) /\ Len(t) = Len(s) /\ u \in Seq(Elements) /\ Len(u) = Len(s)
        /\ Elements \subseteq Int
    BY <2>1, ShuffleSeq, DynamicArrayAssumption
  <2>3. ASSUME NEW i \in 1 .. Len(s) PROVE u[i] = t[i]
    <3>1. t[i] >= u[i] BY <1>2, <2>1, NotSmaller
    <3>2. u[i] >= t[i] BY <1>2, <2>1, NotSmaller
    <3>3. t[i] \in Elements /\ u[i] \in Elements BY <2>2
    <3>4. t[i] \in Int /\ u[i] \in Int BY <2>2, <3>3
    <3> QED BY ONLY <3>1, <3>2, <3>4
  <2> QED BY <2>2, <2>3
<1> HIDE DEF S
<1>3. (CHOOSE u \in S : InOrder(u)) = t BY <1>1, <1>2
<1> QED BY <1>3 DEF Sorted, S

LEMMA MemswapLaid ==
  ASSUME NEW a, NEW t, Laid(a, t), NEW l \in Int, NEW r \in Int, 0 <= l, l < r, r < a.elements_count
  PROVE  LET b == memswap(a, l, r)
         IN  Laid(b, Exchange(t, l + 1, r + 1)) /\ b.size = a.size /\ b.elements_count = a.elements_count
<1> DEFINE n == a.size
           count == a.elements_count
           at(i) == Wrap(a.start + i, n)
           buffer == [c \in Cells(n) |-> IF c = at(l + 1) THEN t[r + 1] ELSE IF c = at(r + 1) THEN t[l + 1]
                                         ELSE a.buffer[c]]
           b == memswap(a, l, r)
           u == Exchange(t, l + 1, r + 1)
<1>1. /\ a = [size |-> a.size, start |-> a.start, end |-> a.end,
              elements_count |-> a.elements_count, buffer |-> a.buffer]
      /\ a.size \in Nat \ {0} /\ a.start \in Int /\ 0 <= a.start /\ a.start < a.size
      /\ a.start \in Cells(a.size)
      /\ a.elements_count \in 0 .. a.size /\ a.elements_count \in Nat
      /\ a.buffer \in [Cells(a.size) -> Values]
      /\ t \in Seq(Elements) /\ Len(t) = a.elements_count
      /\ a.end = Wrap(a.start + a.elements_count + 1, a.size) /\ a.end \in Cells(a.size)
      /\ \A i \in 1 .. a.elements_count : a.buffer[Wrap(a.start + i, a.size)] = t[i]
  BY LaidGives
<1>2. l + 1 \in 1 .. count /\ r + 1 \in 1 .. count BY <1>1
<1>3. b = [a EXCEPT !.buffer = buffer]
  <2>1. a.start + l + 1 = a.start + (l + 1) /\ a.start + r + 1 = a.start + (r + 1) BY <1>1
  <2>2. a.buffer[at(l + 1)] = t[l + 1] /\ a.buffer[at(r + 1)] = t[r + 1] BY <1>1, <1>2
  <2>3. dynamic_array_get_by_index(a, r) = t[r + 1] /\ dynamic_array_get_by_index(a, l) = t[l + 1]
    BY <2>1, <2>2 DEF dynamic_array_get_by_index
  <2> QED BY <2>1, <2>3 DEF memswap
<1>4. buffer \in [Cells(n) -> Values] BY <1>1, <1>2 DEF Values
<1>5. u \in Seq(Elements) /\ Len(u) = count
      /\ \A i \in 1 .. count : u[i] = IF i = r + 1 THEN t[l + 1] ELSE IF i = l + 1 THEN t[r + 1] ELSE t[i]
  BY <1>1, <1>2 DEF Exchange
<1>6. ASSUME NEW i \in 1 .. count PROVE buffer[at(i)] = u[i]
  <2>1. at(i) \in Cells(n)
    <3>1. a.start + i \in Int /\ -1 <= a.start + i /\ a.start + i <= 2 * n BY <1>1
    <3> QED BY <1>1, <3>1, WrapIs
  <2>2. ASSUME NEW j \in 1 .. count, NEW k \in 1 .. count, j < k PROVE at(j) # at(k)
    <3>1. j \in 0 .. n /\ k \in 0 .. n /\ k - j < n BY <1>1
    <3> QED BY <1>1, <2>2, <3>1, WrapApart
  <2>3. ASSUME NEW j \in 1 .. count, i # j PROVE at(i) # at(j)
    <3>1. i < j \/ j < i BY <1>1, <2>3
    <3> QED BY <2>2, <3>1
  <2>4. a.buffer[at(i)] = t[i] BY <1>1
  <2>5. l + 1 # r + 1 OBVIOUS
  <2>6. (at(i) = at(l + 1) <=> i = l + 1) /\ (at(i) = at(r + 1) <=> i = r + 1) BY <1>2, <2>3
  <2> HIDE DEF at, u
  <2> QED BY <1>5, <2>1, <2>4, <2>5, <2>6
<1> HIDE DEF b, buffer, u
<1>7. b = [size |-> n, start |-> a.start, end |-> a.end, elements_count |-> count, buffer |-> buffer]
  BY <1>1, <1>3
<1>8. Laid(b, u) BY ONLY <1>1, <1>4, <1>5, <1>6, <1>7, LaidIf
<1> QED BY <1>7, <1>8 DEF b, u

---------------------------------------------------------------------------
(* The inductive invariant.  The frames are the calls still to be made and *)
(* the one in its loop: two elements are in order unless they lie in the   *)
(* same frame.                                                             *)

Loops == [l_index : Int, r_index : Int, l : Int, r : Int, mid_value : Int, scan : {"left", "right"}]

Frames(c, x) == IF x = None THEN c ELSE <<<<x.l_index, x.r_index>>>> \o c

Within(i, f) == f[1] <= i /\ i <= f[2]

Before(f, g) == f[2] < g[1]

Apart(F, n) ==
  /\ \A k \in 1 .. Len(F) : 0 <= F[k][1] /\ F[k][2] < n
  /\ \A j, k \in 1 .. Len(F) : j = k \/ Before(F[j], F[k]) \/ Before(F[k], F[j])

OrderedBut(t, F) ==
  \A i, j \in 1 .. Len(t) :
    i < j => t[i] <= t[j] \/ \E k \in 1 .. Len(F) : Within(i - 1, F[k]) /\ Within(j - 1, F[k])

\* Each scan will meet an element that stops it before it leaves the frame.
Partitioned(t, x) ==
  /\ x.l_index <= x.l /\ x.l <= x.r_index /\ x.l_index <= x.r /\ x.r <= x.r_index
  /\ \A i \in x.l_index .. x.l - 1 : t[i + 1] <= x.mid_value
  /\ \A i \in x.r + 1 .. x.r_index : t[i + 1] >= x.mid_value
  /\ \E i \in x.l_index .. x.r : t[i + 1] <= x.mid_value
  /\ x.scan = "left" => \E i \in x.l .. x.r_index : t[i + 1] >= x.mid_value
  /\ x.scan = "right" => t[x.l + 1] >= x.mid_value

Consistent(t, s, c, x) ==
  /\ s \in Seq(Elements) /\ c \in Seq(Int \X Int) /\ (x = None \/ x \in Loops)
  /\ Shuffle(s, t)
  /\ Apart(Frames(c, x), Len(t))
  /\ IF c = <<>> /\ x = None THEN t = s ELSE OrderedBut(t, Frames(c, x))
  /\ x # None => Partitioned(t, x)

ArrayInv == \E t : Holds(array, t) /\ Consistent(t, items, calls, sorting)

LEMMA NoLoop == None \notin Loops
<1>1. None.scan = "none" BY DEF None
<1>2. \A x \in Loops : x.scan # "none" BY DEF Loops
<1> QED BY <1>1, <1>2

LEMMA AtIs ==
  ASSUME NEW t, Laid(array, t), NEW i \in Int, 0 <= i, i < array.elements_count
  PROVE  At(i) = t[i + 1] /\ At(i) \in Int
<1>1. /\ array.buffer[Wrap(array.start + (i + 1), array.size)] = t[i + 1] /\ t[i + 1] \in Elements
      /\ array.start \in Int
  <2>1. /\ t \in Seq(Elements) /\ Len(t) = array.elements_count /\ array.elements_count \in Nat
        /\ array.start \in Int
        /\ \A j \in 1 .. array.elements_count : array.buffer[Wrap(array.start + j, array.size)] = t[j]
    BY LaidGives
  <2>2. i + 1 \in 1 .. array.elements_count BY <2>1
  <2> QED BY <2>1, <2>2
<1>2. array.start + i + 1 = array.start + (i + 1) BY <1>1
<1> QED BY <1>1, <1>2, DynamicArrayAssumption DEF At, dynamic_array_get_by_index

LEMMA IdleConsistent ==
  ASSUME NEW s \in Seq(Elements)
  PROVE  Consistent(s, s, <<>>, None)
<1>1. Frames(<<>>, None) = <<>> /\ Len(<<>>) = 0 BY DEF Frames
<1>2. Apart(Frames(<<>>, None), Len(s)) BY <1>1 DEF Apart
<1> QED BY <1>2, ShuffleItself DEF Consistent

LEMMA IdleHolds ==
  ASSUME ArrayInv, Idle
  PROVE  Holds(array, items) /\ items \in Seq(Elements)
<1>1. PICK t : Holds(array, t) /\ Consistent(t, items, calls, sorting) BY DEF ArrayInv
<1>2. t = items BY <1>1 DEF Consistent, Idle
<1> QED BY <1>1, <1>2 DEF Consistent

LEMMA ArrayInvInit == ArrayInit => ArrayInv
<1> SUFFICES ASSUME ArrayInit PROVE ArrayInv OBVIOUS
<1>1. Consistent(<<>>, <<>>, <<>>, None)
  <2>1. <<>> \in Seq(Elements) OBVIOUS
  <2> QED BY <2>1, IdleConsistent
<1> QED BY <1>1, EmptyHolds DEF ArrayInit, ArrayInv

\* An operation between the sorts.
LEMMA IdleNext ==
  ASSUME ArrayInv, Idle, UNCHANGED <<calls, sorting>>, Holds(array', items')
  PROVE  ArrayInv'
<1>1. items' \in Seq(Elements) BY DEF Holds, Laid
<1>2. calls' = <<>> /\ sorting' = None BY DEF Idle
<1>3. Consistent(items', items', <<>>, None) BY <1>1, IdleConsistent
<1> QED BY <1>2, <1>3 DEF ArrayInv

LEMMA PushBackNext == ASSUME ArrayInv, NEW e \in Elements, PushBack(e) PROVE ArrayInv'
<1>1. Holds(array, items) BY IdleHolds DEF PushBack
<1>2. Holds(array', items') BY <1>1, PushBackHolds DEF PushBack
<1> QED BY <1>2, IdleNext DEF PushBack

LEMMA PushFrontNext == ASSUME ArrayInv, NEW e \in Elements, PushFront(e) PROVE ArrayInv'
<1>1. Holds(array, items) BY IdleHolds DEF PushFront
<1>2. Holds(array', items') BY <1>1, PushFrontHolds DEF PushFront
<1> QED BY <1>2, IdleNext DEF PushFront

LEMMA PopBackNext == ASSUME ArrayInv, PopBack PROVE ArrayInv'
<1>1. Holds(array, items) BY IdleHolds DEF PopBack
<1>2. Holds(array', items') BY <1>1, PopBackHolds DEF PopBack
<1> QED BY <1>2, IdleNext DEF PopBack

LEMMA PopFrontNext == ASSUME ArrayInv, PopFront PROVE ArrayInv'
<1>1. Holds(array, items) BY IdleHolds DEF PopFront
<1>2. Holds(array', items') BY <1>1, PopFrontHolds DEF PopFront
<1> QED BY <1>2, IdleNext DEF PopFront

LEMMA ClearNext == ASSUME ArrayInv, Clear PROVE ArrayInv'
<1>1. Holds(array, items) BY IdleHolds DEF Clear
<1>2. Holds(array', items')
  <2>1. CASE array.elements_count = 0
    <3>1. items = <<>>
      <4>1. items \in Seq(Elements) /\ Len(items) = array.elements_count BY <1>1 DEF Holds, Laid
      <4> QED BY <2>1, <4>1
    <3> QED BY <1>1, <2>1, <3>1 DEF Clear
  <2>2. CASE array.elements_count # 0 BY <2>2, EmptyHolds DEF Clear
  <2> QED BY <2>1, <2>2
<1> QED BY <1>2, IdleNext DEF Clear

LEMMA SortStarts == ASSUME ArrayInv, dynamic_array_quicksort PROVE ArrayInv'
<1> DEFINE n == array.elements_count
           c == <<<<0, n - 1>>>>
<1>1. Holds(array, items) /\ items \in Seq(Elements) BY IdleHolds DEF dynamic_array_quicksort
<1>2. Len(items) = n /\ n \in Nat BY <1>1 DEF Holds, Laid, Ring, Arrays
<1>3. /\ calls' = c /\ sorting' = None /\ UNCHANGED <<array, items>>
  BY DEF dynamic_array_quicksort, Idle
<1> HIDE DEF n
<1>4. /\ c \in Seq(Int \X Int) /\ Len(c) = 1 /\ c # <<>> /\ c[1] = <<0, n - 1>>
      /\ Frames(c, None) = c
  BY <1>2 DEF Frames
<1>5. Apart(c, n) BY <1>2, <1>4 DEF Apart, Before
<1>6. OrderedBut(items, c)
  <2>1. ASSUME NEW i \in 1 .. Len(items), NEW j \in 1 .. Len(items)
        PROVE  Within(i - 1, c[1]) /\ Within(j - 1, c[1]) /\ 1 \in 1 .. Len(c)
    BY <1>2, <1>4 DEF Within
  <2> HIDE DEF c
  <2> QED BY <2>1 DEF OrderedBut
<1> HIDE DEF c
<1>7. Consistent(items, items, c, None) BY <1>1, <1>2, <1>4, <1>5, <1>6, ShuffleItself DEF Consistent
<1> QED BY <1>1, <1>3, <1>7 DEF ArrayInv

\* What the steps of a sort start from.
LEMMA SortFacts ==
  ASSUME NEW t, Holds(array, t), Consistent(t, items, calls, sorting)
  PROVE  /\ Laid(array, t) /\ t \in Seq(Elements) /\ Len(t) = array.elements_count
         /\ array.elements_count \in Nat
         /\ \A i \in 1 .. Len(t) : t[i] \in Int
         /\ sorting # None =>
              /\ sorting \in Loops
              /\ 0 <= sorting.l_index /\ sorting.r_index < array.elements_count
<1>1. Laid(array, t) BY DEF Holds
<1>2. t \in Seq(Elements) /\ Len(t) = array.elements_count /\ array.elements_count \in Nat
  BY <1>1, LaidGives
<1>3. \A i \in 1 .. Len(t) : t[i] \in Int
  <2>1. \A i \in 1 .. Len(t) : t[i] \in Elements BY <1>2
  <2> QED BY <2>1, DynamicArrayAssumption
<1>4. ASSUME sorting # None
      PROVE  /\ sorting \in Loops
             /\ 0 <= sorting.l_index /\ sorting.r_index < array.elements_count
  <2> DEFINE f == <<sorting.l_index, sorting.r_index>>
             F == <<f>> \o calls
  <2>1. sorting \in Loops /\ calls \in Seq(Int \X Int) /\ Apart(F, Len(t))
    BY <1>4 DEF Consistent, Frames
  <2>2. f \in Int \X Int BY <2>1 DEF Loops
  <2> HIDE DEF f
  <2>3. 1 \in 1 .. Len(F) /\ F[1] = f BY <2>1, <2>2
  <2> HIDE DEF F
  <2>4. 0 <= f[1] /\ f[2] < Len(t) BY <2>1, <2>3 DEF Apart
  <2> QED BY <1>2, <2>1, <2>4 DEF f
<1> QED BY <1>1, <1>2, <1>3, <1>4

LEMMA CalledNext == ASSUME ArrayInv, Called PROVE ArrayInv'
<1> DEFINE lo == calls[1][1]
           hi == calls[1][2]
           n == Len(items)
<1>1. PICK t : Holds(array, t) /\ Consistent(t, items, calls, sorting) BY DEF ArrayInv
<1>2. /\ Laid(array, t) /\ t \in Seq(Elements) /\ Len(t) = array.elements_count
      /\ array.elements_count \in Nat /\ \A i \in 1 .. Len(t) : t[i] \in Int
  BY <1>1, SortFacts
<1>3. /\ calls # <<>> /\ sorting = None /\ calls' = Tail(calls) /\ array' = array BY DEF Called
<1>4. /\ items \in Seq(Elements) /\ calls \in Seq(Int \X Int) /\ Shuffle(items, t)
      /\ Apart(calls, Len(t)) /\ OrderedBut(t, calls)
  BY <1>1, <1>3 DEF Consistent, Frames
<1>5. /\ calls[1] \in Int \X Int /\ lo \in Int /\ hi \in Int /\ 1 \in 1 .. Len(calls) /\ Len(calls) \in Nat
      /\ calls[1] = <<lo, hi>>
  BY <1>3, <1>4
<1>6. 0 <= lo /\ hi < Len(t) BY <1>4, <1>5 DEF Apart
<1> DEFINE rest == Tail(calls)
<1>7. /\ rest \in Seq(Int \X Int) /\ Len(rest) = Len(calls) - 1
      /\ \A k \in 1 .. Len(rest) : rest[k] = calls[k + 1] /\ k + 1 \in 1 .. Len(calls)
  BY <1>3, <1>4
<1>8. CASE lo >= hi
  <2>1. sorting' = None /\ items' = IF Len(calls) = 1 THEN Sorted(items) ELSE items
    BY <1>3, <1>8 DEF Called
  <2> HIDE DEF rest, lo, hi
  <2>2. Apart(rest, Len(t))
    <3>1. ASSUME NEW k \in 1 .. Len(rest) PROVE 0 <= rest[k][1] /\ rest[k][2] < Len(t)
      BY <1>4, <1>7 DEF Apart
    <3>2. ASSUME NEW j \in 1 .. Len(rest), NEW k \in 1 .. Len(rest)
          PROVE  j = k \/ Before(rest[j], rest[k]) \/ Before(rest[k], rest[j])
      <4>1. j + 1 = k + 1 \/ Before(calls[j + 1], calls[k + 1]) \/ Before(calls[k + 1], calls[j + 1])
        BY <1>4, <1>7 DEF Apart
      <4>2. j + 1 = k + 1 => j = k OBVIOUS
      <4> QED BY <1>7, <4>1, <4>2
    <3> QED BY <3>1, <3>2 DEF Apart
  <2>3. OrderedBut(t, rest)
    <3>1. ASSUME NEW i \in 1 .. Len(t), NEW j \in 1 .. Len(t), i < j, ~ (t[i] <= t[j])
          PROVE  \E k \in 1 .. Len(rest) : Within(i - 1, rest[k]) /\ Within(j - 1, rest[k])
      <4>1. PICK k \in 1 .. Len(calls) : Within(i - 1, calls[k]) /\ Within(j - 1, calls[k])
        BY <1>4, <3>1 DEF OrderedBut
      <4>2. k # 1
        <5>1. ASSUME k = 1 PROVE FALSE
          <6>1. calls[k][1] = lo /\ calls[k][2] = hi BY <1>5, <5>1
          <6>2. lo <= i - 1 /\ i - 1 <= hi /\ lo <= j - 1 /\ j - 1 <= hi BY <4>1, <6>1 DEF Within
          <6> QED BY <1>2, <1>5, <1>8, <3>1, <6>2
        <5> QED BY <5>1
      <4>3. k - 1 \in 1 .. Len(rest) /\ k - 1 + 1 = k BY <1>5, <1>7, <4>2
      <4>4. rest[k - 1] = calls[k] BY <1>7, <4>3
      <4> QED BY <4>1, <4>3, <4>4
    <3> QED BY <3>1 DEF OrderedBut
  <2>4. CASE Len(calls) = 1
    <3>1. rest = <<>> BY <1>7, <2>4
    <3>2. InOrder(t)
      <4>1. Len(rest) = 0 BY <1>7, <2>4
      <4> QED BY <2>3, <4>1 DEF InOrder, OrderedBut
    <3>3. items' = t BY <1>4, <2>1, <2>4, <3>2, SortedIs
    <3>4. Consistent(t, t, <<>>, None) BY <1>2, IdleConsistent
    <3> QED BY <1>1, <1>3, <2>1, <3>1, <3>3, <3>4 DEF ArrayInv, rest
  <2>5. CASE Len(calls) # 1
    <3>1. rest # <<>> BY <1>5, <1>7, <2>5
    <3>2. Frames(rest, None) = rest BY DEF Frames
    <3>3. Consistent(t, items, rest, None) BY <1>4, <1>7, <2>2, <2>3, <3>1, <3>2 DEF Consistent
    <3> QED BY <1>1, <1>3, <2>1, <2>5, <3>3 DEF ArrayInv, rest
  <2> QED BY <2>4, <2>5
<1>9. CASE ~ (lo >= hi)
  <2>1. PICK m \in lo .. hi :
          sorting' = [l_index |-> lo, r_index |-> hi, l |-> lo, r |-> hi, mid_value |-> At(m), scan |-> "left"]
    BY <1>9 DEF Called
  <2>2. items' = items BY <1>9 DEF Called
  <2> DEFINE x == [l_index |-> lo, r_index |-> hi, l |-> lo, r |-> hi, mid_value |-> At(m), scan |-> "left"]
  <2>3. m \in Int /\ 0 <= m /\ m < array.elements_count /\ lo <= m /\ m <= hi BY <1>2, <1>5, <1>6
  <2>4. At(m) = t[m + 1] /\ At(m) \in Int BY <1>2, <2>3, AtIs
  <2> HIDE DEF rest, lo, hi
  <2>5. x \in Loops BY <1>5, <2>4 DEF Loops
  <2>6. x # None BY <2>5, NoLoop
  <2>7. Frames(rest, x) = calls
    <3>1. Frames(rest, x) = <<<<lo, hi>>>> \o rest BY <2>6 DEF Frames
    <3>2. calls = <<calls[1]>> \o Tail(calls) BY <1>3, <1>4
    <3> QED BY <1>5, <3>1, <3>2 DEF rest
  <2>8. Partitioned(t, x) BY <1>5, <1>9, <2>3, <2>4 DEF Partitioned
  <2> HIDE DEF x
  <2>9. Consistent(t, items, rest, x) BY <1>4, <1>7, <2>5, <2>6, <2>7, <2>8 DEF Consistent
  <2> QED BY <1>1, <1>3, <2>1, <2>2, <2>9 DEF ArrayInv, x, rest
<1> QED BY <1>8, <1>9

LEMMA ScanLeftNext == ASSUME ArrayInv, ScanLeft PROVE ArrayInv'
<1> DEFINE x == sorting
<1>1. PICK t : Holds(array, t) /\ Consistent(t, items, calls, sorting) BY DEF ArrayInv
<1>2. sorting # None BY DEF ScanLeft, None
<1>3. /\ Laid(array, t) /\ t \in Seq(Elements) /\ Len(t) = array.elements_count
      /\ array.elements_count \in Nat /\ \A i \in 1 .. Len(t) : t[i] \in Int
      /\ sorting \in Loops /\ 0 <= sorting.l_index /\ sorting.r_index < array.elements_count
  BY <1>1, <1>2, SortFacts
<1>4. Partitioned(t, sorting) BY <1>1, <1>2 DEF Consistent
<1>5. /\ x.l_index \in Int /\ x.r_index \in Int /\ x.l \in Int /\ x.r \in Int /\ x.mid_value \in Int
  BY <1>3 DEF Loops
<1>6. /\ x.l_index <= x.l /\ x.l <= x.r_index /\ x.l_index <= x.r /\ x.r <= x.r_index
      /\ \A i \in x.l_index .. x.l - 1 : t[i + 1] <= x.mid_value
      /\ \A i \in x.r + 1 .. x.r_index : t[i + 1] >= x.mid_value
      /\ \E i \in x.l_index .. x.r : t[i + 1] <= x.mid_value
      /\ \E i \in x.l .. x.r_index : t[i + 1] >= x.mid_value
      /\ x.scan = "left"
  BY <1>4 DEF Partitioned, ScanLeft
<1>7. At(x.l) = t[x.l + 1] /\ At(x.l) \in Int BY <1>3, <1>5, <1>6, AtIs
<1>8. ASSUME NEW y, y \in Loops, y.l_index = x.l_index, y.r_index = x.r_index, Partitioned(t, y),
             sorting' = y
      PROVE  ArrayInv'
  <2>1. y # None BY <1>8, NoLoop
  <2>2. Frames(calls, y) = Frames(calls, x) BY <1>2, <1>8, <2>1 DEF Frames
  <2>3. Consistent(t, items, calls, y) BY <1>1, <1>2, <1>8, <2>1, <2>2 DEF Consistent
  <2> QED BY <1>1, <1>8, <2>3 DEF ArrayInv, ScanLeft
<1>9. CASE At(x.l) < x.mid_value
  <2> DEFINE y == [x EXCEPT !.l = x.l + 1]
  <2>1. sorting' = y BY <1>9 DEF ScanLeft
  <2>2. y \in Loops BY <1>3, <1>5 DEF Loops
  <2>3. /\ y.l_index = x.l_index /\ y.r_index = x.r_index /\ y.l = x.l + 1 /\ y.r = x.r
        /\ y.mid_value = x.mid_value /\ y.scan = x.scan
    BY <1>3 DEF Loops
  <2> HIDE DEF y
  <2>4. PICK i \in x.l .. x.r_index : t[i + 1] >= x.mid_value BY <1>6
  <2>5. i \in x.l + 1 .. x.r_index
    <3>1. i # x.l BY <1>5, <1>7, <1>9, <2>4
    <3> QED BY <1>5, <3>1
  <2>6. x.l + 1 <= x.r_index BY <1>5, <2>5
  <2>7. \A j \in x.l_index .. x.l + 1 - 1 : t[j + 1] <= x.mid_value
    <3>1. ASSUME NEW j \in x.l_index .. x.l + 1 - 1 PROVE t[j + 1] <= x.mid_value
      <4>1. CASE j = x.l BY <1>5, <1>7, <1>9, <4>1
      <4>2. CASE j # x.l
        <5>1. j \in x.l_index .. x.l - 1 BY <1>5, <4>2
        <5> QED BY <1>6, <5>1
      <4> QED BY <4>1, <4>2
    <3> QED BY <3>1
  <2>8. x.l_index <= x.l + 1 BY <1>5, <1>6
  <2>9. \E j \in y.l .. y.r_index : t[j + 1] >= y.mid_value BY <2>3, <2>4, <2>5
  <2>10. y.scan # "right" BY <1>6, <2>3
  <2>11. /\ y.l_index <= y.l /\ y.l <= y.r_index /\ y.l_index <= y.r /\ y.r <= y.r_index
         /\ \A j \in y.l_index .. y.l - 1 : t[j + 1] <= y.mid_value
         /\ \A j \in y.r + 1 .. y.r_index : t[j + 1] >= y.mid_value
         /\ \E j \in y.l_index .. y.r : t[j + 1] <= y.mid_value
    <3> HIDE DEF x
    <3> QED BY <1>5, <1>6, <2>3, <2>6, <2>7, <2>8
  <2>12. Partitioned(t, y) BY <2>9, <2>10, <2>11 DEF Partitioned
  <2> QED BY <1>8, <2>1, <2>2, <2>3, <2>12
<1>10. CASE ~ (At(x.l) < x.mid_value)
  <2> DEFINE y == [x EXCEPT !.scan = "right"]
  <2>1. sorting' = y BY <1>10 DEF ScanLeft
  <2>2. y \in Loops BY <1>3 DEF Loops
  <2>3. /\ y.l_index = x.l_index /\ y.r_index = x.r_index /\ y.l = x.l /\ y.r = x.r
        /\ y.mid_value = x.mid_value /\ y.scan = "right"
    BY <1>3 DEF Loops
  <2> HIDE DEF y
  <2>4. t[x.l + 1] >= x.mid_value BY <1>5, <1>7, <1>10
  <2>5. Partitioned(t, y) BY <1>6, <2>3, <2>4 DEF Partitioned
  <2> QED BY <1>8, <2>1, <2>2, <2>3, <2>5
<1> QED BY <1>9, <1>10

LEMMA ScanRightNext == ASSUME ArrayInv, ScanRight PROVE ArrayInv'
<1> DEFINE x == sorting
           y == [x EXCEPT !.r = x.r - 1]
<1>1. PICK t : Holds(array, t) /\ Consistent(t, items, calls, sorting) BY DEF ArrayInv
<1>2. sorting # None BY DEF ScanRight, None
<1>3. /\ Laid(array, t) /\ t \in Seq(Elements) /\ Len(t) = array.elements_count
      /\ array.elements_count \in Nat /\ \A i \in 1 .. Len(t) : t[i] \in Int
      /\ sorting \in Loops /\ 0 <= sorting.l_index /\ sorting.r_index < array.elements_count
  BY <1>1, <1>2, SortFacts
<1>4. Partitioned(t, sorting) BY <1>1, <1>2 DEF Consistent
<1>5. /\ x.l_index \in Int /\ x.r_index \in Int /\ x.l \in Int /\ x.r \in Int /\ x.mid_value \in Int
  BY <1>3 DEF Loops
<1>6. /\ x.l_index <= x.l /\ x.l <= x.r_index /\ x.l_index <= x.r /\ x.r <= x.r_index
      /\ \A i \in x.l_index .. x.l - 1 : t[i + 1] <= x.mid_value
      /\ \A i \in x.r + 1 .. x.r_index : t[i + 1] >= x.mid_value
      /\ \E i \in x.l_index .. x.r : t[i + 1] <= x.mid_value
      /\ t[x.l + 1] >= x.mid_value
      /\ x.scan = "right"
  BY <1>4 DEF Partitioned, ScanRight
<1>7. At(x.r) = t[x.r + 1] /\ At(x.r) \in Int BY <1>3, <1>5, <1>6, AtIs
<1>8. At(x.r) > x.mid_value /\ sorting' = y BY DEF ScanRight
<1>9. y \in Loops BY <1>3, <1>5 DEF Loops
<1>10. /\ y.l_index = x.l_index /\ y.r_index = x.r_index /\ y.l = x.l /\ y.r = x.r - 1
       /\ y.mid_value = x.mid_value /\ y.scan = x.scan
  BY <1>3 DEF Loops
<1> HIDE DEF y
<1>11. PICK i \in x.l_index .. x.r : t[i + 1] <= x.mid_value BY <1>6
<1>12. i \in x.l_index .. x.r - 1
  <2>1. i # x.r BY <1>5, <1>7, <1>8, <1>11
  <2> QED BY <1>5, <2>1
<1>13. x.l_index <= x.r - 1 /\ x.r - 1 <= x.r_index BY <1>5, <1>6, <1>12
<1>14. \A j \in x.r - 1 + 1 .. x.r_index : t[j + 1] >= x.mid_value
  <2>1. ASSUME NEW j \in x.r - 1 + 1 .. x.r_index PROVE t[j + 1] >= x.mid_value
    <3>1. CASE j = x.r BY <1>5, <1>7, <1>8, <3>1
    <3>2. CASE j # x.r
      <4>1. j \in x.r + 1 .. x.r_index BY <1>5, <3>2
      <4> QED BY <1>6, <4>1
    <3> QED BY <3>1, <3>2
  <2> QED BY <2>1
<1>15. Partitioned(t, y) BY <1>6, <1>10, <1>11, <1>12, <1>13, <1>14 DEF Partitioned
<1>16. y # None BY <1>9, NoLoop
<1>17. Frames(calls, y) = Frames(calls, x) BY <1>2, <1>10, <1>16 DEF Frames
<1>18. Consistent(t, items, calls, y) BY <1>1, <1>2, <1>9, <1>15, <1>16, <1>17 DEF Consistent
<1> QED BY <1>1, <1>8, <1>18 DEF ArrayInv, ScanRight

LEMMA BeforeApart ==
  ASSUME NEW f, NEW g, f[1] \in Int, f[2] \in Int, g[1] \in Int, g[2] \in Int,
         Before(f, g) \/ Before(g, f), NEW h \in Int, Within(h, f)
  PROVE  ~ Within(h, g)
BY DEF Before, Within

\* An element of a frame and one outside it are in order.
LEMMA InOrderAcross ==
  ASSUME NEW t, NEW F, Apart(F, Len(t)), OrderedBut(t, F), F \in Seq(Int \X Int), NEW k \in 1 .. Len(F),
         NEW i \in 1 .. Len(t), NEW j \in 1 .. Len(t), i < j, ~ (Within(i - 1, F[k]) <=> Within(j - 1, F[k])),
         Len(t) \in Nat
  PROVE  t[i] <= t[j]
<1> SUFFICES ASSUME ~ (t[i] <= t[j]) PROVE FALSE OBVIOUS
<1>1. PICK m \in 1 .. Len(F) : Within(i - 1, F[m]) /\ Within(j - 1, F[m]) BY DEF OrderedBut
<1>2. m # k
  <2> SUFFICES ASSUME m = k PROVE FALSE OBVIOUS
  <2>1. Within(i - 1, F[k]) /\ Within(j - 1, F[k]) BY <1>1
  <2> QED BY <2>1
<1>3. Before(F[m], F[k]) \/ Before(F[k], F[m]) BY <1>2 DEF Apart
<1>4. /\ F[m][1] \in Int /\ F[m][2] \in Int /\ F[k][1] \in Int /\ F[k][2] \in Int
  <2>1. F[m] \in Int \X Int /\ F[k] \in Int \X Int OBVIOUS
  <2> QED BY <2>1
<1>5. ASSUME NEW h \in Int, Within(h, F[m]) PROVE ~ Within(h, F[k])
  BY <1>3, <1>4, <1>5, BeforeApart
<1>6. i - 1 \in Int /\ j - 1 \in Int OBVIOUS
<1>7. ~ Within(i - 1, F[k]) /\ ~ Within(j - 1, F[k]) BY <1>1, <1>5, <1>6
<1> QED BY <1>7

\* Elements may be exchanged inside a frame.
LEMMA ExchangeInside ==
  ASSUME NEW t \in Seq(Elements), NEW F \in Seq(Int \X Int), Apart(F, Len(t)), OrderedBut(t, F),
         NEW k \in 1 .. Len(F), NEW p \in 1 .. Len(t), NEW q \in 1 .. Len(t), p # q,
         Within(p - 1, F[k]), Within(q - 1, F[k])
  PROVE  OrderedBut(Exchange(t, p, q), F)
<1> DEFINE u == Exchange(t, p, q)
           n == Len(t)
           f == F[k]
<1>1. /\ n \in Nat /\ Len(u) = n
      /\ \A i \in 1 .. n : u[i] = IF i = q THEN t[p] ELSE IF i = p THEN t[q] ELSE t[i]
  BY DEF Exchange
<1>2. f[1] \in Int /\ f[2] \in Int
  <2>1. f \in Int \X Int OBVIOUS
  <2> QED BY <2>1
<1>3. f[1] <= p - 1 /\ p - 1 <= f[2] /\ f[1] <= q - 1 /\ q - 1 <= f[2] BY DEF Within
<1>0. n \in Nat /\ \A i \in 1 .. n : i \in Int BY <1>1
<1> HIDE DEF u, f, n
<1>4. ASSUME NEW i \in 1 .. n, NEW j \in 1 .. n, i < j
      PROVE  u[i] <= u[j] \/ \E m \in 1 .. Len(F) : Within(i - 1, F[m]) /\ Within(j - 1, F[m])
  <2>1. CASE Within(i - 1, f) /\ Within(j - 1, f) BY <2>1 DEF f
  <2>2. CASE ~ Within(i - 1, f) /\ ~ Within(j - 1, f)
    <3>1. i # p /\ i # q /\ j # p /\ j # q BY <1>2, <1>3, <2>2 DEF Within
    <3>2. u[i] = t[i] /\ u[j] = t[j] BY <1>1, <3>1
    <3> QED BY <1>4, <3>2 DEF OrderedBut, n
  <2>3. CASE Within(i - 1, f) /\ ~ Within(j - 1, f)
    <3>1. j # p /\ j # q /\ j - 1 > f[2] BY <1>0, <1>2, <1>3, <1>4, <2>3 DEF Within
    <3>2. PICK h \in 1 .. n : u[i] = t[h] /\ Within(h - 1, f)
      <4>1. p \in 1 .. n /\ q \in 1 .. n /\ Within(p - 1, f) /\ Within(q - 1, f) BY DEF n, f
      <4>2. CASE i = q BY <1>1, <4>1, <4>2
      <4>3. CASE i = p /\ i # q BY <1>1, <4>1, <4>3
      <4>4. CASE i # p /\ i # q BY <1>1, <2>3, <4>4
      <4> QED BY <4>2, <4>3, <4>4
    <3>3. h < j BY <1>0, <1>2, <3>1, <3>2 DEF Within
    <3>4. ~ (Within(h - 1, f) <=> Within(j - 1, f)) BY <2>3, <3>2
    <3>5. t[h] <= t[j] BY <1>1, <3>3, <3>4, InOrderAcross DEF f, n
    <3>6. u[j] = t[j] BY <1>1, <3>1
    <3> QED BY <3>2, <3>5, <3>6
  <2>4. CASE ~ Within(i - 1, f) /\ Within(j - 1, f)
    <3>1. i # p /\ i # q /\ i - 1 < f[1] BY <1>0, <1>2, <1>3, <1>4, <2>4 DEF Within
    <3>2. PICK h \in 1 .. n : u[j] = t[h] /\ Within(h - 1, f)
      <4>1. p \in 1 .. n /\ q \in 1 .. n /\ Within(p - 1, f) /\ Within(q - 1, f) BY DEF n, f
      <4>2. CASE j = q BY <1>1, <4>1, <4>2
      <4>3. CASE j = p /\ j # q BY <1>1, <4>1, <4>3
      <4>4. CASE j # p /\ j # q BY <1>1, <2>4, <4>4
      <4> QED BY <4>2, <4>3, <4>4
    <3>3. i < h
      <4>1. i \in Int /\ h \in Int BY <1>0
      <4>2. f[1] <= h - 1 BY <3>2 DEF Within
      <4> QED BY <1>2, <3>1, <4>1, <4>2
    <3>4. ~ (Within(i - 1, f) <=> Within(h - 1, f)) BY <2>4, <3>2
    <3>5. t[i] <= t[h] BY <1>1, <3>3, <3>4, InOrderAcross DEF f, n
    <3>6. u[i] = t[i] BY <1>1, <3>1
    <3> QED BY <3>2, <3>5, <3>6
  <2> QED BY <2>1, <2>2, <2>3, <2>4
<1>5. OrderedBut(u, F) BY <1>1, <1>4 DEF OrderedBut, n
<1> QED BY <1>5 DEF u

\* A frame whose elements are apart by value falls into two.
LEMMA SplitFrame ==
  ASSUME NEW t \in Seq(Elements), NEW c \in Seq(Int \X Int), NEW lo \in Int, NEW hi \in Int,
         NEW l \in Int, NEW r \in Int, NEW mid \in Int,
         Apart(<<<<lo, hi>>>> \o c, Len(t)), OrderedBut(t, <<<<lo, hi>>>> \o c),
         r < l, lo <= l, r <= hi,
         \A i \in lo .. l - 1 : t[i + 1] <= mid, \A i \in r + 1 .. hi : t[i + 1] >= mid
  PROVE  LET G == <<<<lo, r>>, <<l, hi>>>> \o c
         IN  G \in Seq(Int \X Int) /\ G # <<>> /\ Apart(G, Len(t)) /\ OrderedBut(t, G)
<1> DEFINE F == <<<<lo, hi>>>> \o c
           G == <<<<lo, r>>, <<l, hi>>>> \o c
           n == Len(t)
<1>1. /\ n \in Nat /\ \A i \in 1 .. n : t[i] \in Int
      /\ \A k \in 1 .. Len(c) : c[k] \in Int \X Int
  <2>1. \A i \in 1 .. n : t[i] \in Elements OBVIOUS
  <2>2. Elements \subseteq Int /\ n \in Nat BY DynamicArrayAssumption
  <2>3. \A k \in 1 .. Len(c) : c[k] \in Int \X Int OBVIOUS
  <2> HIDE DEF n
  <2> QED BY <2>1, <2>2, <2>3
<1>2. /\ F \in Seq(Int \X Int) /\ Len(F) = Len(c) + 1 /\ F[1] = <<lo, hi>>
      /\ \A k \in 2 .. Len(F) : F[k] = c[k - 1]
  OBVIOUS
<1>3. /\ G \in Seq(Int \X Int) /\ Len(G) = Len(c) + 2 /\ G[1] = <<lo, r>> /\ G[2] = <<l, hi>>
      /\ \A k \in 3 .. Len(G) : G[k] = c[k - 2]
  OBVIOUS
<1> HIDE DEF F, G
<1>4. Len(c) \in Nat /\ Len(F) \in Nat /\ Len(G) \in Nat /\ Len(F) = Len(c) + 1 /\ Len(G) = Len(c) + 2
  BY <1>2, <1>3
<1>5. /\ F[1][1] = lo /\ F[1][2] = hi /\ G[1][1] = lo /\ G[1][2] = r /\ G[2][1] = l /\ G[2][2] = hi
  BY <1>2, <1>3
<1>6. \A k \in 3 .. Len(G) : k - 1 \in 2 .. Len(F) /\ G[k] = F[k - 1]
  <2>1. ASSUME NEW k \in 3 .. Len(G) PROVE k - 1 \in 2 .. Len(F) /\ G[k] = F[k - 1]
    <3>1. k - 1 \in 2 .. Len(F) /\ k - 1 - 1 = k - 2 BY <1>2, <1>3, <1>4
    <3> QED BY <1>2, <1>3, <3>1
  <2> QED BY <2>1
<1>7. Apart(F, n) /\ OrderedBut(t, F) BY DEF F
<1>8. 0 <= lo /\ hi < n /\ \A k \in 2 .. Len(F) : Before(F[1], F[k]) \/ Before(F[k], F[1])
  <2>1. 1 \in 1 .. Len(F) /\ \A k \in 2 .. Len(F) : k \in 1 .. Len(F) /\ k # 1 BY <1>2, <1>4
  <2>2. 0 <= F[1][1] /\ F[1][2] < n BY <1>7, <2>1 DEF Apart
  <2>3. ASSUME NEW k \in 2 .. Len(F) PROVE Before(F[1], F[k]) \/ Before(F[k], F[1])
    BY <1>7, <2>1 DEF Apart
  <2> QED BY <1>5, <2>2, <2>3
<1>9. \A k \in 2 .. Len(F) : F[k][1] \in Int /\ F[k][2] \in Int
  <2>1. ASSUME NEW k \in 2 .. Len(F) PROVE F[k][1] \in Int /\ F[k][2] \in Int
    <3>1. k \in 1 .. Len(F) BY <1>2, <1>4
    <3>2. F[k] \in Int \X Int BY <1>2, <3>1
    <3> QED BY <3>2
  <2> QED BY <2>1
<1>10. Apart(G, n)
  <2>1. ASSUME NEW k \in 1 .. Len(G) PROVE 0 <= G[k][1] /\ G[k][2] < n
    <3>1. CASE k = 1 BY <1>1, <1>3, <1>8, <3>1
    <3>2. CASE k = 2 BY <1>1, <1>3, <1>8, <3>2
    <3>3. CASE k \in 3 .. Len(G)
      <4>1. k - 1 \in 1 .. Len(F) /\ G[k] = F[k - 1] BY <1>4, <1>6, <3>3
      <4> QED BY <1>7, <4>1 DEF Apart
    <3> QED BY <1>3, <1>4, <3>1, <3>2, <3>3
  <2>2. Before(G[1], G[2]) BY <1>3 DEF Before
  <2>3. ASSUME NEW k \in 3 .. Len(G)
        PROVE  /\ Before(G[1], G[k]) \/ Before(G[k], G[1])
               /\ Before(G[2], G[k]) \/ Before(G[k], G[2])
    <3>1. Before(F[1], G[k]) \/ Before(G[k], F[1]) BY <1>6, <1>8
    <3>2. G[k][1] \in Int /\ G[k][2] \in Int BY <1>6, <1>9
    <3> QED BY <1>5, <3>1, <3>2 DEF Before
  <2>4. ASSUME NEW j \in 3 .. Len(G), NEW k \in 3 .. Len(G)
        PROVE  j = k \/ Before(G[j], G[k]) \/ Before(G[k], G[j])
    <3>1. j - 1 \in 1 .. Len(F) /\ k - 1 \in 1 .. Len(F) /\ (j - 1 = k - 1 => j = k) BY <1>4
    <3>2. j - 1 = k - 1 \/ Before(F[j - 1], F[k - 1]) \/ Before(F[k - 1], F[j - 1])
      BY <1>7, <3>1 DEF Apart
    <3> QED BY <1>6, <3>1, <3>2
  <2>5. ASSUME NEW j \in 1 .. Len(G), NEW k \in 1 .. Len(G)
        PROVE  j = k \/ Before(G[j], G[k]) \/ Before(G[k], G[j])
    <3>1. (j = 1 \/ j = 2 \/ j \in 3 .. Len(G)) /\ (k = 1 \/ k = 2 \/ k \in 3 .. Len(G)) BY <1>4
    <3> QED BY <2>2, <2>3, <2>4, <3>1
  <2> QED BY <2>1, <2>5 DEF Apart
<1>11. ASSUME NEW i \in 1 .. n, NEW j \in 1 .. n, i < j, ~ (t[i] <= t[j])
       PROVE  \E k \in 1 .. Len(G) : Within(i - 1, G[k]) /\ Within(j - 1, G[k])
  <2>1. PICK k \in 1 .. Len(F) : Within(i - 1, F[k]) /\ Within(j - 1, F[k])
    BY <1>7, <1>11 DEF OrderedBut
  <2>2. CASE k = 1
    <3>1. lo <= i - 1 /\ i - 1 <= hi /\ lo <= j - 1 /\ j - 1 <= hi BY <1>2, <2>1, <2>2 DEF Within
    <3>2. 1 \in 1 .. Len(G) /\ 2 \in 1 .. Len(G) BY <1>3, <1>4
    <3>3. CASE i - 1 >= l
      <4>1. Within(i - 1, G[2]) /\ Within(j - 1, G[2]) BY <1>1, <1>3, <1>11, <3>1, <3>3 DEF Within
      <4> QED BY <3>2, <4>1
    <3>4. CASE j - 1 <= r
      <4>1. Within(i - 1, G[1]) /\ Within(j - 1, G[1]) BY <1>1, <1>3, <1>11, <3>1, <3>4 DEF Within
      <4> QED BY <3>2, <4>1
    <3>5. CASE i - 1 < l /\ j - 1 > r
      <4>1. i - 1 \in lo .. l - 1 /\ j - 1 \in r + 1 .. hi /\ i - 1 + 1 = i /\ j - 1 + 1 = j
        BY <1>1, <3>1, <3>5
      <4>2. t[i] <= mid /\ t[j] >= mid
        <5>1. t[i - 1 + 1] <= mid /\ t[j - 1 + 1] >= mid BY <4>1
        <5> QED BY <4>1, <5>1
      <4> QED BY <1>1, <1>11, <4>2
    <3> QED BY <1>1, <3>3, <3>4, <3>5
  <2>3. CASE k # 1
    <3>1. k + 1 \in 3 .. Len(G) /\ k + 1 \in 1 .. Len(G) /\ k + 1 - 1 = k BY <1>2, <1>3, <1>4, <2>3
    <3>2. G[k + 1] = F[k] BY <1>6, <3>1
    <3> QED BY <2>1, <3>1, <3>2
  <2> QED BY <2>2, <2>3
<1>12. OrderedBut(t, G) BY <1>11 DEF OrderedBut
<1>13. G # <<>> BY <1>3, <1>4
<1> QED BY <1>3, <1>10, <1>12, <1>13 DEF G

LEMMA MeetNext == ASSUME ArrayInv, Meet PROVE ArrayInv'
<1> DEFINE x == sorting
           lo == x.l_index
           hi == x.r_index
           mid == x.mid_value
           f == <<lo, hi>>
           F == <<f>> \o calls
           met == x.l <= x.r
           l == IF met THEN x.l + 1 ELSE x.l
           r == IF met THEN x.r - 1 ELSE x.r
<1>1. PICK t : Holds(array, t) /\ Consistent(t, items, calls, sorting) BY DEF ArrayInv
<1>2. sorting # None BY DEF Meet, None
<1>3. /\ Laid(array, t) /\ t \in Seq(Elements) /\ Len(t) = array.elements_count
      /\ array.elements_count \in Nat /\ \A i \in 1 .. Len(t) : t[i] \in Int
      /\ sorting \in Loops /\ 0 <= sorting.l_index /\ sorting.r_index < array.elements_count
  BY <1>1, <1>2, SortFacts
<1>4. Partitioned(t, sorting) BY <1>1, <1>2 DEF Consistent
<1>5. lo \in Int /\ hi \in Int /\ x.l \in Int /\ x.r \in Int /\ mid \in Int BY <1>3 DEF Loops
<1>6. /\ lo <= x.l /\ x.l <= hi /\ lo <= x.r /\ x.r <= hi
      /\ \A i \in lo .. x.l - 1 : t[i + 1] <= mid
      /\ \A i \in x.r + 1 .. hi : t[i + 1] >= mid
      /\ t[x.l + 1] >= mid
      /\ x.scan = "right"
  BY <1>4 DEF Partitioned, Meet
<1>7. /\ items \in Seq(Elements) /\ calls \in Seq(Int \X Int) /\ Shuffle(items, t)
      /\ Apart(F, Len(t)) /\ OrderedBut(t, F)
  BY <1>1, <1>2 DEF Consistent, Frames
<1>8. At(x.r) = t[x.r + 1] /\ At(x.r) \in Int BY <1>3, <1>5, <1>6, AtIs
<1>9. t[x.r + 1] <= mid BY <1>5, <1>8 DEF Meet
<1>10. F \in Seq(Int \X Int) /\ 1 \in 1 .. Len(F) /\ F[1] = f
  <2>1. f \in Int \X Int BY <1>5
  <2> HIDE DEF f
  <2> QED BY <1>7, <2>1
<1> DEFINE u == IF x.l < x.r THEN Exchange(t, x.l + 1, x.r + 1) ELSE t
<1>11. Laid(array', u) /\ array'.size = array.size /\ array'.elements_count = array.elements_count
  <2>1. CASE x.l < x.r
    <3>1. array' = memswap(array, x.l, x.r) BY <2>1 DEF Meet, Exchanged
    <3>2. 0 <= x.l /\ x.r < array.elements_count BY <1>3, <1>5, <1>6
    <3> QED BY <1>3, <1>5, <2>1, <3>1, <3>2, MemswapLaid
  <2>2. CASE ~ (x.l < x.r)
    <3>1. array' = array BY <2>2 DEF Meet, Exchanged
    <3> QED BY <1>3, <2>2, <3>1
  <2> QED BY <2>1, <2>2
<1>12. Holds(array', u) BY <1>1, <1>11 DEF Holds, Roomy
<1>13. x.l + 1 \in 1 .. Len(t) /\ x.r + 1 \in 1 .. Len(t) BY <1>3, <1>5, <1>6
<1>14. /\ u \in Seq(Elements) /\ Len(u) = Len(t)
       /\ Shuffle(items, u) /\ OrderedBut(u, F)
  <2>1. CASE x.l < x.r
    <3>1. Len(items) = Len(t) BY <1>7, ShuffleSeq
    <3>2. x.l + 1 # x.r + 1 BY <1>5, <2>1
    <3>3. Shuffle(items, u) BY <1>7, <1>13, <2>1, <3>1, <3>2, ShuffleExchange
    <3> HIDE DEF F
    <3>4. OrderedBut(Exchange(t, x.l + 1, x.r + 1), F)
      <4> DEFINE p == x.l + 1
                 q == x.r + 1
      <4>1. p \in 1 .. Len(t) /\ q \in 1 .. Len(t) /\ p # q /\ Within(p - 1, F[1]) /\ Within(q - 1, F[1])
        <5>1. p - 1 = x.l /\ q - 1 = x.r BY <1>5
        <5>2. Within(x.l, F[1]) /\ Within(x.r, F[1]) BY <1>5, <1>6, <1>10 DEF Within
        <5>3. p \in 1 .. Len(t) /\ q \in 1 .. Len(t) /\ p # q BY <1>13, <3>2
        <5> HIDE DEF p, q
        <5> QED BY <5>1, <5>2, <5>3
      <4> HIDE DEF p, q
      <4>2. OrderedBut(Exchange(t, p, q), F) BY <1>3, <1>7, <1>10, <4>1, ExchangeInside
      <4> QED BY <4>2 DEF p, q
    <3>5. OrderedBut(u, F) BY <2>1, <3>4
    <3>6. u \in Seq(Elements) /\ Len(u) = Len(items) BY <1>7, <3>3, ShuffleSeq
    <3> QED BY <3>1, <3>3, <3>5, <3>6
  <2>2. CASE ~ (x.l < x.r) BY <1>3, <1>7, <2>2
  <2> QED BY <2>1, <2>2
<1>15. \A i \in 1 .. Len(t) : i # x.l + 1 /\ i # x.r + 1 => u[i] = t[i]
  <2>1. \A i \in 1 .. Len(t) : i # x.l + 1 /\ i # x.r + 1 => Exchange(t, x.l + 1, x.r + 1)[i] = t[i]
    BY <1>3, <1>13 DEF Exchange
  <2> QED BY <2>1
<1>16. x.l < x.r => u[x.l + 1] = t[x.r + 1] /\ u[x.r + 1] = t[x.l + 1]
  BY <1>3, <1>5, <1>13 DEF Exchange
<1>17. l \in Int /\ r \in Int /\ lo <= l /\ r <= hi BY <1>5, <1>6
<1>18. x.l = x.r => u = t BY <1>5
<1> HIDE DEF u
<1>19. \A i \in lo .. l - 1 : u[i + 1] <= mid
  <2>1. ASSUME NEW i \in lo .. l - 1 PROVE u[i + 1] <= mid
    <3>1. i + 1 \in 1 .. Len(t) /\ i \in Int BY <1>3, <1>5, <1>6, <1>17
    <3>2. CASE met /\ i = x.l
      <4>1. CASE x.l < x.r BY <1>9, <1>16, <3>2, <4>1
      <4>2. CASE x.l = x.r BY <1>9, <1>18, <3>2, <4>2
      <4> QED BY <1>5, <3>2, <4>1, <4>2
    <3>3. CASE ~ (met /\ i = x.l)
      <4>1. i \in lo .. x.l - 1 BY <1>5, <3>1, <3>3
      <4>2. t[i + 1] <= mid BY <1>6, <4>1
      <4>3. CASE met
        <5>1. i + 1 # x.l + 1 /\ i + 1 # x.r + 1 BY <1>5, <4>1, <4>3
        <5> QED BY <1>15, <3>1, <4>2, <5>1
      <4>4. CASE ~ met
        <5>1. u = t BY <1>5, <4>4 DEF u
        <5> QED BY <4>2, <5>1
      <4> QED BY <4>3, <4>4
    <3> QED BY <3>2, <3>3
  <2> QED BY <2>1
<1>20. \A i \in r + 1 .. hi : u[i + 1] >= mid
  <2>1. ASSUME NEW i \in r + 1 .. hi PROVE u[i + 1] >= mid
    <3>1. i + 1 \in 1 .. Len(t) /\ i \in Int BY <1>3, <1>5, <1>6, <1>17
    <3>2. CASE met /\ i = x.r
      <4>1. CASE x.l < x.r BY <1>6, <1>16, <3>2, <4>1
      <4>2. CASE x.l = x.r BY <1>6, <1>18, <3>2, <4>2
      <4> QED BY <1>5, <3>2, <4>1, <4>2
    <3>3. CASE ~ (met /\ i = x.r)
      <4>1. i \in x.r + 1 .. hi BY <1>5, <3>1, <3>3
      <4>2. t[i + 1] >= mid BY <1>6, <4>1
      <4>3. CASE met
        <5>1. i + 1 # x.l + 1 /\ i + 1 # x.r + 1 BY <1>5, <4>1, <4>3
        <5> QED BY <1>15, <3>1, <4>2, <5>1
      <4>4. CASE ~ met
        <5>1. u = t BY <1>5, <4>4 DEF u
        <5> QED BY <4>2, <5>1
      <4> QED BY <4>3, <4>4
    <3> QED BY <3>2, <3>3
  <2> QED BY <2>1
<1>21. CASE l <= r
  <2> DEFINE y == [x EXCEPT !.l = l, !.r = r, !.scan = "left"]
  <2>1. sorting' = y /\ calls' = calls /\ items' = items BY <1>21 DEF Meet
  <2>2. x.l < x.r /\ l = x.l + 1 /\ r = x.r - 1 BY <1>5, <1>21
  <2> HIDE DEF l, r
  <2>3. /\ y.l_index = lo /\ y.r_index = hi /\ y.l = l /\ y.r = r /\ y.mid_value = mid
        /\ y.scan = "left" /\ y \in Loops
    BY <1>3, <1>5, <1>17 DEF Loops
  <2> HIDE DEF y
  <2>4. y # None BY <2>3, NoLoop
  <2>5. Frames(calls, y) = F BY <2>3, <2>4 DEF Frames
  <2>6. Partitioned(u, y)
    <3>1. lo <= l /\ l <= hi /\ lo <= r /\ r <= hi BY <1>5, <1>6, <1>17, <1>21
    <3>2. \E i \in lo .. r : u[i + 1] <= mid
      <4>1. x.l \in lo .. r BY <1>5, <1>6, <2>2, <1>17, <1>21
      <4> QED BY <1>9, <1>16, <2>2, <4>1
    <3>3. \E i \in l .. hi : u[i + 1] >= mid
      <4>1. x.r \in l .. hi BY <1>5, <1>6, <2>2, <1>17, <1>21
      <4> QED BY <1>6, <1>16, <2>2, <4>1
    <3>4. y.scan # "right" BY <2>3
    <3> HIDE DEF lo, hi, mid, x
    <3> QED BY <1>19, <1>20, <2>3, <3>1, <3>2, <3>3, <3>4 DEF Partitioned
  <2> HIDE DEF F
  <2>7. Consistent(u, items, calls, y) BY <1>7, <1>14, <2>3, <2>4, <2>5, <2>6 DEF Consistent
  <2> QED BY <1>12, <2>1, <2>7 DEF ArrayInv, y
<1>22. CASE ~ (l <= r)
  <2> DEFINE G == <<<<lo, r>>, <<l, hi>>>> \o calls
  <2>1. sorting' = None /\ calls' = G /\ items' = items BY <1>22 DEF Meet
  <2>2. r < l BY <1>17, <1>22
  <2>3. Apart(<<<<lo, hi>>>> \o calls, Len(u)) /\ OrderedBut(u, <<<<lo, hi>>>> \o calls)
    BY <1>7, <1>14
  <2> HIDE DEF l, r, lo, hi, mid
  <2>4. G \in Seq(Int \X Int) /\ G # <<>> /\ Apart(G, Len(u)) /\ OrderedBut(u, G)
    BY <1>5, <1>7, <1>14, <1>17, <1>19, <1>20, <2>2, <2>3, SplitFrame
  <2> HIDE DEF G
  <2>5. Frames(G, None) = G BY DEF Frames
  <2>6. Consistent(u, items, G, None) BY <1>7, <1>14, <2>4, <2>5 DEF Consistent
  <2> QED BY <1>12, <2>1, <2>6 DEF ArrayInv, G
<1> QED BY <1>21, <1>22

LEMMA ArrayInvNext == ArrayInv /\ [ArrayNext]_arrayVars => ArrayInv'
<1> SUFFICES ASSUME ArrayInv, [ArrayNext]_arrayVars PROVE ArrayInv' OBVIOUS
<1>1. CASE UNCHANGED arrayVars BY <1>1 DEF arrayVars, ArrayInv
<1>2. ASSUME NEW e \in Elements, PushBack(e) \/ PushFront(e) PROVE ArrayInv'
  BY <1>2, PushBackNext, PushFrontNext
<1>3. CASE PopBack BY <1>3, PopBackNext
<1>4. CASE PopFront BY <1>4, PopFrontNext
<1>5. CASE Clear BY <1>5, ClearNext
<1>6. CASE dynamic_array_quicksort BY <1>6, SortStarts
<1>7. CASE Called BY <1>7, CalledNext
<1>8. CASE ScanLeft BY <1>8, ScanLeftNext
<1>9. CASE ScanRight BY <1>9, ScanRightNext
<1>10. CASE Meet BY <1>10, MeetNext
<1> QED BY <1>1, <1>2, <1>3, <1>4, <1>5, <1>6, <1>7, <1>8, <1>9, <1>10 DEF ArrayNext

LEMMA ArrayInvGives == ArrayInv => ArrayIsSequence
<1> SUFFICES ASSUME ArrayInv PROVE ArrayIsSequence OBVIOUS
<1>1. PICK t : Holds(array, t) /\ Consistent(t, items, calls, sorting) BY DEF ArrayInv
<1>2. /\ Laid(array, t) /\ array.elements_count \in Nat
      /\ sorting # None =>
           sorting \in Loops /\ 0 <= sorting.l_index /\ sorting.r_index < array.elements_count
  BY <1>1, SortFacts
<1>3. Idle => ElementsOf(array) = items
  <2> SUFFICES ASSUME Idle PROVE ElementsOf(array) = items OBVIOUS
  <2> QED BY IdleHolds, ElementsAre DEF Holds
<1>4. array.elements_count < array.size /\ array.end = Wrap(array.start + array.elements_count + 1, array.size)
  BY <1>1, <1>2, LaidGives DEF Holds, Roomy
<1>5. ASSUME sorting.scan \in {"left", "right"}
      PROVE  sorting.l \in 0 .. array.elements_count - 1 /\ sorting.r \in 0 .. array.elements_count - 1
  <2>1. sorting # None BY <1>5 DEF None
  <2>2. Partitioned(t, sorting) BY <1>1, <2>1 DEF Consistent
  <2>3. /\ sorting.l_index \in Int /\ sorting.r_index \in Int /\ sorting.l \in Int /\ sorting.r \in Int
        /\ 0 <= sorting.l_index /\ sorting.r_index < array.elements_count
    BY <1>2, <2>1 DEF Loops
  <2>4. /\ sorting.l_index <= sorting.l /\ sorting.l <= sorting.r_index
        /\ sorting.l_index <= sorting.r /\ sorting.r <= sorting.r_index
    BY <2>2 DEF Partitioned
  <2> QED BY <1>2, <2>3, <2>4
<1> QED BY <1>3, <1>4, <1>5 DEF ArrayIsSequence

(***************************************************************************)
(* However many elements there are and whatever their values: after every  *)
(* call the ring of lib/dynamic_array.c holds the sequence that the calls  *)
(* promise, with room for the next push, and no scan of its quicksort      *)
(* reads outside the elements.                                             *)
(***************************************************************************)
THEOREM ArrayStaysSequence == ArraySpec => []ArrayIsSequence
<1>1. ArraySpec => []ArrayInv BY ArrayInvInit, ArrayInvNext, PTL DEF ArraySpec
<1> QED BY <1>1, ArrayInvGives, PTL

=============================================================================
