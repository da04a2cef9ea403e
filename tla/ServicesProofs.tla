---------------------------- MODULE ServicesProofs ----------------------------
(***************************************************************************)
(* Theorems about services over the core: the semaphore, for any finite    *)
(* set of tasks and any width of its counter; the mouse, for any ring, any *)
(* screen and any motions; the keyboard, for any keys; the line editor,    *)
(* for any buffer and any order of the keys; the volumes, for any          *)
(* partitions and however many references are lost; the console, for any   *)
(* window and whatever is printed while it is scrolled.                    *)
(***************************************************************************)
EXTENDS Semaphore, Mouse, Keyboard, LineEditor, Console, Vfs, FiniteSetTheorems, SequenceTheorems,
  WellFoundedInduction, TLAPS

---------------------------------------------------------------------------
(* Arithmetic modulo the counter's width.                                  *)

LEMMA Division ==
  ASSUME NEW W \in Nat \ {0}, NEW a \in Int
  PROVE  /\ a % W \in 0 .. W - 1 /\ a \div W \in Int
         /\ a = W * (a \div W) + (a % W)
OBVIOUS

LEMMA RestIsOne ==
  ASSUME NEW W \in Nat \ {0}, NEW p \in Int, NEW q \in Int,
         NEW r \in 0 .. W - 1, NEW s \in 0 .. W - 1, W * q + r = W * p + s
  PROVE  r = s
<1>1. W * (q - p) = s - r BY SMT
<1>2. CASE q - p >= 1
  <2>1. W * (q - p) >= W BY <1>2, SMT
  <2> QED BY <1>1, <2>1
<1>3. CASE q - p <= -1
  <2>1. W * (q - p) <= -W BY <1>3, SMT
  <2> QED BY <1>1, <2>1
<1>4. CASE q - p = 0 BY <1>1, <1>4
<1> QED BY <1>2, <1>3, <1>4

LEMMA RestOfSum ==
  ASSUME NEW W \in Nat \ {0}, NEW a \in Int, NEW b \in Int
  PROVE  ((a % W) + b) % W = (a + b) % W
<1> DEFINE r == a % W
           d == a \div W
           x == (r + b) % W
           p == (r + b) \div W
           y == (a + b) % W
           q == (a + b) \div W
<1>1. r \in Int /\ d \in Int /\ a = W * d + r BY Division
<1>2. x \in 0 .. W - 1 /\ p \in Int /\ r + b = W * p + x
  <2> HIDE DEF r
  <2> QED BY <1>1, Division
<1>3. y \in 0 .. W - 1 /\ q \in Int /\ a + b = W * q + y
  <2> DEFINE e == a + b
  <2>1. e \in Int OBVIOUS
  <2> HIDE DEF e
  <2>2. e % W \in 0 .. W - 1 /\ e \div W \in Int /\ e = W * (e \div W) + (e % W)
    BY <2>1, Division
  <2> QED BY <2>2 DEF e
<1> HIDE DEF r, d, x, p, y, q
<1>4. W * (p + d) = W * p + W * d BY <1>1, <1>2, SMT
<1>5. W * (p + d) + x = W * q + y BY <1>1, <1>2, <1>3, <1>4, SMT
<1>6. p + d \in Int BY <1>1, <1>2
<1>7. x = y BY <1>2, <1>3, <1>5, <1>6, RestIsOne
<1> QED BY <1>7 DEF x, y, r

---------------------------------------------------------------------------
(* The semaphore.                                                          *)

\* The units of one task.
UnitsOf(t, n) == {t} \X (1 .. n)

\* The tasks between the two ends of a call, or of the use of what it gave.
Inside == {t \in Tasks : step[t] # "out"}

SemaphoreTypes ==
  /\ count \in Nat /\ owners \in Int
  /\ destroyed \in BOOLEAN /\ freed \in BOOLEAN
  /\ step \in [Tasks -> {"out", "trying", "read", "holding", "released"}]
  /\ units \in [Tasks -> 0 .. MaxUnits]
  /\ old \in [Tasks -> Int]

\* What semaphore_destroy waits for is that nobody is inside.
SemaphoreInv ==
  /\ SemaphoreTypes
  /\ owners = Cardinality(Inside)
  /\ freed => destroyed /\ Inside = {}
  /\ (count + Cardinality(Held)) % WORD = max_count

LEMMA HeldAreFinite ==
  /\ IsFiniteSet(Inside)
  /\ IsFiniteSet(Held) /\ Cardinality(Held) \in Nat
<1>1. IsFiniteSet(Tasks \X (1 .. MaxUnits))
  <2> DEFINE U == 1 .. MaxUnits
  <2>1. IsFiniteSet(Tasks) BY SemaphoreAssumption
  <2>2. IsFiniteSet(U) BY SemaphoreAssumption, FS_Interval
  <2> HIDE DEF U
  <2>3. IsFiniteSet(Tasks \X U) BY <2>1, <2>2, FS_Product, Zenon
  <2> QED BY <2>3 DEF U
<1>2. Held \subseteq Tasks \X (1 .. MaxUnits) BY DEF Held
<1>3. Inside \subseteq Tasks BY DEF Inside
<1> QED BY <1>1, <1>2, <1>3, SemaphoreAssumption, FS_Subset, FS_CardinalityType

LEMMA UnitsCounted ==
  ASSUME NEW t, NEW n \in Nat
  PROVE  IsFiniteSet(UnitsOf(t, n)) /\ Cardinality(UnitsOf(t, n)) = n
<1>1. IsFiniteSet({t}) /\ Cardinality({t}) = 1 BY FS_Singleton
<1>2. IsFiniteSet(1 .. n) /\ Cardinality(1 .. n) = n BY FS_Interval
<1> DEFINE S == {t}
           U == 1 .. n
<1> HIDE DEF S, U
<1>3. IsFiniteSet(S \X U) /\ Cardinality(S \X U) = Cardinality(S) * Cardinality(U)
  BY <1>1, <1>2, FS_Product, Zenon DEF S, U
<1>4. Cardinality(S \X U) = 1 * n BY <1>1, <1>2, <1>3 DEF S, U
<1> QED BY <1>3, <1>4 DEF UnitsOf, S, U

\* Nothing is held by a task outside the use of its units.
LEMMA NoUnitsBefore ==
  ASSUME NEW t \in Tasks, step[t] # "holding"
  PROVE  Held \intersect UnitsOf(t, units[t]) = {}
BY DEF Held, UnitsOf

LEMMA UnitsWhileHolding ==
  ASSUME NEW t \in Tasks, step[t] = "holding", SemaphoreTypes
  PROVE  UnitsOf(t, units[t]) \subseteq Held
<1> SUFFICES ASSUME NEW u \in UnitsOf(t, units[t]) PROVE u \in Held OBVIOUS
<1>1. units[t] \in 0 .. MaxUnits BY DEF SemaphoreTypes
<1>2. u[1] = t /\ u[2] \in 1 .. units[t] /\ u = <<u[1], u[2]>> BY DEF UnitsOf
<1>3. u[2] \in 1 .. MaxUnits /\ u[2] <= units[t] BY <1>1, <1>2, SemaphoreAssumption
<1>4. u \in Tasks \X (1 .. MaxUnits) BY <1>2, <1>3
<1> QED BY <1>2, <1>3, <1>4 DEF Held

\* Two disjoint finite sets.
LEMMA DisjointUnion ==
  ASSUME NEW S, NEW T, IsFiniteSet(S), IsFiniteSet(T), S \intersect T = {}
  PROVE  /\ IsFiniteSet(S \union T)
         /\ Cardinality(S \union T) = Cardinality(S) + Cardinality(T)
<1>1. Cardinality(S \intersect T) = 0 BY FS_EmptySet
<1>2. Cardinality(S) \in Nat /\ Cardinality(T) \in Nat BY FS_CardinalityType
<1>3. /\ IsFiniteSet(S \union T)
      /\ Cardinality(S \union T)
           = Cardinality(S) + Cardinality(T) - Cardinality(S \intersect T)
  BY FS_Union
<1> QED BY <1>1, <1>2, <1>3

---------------------------------------------------------------------------
(* The steps.                                                              *)

LEMMA SemaphoreStarts == SemaphoreInit => SemaphoreInv
<1> SUFFICES ASSUME SemaphoreInit PROVE SemaphoreInv OBVIOUS
<1> USE DEF SemaphoreInit
<1>1. SemaphoreTypes
  <2>1. count \in Nat /\ owners \in Int BY SemaphoreAssumption DEF max_count
  <2>2. 0 \in 0 .. MaxUnits BY SemaphoreAssumption
  <2>3. units \in [Tasks -> 0 .. MaxUnits] BY <2>2
  <2>4. step \in [Tasks -> {"out", "trying", "read", "holding", "released"}] OBVIOUS
  <2>5. old \in [Tasks -> Int] OBVIOUS
  <2> QED BY <2>1, <2>3, <2>4, <2>5 DEF SemaphoreTypes
<1>2. Inside = {} /\ Held = {} BY DEF Inside, Held
<1>3. Cardinality({}) = 0 BY FS_EmptySet
<1>4. MaxUnits % WORD = MaxUnits BY SemaphoreAssumption
<1> QED BY <1>1, <1>2, <1>3, <1>4, SemaphoreAssumption DEF SemaphoreInv, max_count

LEMMA SemaphoreTypesStay ==
  ASSUME SemaphoreInv, [SemaphoreNext]_semaphoreVars
  PROVE  SemaphoreTypes'
<1>1. WORD \in Nat \ {0} BY SemaphoreAssumption
<1>2. \A a \in Int : a % WORD \in Nat BY <1>1, Division
<1> USE DEF SemaphoreInv, SemaphoreTypes, Go
<1>3. CASE UNCHANGED semaphoreVars BY <1>3 DEF semaphoreVars
<1>4. ASSUME NEW t \in Tasks, Enter(t) PROVE SemaphoreTypes'
  <2>1. PICK n \in 1 .. MaxUnits : units' = [units EXCEPT ![t] = n] BY <1>4 DEF Enter
  <2>2. n \in 0 .. MaxUnits BY SemaphoreAssumption
  <2> QED BY <1>4, <2>1, <2>2 DEF Enter
<1>5. ASSUME NEW t \in Tasks, GiveUp(t) PROVE SemaphoreTypes'
  BY <1>5, SemaphoreAssumption DEF GiveUp
<1>6. ASSUME NEW t \in Tasks, ReadCount(t) PROVE SemaphoreTypes'
  BY <1>6 DEF ReadCount
<1>7. ASSUME NEW t \in Tasks, Exchange(t) PROVE SemaphoreTypes'
  <2>1. old[t] - units[t] \in Int BY SemaphoreAssumption
  <2>2. (old[t] - units[t]) % WORD \in Nat BY <1>2, <2>1
  <2>3. count' \in Nat BY <1>7, <2>2 DEF Exchange
  <2> QED BY <1>7, <2>3 DEF Exchange
<1>8. ASSUME NEW t \in Tasks, GiveBack(t) PROVE SemaphoreTypes'
  <2>1. count + units[t] \in Int BY SemaphoreAssumption
  <2>2. (count + units[t]) % WORD \in Nat BY <1>2, <2>1
  <2> QED BY <1>8, <2>2, SemaphoreAssumption DEF GiveBack
<1>9. ASSUME NEW t \in Tasks, Leave(t) PROVE SemaphoreTypes'
  BY <1>9 DEF Leave
<1>10. CASE semaphore_destroy BY <1>10 DEF semaphore_destroy
<1>11. CASE FreeSemaphore BY <1>11 DEF FreeSemaphore
<1> QED BY <1>3, <1>4, <1>5, <1>6, <1>7, <1>8, <1>9, <1>10, <1>11 DEF SemaphoreNext

\* The owners are those inside: one comes, one goes, or nothing changes.
LEMMA OwnersStayCounted ==
  ASSUME SemaphoreInv, [SemaphoreNext]_semaphoreVars
  PROVE  /\ owners' = Cardinality(Inside')
         /\ freed' => destroyed' /\ Inside' = {}
<1> DEFINE Goal == owners' = Cardinality(Inside') /\ (freed' => destroyed' /\ Inside' = {})
<1> SUFFICES Goal OBVIOUS
<1>1. /\ SemaphoreTypes /\ owners = Cardinality(Inside)
      /\ freed => destroyed /\ Inside = {}
  BY DEF SemaphoreInv
<1>2. IsFiniteSet(Inside) BY HeldAreFinite
<1>3. CASE Inside' = Inside /\ UNCHANGED <<owners, destroyed, freed>>
  BY <1>1, <1>3
<1>4. CASE UNCHANGED semaphoreVars BY <1>3, <1>4 DEF semaphoreVars, Inside
<1>5. ASSUME NEW t \in Tasks, Enter(t) PROVE Goal
  <2>1. Inside' = Inside \union {t} /\ t \notin Inside
    BY <1>1, <1>5 DEF Enter, Go, Inside, SemaphoreTypes
  <2>2. Cardinality(Inside') = Cardinality(Inside) + 1 BY <1>2, <2>1, FS_AddElement
  <2> QED BY <1>1, <1>5, <2>2 DEF Enter
<1>6. ASSUME NEW t \in Tasks, GiveUp(t) \/ Leave(t) PROVE Goal
  <2>1. Inside' = Inside \ {t} /\ t \in Inside
    BY <1>1, <1>6 DEF GiveUp, Leave, Go, Inside, SemaphoreTypes
  <2>2. Cardinality(Inside') = Cardinality(Inside) - 1 BY <1>2, <2>1, FS_RemoveElement
  <2> QED BY <1>1, <1>6, <2>1, <2>2 DEF GiveUp, Leave
<1>7. ASSUME NEW t \in Tasks, ReadCount(t) \/ Exchange(t) \/ GiveBack(t) PROVE Goal
  <2>1. Inside' = Inside
    BY <1>1, <1>7 DEF ReadCount, Exchange, GiveBack, Go, Inside, SemaphoreTypes
  <2> QED BY <1>3, <1>7, <2>1 DEF ReadCount, Exchange, GiveBack
<1>8. CASE semaphore_destroy BY <1>1, <1>8 DEF semaphore_destroy, Inside
<1>9. CASE FreeSemaphore
  <2>1. Inside = {} BY <1>1, <1>2, <1>9, FS_EmptySet DEF FreeSemaphore
  <2> QED BY <1>1, <1>9, <2>1 DEF FreeSemaphore, Inside
<1> QED BY <1>4, <1>5, <1>6, <1>7, <1>8, <1>9 DEF SemaphoreNext

\* A unit leaves the counter for a task's hands, or comes back from them.
LEMMA UnitsStay ==
  ASSUME SemaphoreInv, [SemaphoreNext]_semaphoreVars
  PROVE  (count' + Cardinality(Held')) % WORD = max_count
<1> DEFINE Goal == (count' + Cardinality(Held')) % WORD = max_count
<1> SUFFICES Goal OBVIOUS
<1>1. /\ SemaphoreTypes /\ count \in Nat
      /\ (count + Cardinality(Held)) % WORD = max_count
  BY DEF SemaphoreInv, SemaphoreTypes
<1>2. IsFiniteSet(Held) /\ Cardinality(Held) \in Nat BY HeldAreFinite
<1>3. WORD \in Nat \ {0} BY SemaphoreAssumption
<1>4. ASSUME Held' = Held, count' = count PROVE Goal
  BY <1>1, <1>4 DEF max_count
<1>5. CASE UNCHANGED semaphoreVars BY <1>4, <1>5 DEF semaphoreVars, Held
<1>6. ASSUME NEW t \in Tasks, Enter(t) \/ GiveUp(t) \/ ReadCount(t) \/ Leave(t) PROVE Goal
  <2>1. \A s \in Tasks : step'[s] = "holding" <=> step[s] = "holding"
    BY <1>1, <1>6 DEF Enter, GiveUp, ReadCount, Leave, Go, SemaphoreTypes
  <2>2. \A s \in Tasks : step[s] = "holding" => units'[s] = units[s]
    BY <1>1, <1>6 DEF Enter, GiveUp, ReadCount, Leave, Go, SemaphoreTypes
  <2>3. Held' = Held BY <2>1, <2>2 DEF Held
  <2>4. count' = count BY <1>6 DEF Enter, GiveUp, ReadCount, Leave
  <2> QED BY <1>4, <2>3, <2>4
<1>7. ASSUME NEW t \in Tasks, Exchange(t) PROVE Goal
  <2>1. step[t] = "read" /\ units[t] \in 0 .. MaxUnits /\ UNCHANGED units
    BY <1>1, <1>7 DEF Exchange, SemaphoreTypes
  <2>2. CASE count # old[t]
    <3>1. \A s \in Tasks : step'[s] = "holding" <=> step[s] = "holding"
      BY <1>1, <1>7, <2>2 DEF Exchange, Go, SemaphoreTypes
    <3>2. Held' = Held BY <2>1, <3>1 DEF Held
    <3> QED BY <1>4, <1>7, <2>2, <3>2 DEF Exchange
  <2>3. CASE count = old[t]
    <3>1. /\ count' = (count - units[t]) % WORD
          /\ step' = [step EXCEPT ![t] = "holding"]
      BY <1>7, <2>3 DEF Exchange, Go
    <3>2. SemaphoreTypes' BY SemaphoreTypesStay
    <3>3. step'[t] = "holding" /\ \A s \in Tasks \ {t} : step'[s] = step[s]
      BY <1>1, <3>1 DEF SemaphoreTypes
    <3>4. Held' = Held \union UnitsOf(t, units[t])
      <4>1. Held \subseteq Held' BY <2>1, <3>3 DEF Held
      <4>2. UnitsOf(t, units[t]) \subseteq Held'
        <5>1. UnitsOf(t, units'[t]) \subseteq Held'
          <6> SUFFICES ASSUME NEW u \in UnitsOf(t, units[t]) PROVE u \in Held' BY <2>1
          <6>1. u[1] = t /\ u[2] \in 1 .. units[t] /\ u = <<u[1], u[2]>> BY DEF UnitsOf
          <6>2. u[2] \in 1 .. MaxUnits /\ u[2] <= units[t]
            BY <2>1, <6>1, SemaphoreAssumption
          <6>3. u \in Tasks \X (1 .. MaxUnits) BY <6>1, <6>2
          <6> QED BY <2>1, <3>3, <6>1, <6>2, <6>3 DEF Held
        <5> QED BY <2>1, <5>1
      <4>3. ASSUME NEW u \in Held' PROVE u \in Held \/ u \in UnitsOf(t, units[t])
        <5>1. /\ u \in Tasks \X (1 .. MaxUnits)
              /\ step'[u[1]] = "holding" /\ u[2] <= units[u[1]]
          BY <2>1, <4>3 DEF Held
        <5>2. CASE u[1] = t
          <6>1. u[2] \in 1 .. units[t] /\ u = <<u[1], u[2]>> BY <2>1, <5>1, <5>2
          <6> QED BY <5>2, <6>1 DEF UnitsOf
        <5>3. CASE u[1] # t BY <3>3, <5>1, <5>3 DEF Held
        <5> QED BY <5>2, <5>3
      <4> QED BY <4>1, <4>2, <4>3
    <3>5. Held \intersect UnitsOf(t, units[t]) = {} BY <2>1, NoUnitsBefore
    <3>6. /\ IsFiniteSet(UnitsOf(t, units[t]))
          /\ Cardinality(UnitsOf(t, units[t])) = units[t]
      BY <2>1, UnitsCounted, SemaphoreAssumption
    <3>7. Cardinality(Held') = Cardinality(Held) + units[t]
      BY <1>2, <3>4, <3>5, <3>6, DisjointUnion
    <3>8. (((count - units[t]) % WORD) + (Cardinality(Held) + units[t])) % WORD
            = ((count - units[t]) + (Cardinality(Held) + units[t])) % WORD
      <4> DEFINE a == count - units[t]
                 b == Cardinality(Held) + units[t]
      <4>1. a \in Int /\ b \in Int BY <1>1, <1>2, <2>1, SemaphoreAssumption
      <4> HIDE DEF a, b
      <4>2. ((a % WORD) + b) % WORD = (a + b) % WORD BY <1>3, <4>1, RestOfSum
      <4> QED BY <4>2 DEF a, b
    <3>9. (count - units[t]) + (Cardinality(Held) + units[t]) = count + Cardinality(Held)
      BY <1>1, <1>2, <2>1, SemaphoreAssumption
    <3> QED BY <1>1, <3>1, <3>7, <3>8, <3>9 DEF max_count
  <2> QED BY <2>2, <2>3
<1>8. ASSUME NEW t \in Tasks, GiveBack(t) PROVE Goal
  <2>1. /\ step[t] = "holding" /\ units[t] \in 0 .. MaxUnits
        /\ count' = (count + units[t]) % WORD
        /\ step'[t] = "released" /\ \A s \in Tasks \ {t} : step'[s] = step[s]
        /\ \A s \in Tasks \ {t} : units'[s] = units[s]
    BY <1>1, <1>8 DEF GiveBack, Go, SemaphoreTypes
  <2>2. Held = Held' \union UnitsOf(t, units[t])
    <3>1. UnitsOf(t, units[t]) \subseteq Held BY <1>1, <2>1, UnitsWhileHolding
    <3>2. Held' \subseteq Held BY <2>1 DEF Held
    <3>3. ASSUME NEW u \in Held PROVE u \in Held' \/ u \in UnitsOf(t, units[t])
      <4>1. /\ u \in Tasks \X (1 .. MaxUnits)
            /\ step[u[1]] = "holding" /\ u[2] <= units[u[1]]
        BY DEF Held
      <4>2. CASE u[1] = t
        <5>1. u[2] \in 1 .. units[t] /\ u = <<u[1], u[2]>> BY <2>1, <4>1, <4>2
        <5> QED BY <4>2, <5>1 DEF UnitsOf
      <4>3. CASE u[1] # t BY <2>1, <4>1, <4>3 DEF Held
      <4> QED BY <4>2, <4>3
    <3> QED BY <3>1, <3>2, <3>3
  <2>3. Held' \intersect UnitsOf(t, units[t]) = {} BY <2>1 DEF Held, UnitsOf
  <2>4. IsFiniteSet(Held') BY <1>2, <2>2, FS_Subset
  <2>5. Cardinality(Held') \in Nat BY <2>4, FS_CardinalityType
  <2>6. /\ IsFiniteSet(UnitsOf(t, units[t]))
        /\ Cardinality(UnitsOf(t, units[t])) = units[t]
    BY <2>1, UnitsCounted, SemaphoreAssumption
  <2>7. Cardinality(Held) = Cardinality(Held') + units[t]
    BY <2>2, <2>3, <2>4, <2>6, DisjointUnion
  <2>8. (((count + units[t]) % WORD) + Cardinality(Held')) % WORD
          = ((count + units[t]) + Cardinality(Held')) % WORD
    <3> DEFINE a == count + units[t]
               b == Cardinality(Held')
    <3>1. a \in Int /\ b \in Int BY <1>1, <2>1, <2>5, SemaphoreAssumption
    <3> HIDE DEF a, b
    <3>2. ((a % WORD) + b) % WORD = (a + b) % WORD BY <1>3, <3>1, RestOfSum
    <3> QED BY <3>2 DEF a, b
  <2>9. (count + units[t]) + Cardinality(Held') = count + Cardinality(Held)
    BY <1>1, <1>2, <2>1, <2>5, <2>7, SemaphoreAssumption
  <2> QED BY <1>1, <2>1, <2>8, <2>9 DEF max_count
<1>9. CASE semaphore_destroy \/ FreeSemaphore
  BY <1>4, <1>9 DEF semaphore_destroy, FreeSemaphore, Held
<1> QED BY <1>5, <1>6, <1>7, <1>8, <1>9 DEF SemaphoreNext

(***************************************************************************)
(* However many tasks race for the counter, every unit is in it or in the  *)
(* hands of a task, and the semaphore is freed only when no task is inside *)
(* (kernel/syncapi.c).                                                     *)
(***************************************************************************)
THEOREM UnitsStayConserved == SemaphoreSpec => []UnitsConserved
<1>1. SemaphoreInit => SemaphoreInv BY SemaphoreStarts
<1>2. SemaphoreInv /\ [SemaphoreNext]_semaphoreVars => SemaphoreInv'
  <2> SUFFICES ASSUME SemaphoreInv, [SemaphoreNext]_semaphoreVars PROVE SemaphoreInv'
    OBVIOUS
  <2>1. SemaphoreTypes' BY SemaphoreTypesStay
  <2>2. owners' = Cardinality(Inside') /\ (freed' => destroyed' /\ Inside' = {})
    BY OwnersStayCounted
  <2>3. (count' + Cardinality(Held')) % WORD = max_count BY UnitsStay
  <2> QED BY <2>1, <2>2, <2>3 DEF SemaphoreInv, max_count
<1>3. SemaphoreInv => UnitsConserved BY DEF SemaphoreInv, UnitsConserved, Inside
<1> QED BY <1>1, <1>2, <1>3, PTL DEF SemaphoreSpec

---------------------------------------------------------------------------
(* The mouse.                                                              *)

Byte == 0 .. 255

MouseTypes ==
  /\ sending \in Seq(Byte) /\ mouse_ring \in Seq(Byte)
  /\ packet \in Seq(Byte) /\ Len(packet) <= 2
  /\ due \in Seq(Packets) /\ Len(due) <= 2

MouseInv == MouseTypes /\ PacketsInOrder /\ CursorOnScreen

LEMMA PacketBytes ==
  ASSUME NEW p \in Packets
  PROVE  p \in Seq(Byte) /\ Len(p) = 3 /\ Bit(p[1], 8)
<1>1. p \in [1 .. 3 -> Byte] BY MouseAssumption DEF Byte
<1>2. p \in Seq(Byte)
  <2>1. [1 .. 3 -> Byte] \subseteq UNION {[1 .. n -> Byte] : n \in Nat} OBVIOUS
  <2> QED BY <1>1, <2>1, SeqDef
<1>3. Len(p) = 3 BY <1>1, <1>2, LenProperties
<1> QED BY <1>2, <1>3, MouseAssumption DEF Bit

\* What is due, byte by byte.
LEMMA FlatCases ==
  ASSUME NEW ps
  PROVE  /\ Len(ps) = 0 => Flat(ps) = <<>>
         /\ Len(ps) = 1 => Flat(ps) = ps[1]
         /\ Len(ps) = 2 => Flat(ps) = ps[1] \o ps[2]
<1>1. ASSUME Len(ps) = 0 PROVE Flat(ps) = <<>> BY <1>1, Zenon DEF Flat
<1>2. ASSUME Len(ps) = 1 PROVE Flat(ps) = ps[1]
  <2>1. Len(ps) # 0 BY <1>2
  <2> QED BY <1>2, <2>1, Zenon DEF Flat
<1>3. ASSUME Len(ps) = 2 PROVE Flat(ps) = ps[1] \o ps[2]
  <2>1. Len(ps) # 0 /\ Len(ps) # 1 BY <1>3
  <2> QED BY <2>1, Zenon DEF Flat
<1> QED BY <1>1, <1>2, <1>3, Zenon

LEMMA Concat ==
  ASSUME NEW S, NEW a \in Seq(S), NEW b \in Seq(S)
  PROVE  /\ a \o b \in Seq(S) /\ Len(a \o b) = Len(a) + Len(b)
         /\ \A i \in 1 .. Len(a) + Len(b) :
              (a \o b)[i] = IF i <= Len(a) THEN a[i] ELSE b[i - Len(a)]
BY ConcatProperties, Zenon

LEMMA FlatOfDue ==
  ASSUME NEW ps \in Seq(Packets), Len(ps) \in 1 .. 2
  PROVE  /\ Tail(ps) \in Seq(Packets) /\ Len(Tail(ps)) = Len(ps) - 1
         /\ Flat(ps) \in Seq(Byte) /\ Len(Flat(ps)) = 3 * Len(ps)
         /\ Flat(Tail(ps)) \in Seq(Byte) /\ Len(Flat(Tail(ps))) = 3 * (Len(ps) - 1)
         /\ Bit(Flat(ps)[1], 8)
         /\ \A i \in 1 .. 3 * (Len(ps) - 1) : Flat(Tail(ps))[i] = Flat(ps)[i + 3]
<1> DEFINE a == ps[1]
           b == ps[2]
           rest == Tail(ps)
<1>1. ps # <<>> BY EmptySeq
<1>2. /\ rest \in Seq(Packets) /\ Len(rest) = Len(ps) - 1
      /\ \A i \in 1 .. Len(rest) : rest[i] = ps[i + 1]
  BY <1>1, HeadTailProperties
<1>3. a \in Packets
  <2>1. 1 \in 1 .. Len(ps) OBVIOUS
  <2> QED BY <2>1, ElementOfSeq
<1>4. a \in Seq(Byte) /\ Len(a) = 3 /\ Bit(a[1], 8) BY <1>3, PacketBytes
<1>5. CASE Len(ps) = 1
  <2>1. Flat(ps) = a BY <1>5, FlatCases
  <2>2. Len(rest) = 0 BY <1>2, <1>5
  <2>3. Flat(rest) = <<>> BY <2>2, FlatCases
  <2>4. <<>> \in Seq(Byte) /\ Len(<<>>) = 0 BY EmptySeq
  <2> HIDE DEF a, rest
  <2>5. Bit(Flat(ps)[1], 8) BY <1>4, <2>1
  <2>6. Flat(ps) \in Seq(Byte) /\ Len(Flat(ps)) = 3 BY <1>4, <2>1
  <2>7. Flat(rest) \in Seq(Byte) /\ Len(Flat(rest)) = 0 BY <2>3, <2>4
  <2>8. /\ rest \in Seq(Packets) /\ Len(rest) = Len(ps) - 1
        /\ Flat(ps) \in Seq(Byte) /\ Len(Flat(ps)) = 3 * Len(ps)
        /\ Flat(rest) \in Seq(Byte) /\ Len(Flat(rest)) = 3 * (Len(ps) - 1)
        /\ Bit(Flat(ps)[1], 8)
        /\ \A i \in 1 .. 3 * (Len(ps) - 1) : Flat(rest)[i] = Flat(ps)[i + 3]
    BY <1>2, <1>5, <2>5, <2>6, <2>7
  <2> QED BY <2>8 DEF rest
<1>6. CASE Len(ps) = 2
  <2>1. b \in Packets
    <3>1. 2 \in 1 .. Len(ps) BY <1>6
    <3> QED BY <3>1, ElementOfSeq
  <2>2. b \in Seq(Byte) /\ Len(b) = 3 BY <2>1, PacketBytes
  <2>3. Flat(ps) = a \o b BY <1>6, FlatCases
  <2>4. Len(rest) = 1 /\ rest[1] = b BY <1>2, <1>6
  <2>5. Flat(rest) = b
    <3> HIDE DEF b, rest
    <3> QED BY <2>4, FlatCases
  <2> HIDE DEF a, b, rest
  <2>6. /\ a \o b \in Seq(Byte) /\ Len(a \o b) = 6
        /\ \A i \in 1 .. 6 : (a \o b)[i] = IF i <= 3 THEN a[i] ELSE b[i - 3]
    <3>1. /\ a \o b \in Seq(Byte) /\ Len(a \o b) = Len(a) + Len(b)
          /\ \A i \in 1 .. Len(a) + Len(b) :
               (a \o b)[i] = IF i <= Len(a) THEN a[i] ELSE b[i - Len(a)]
      BY <1>4, <2>2, Concat
    <3> QED BY <1>4, <2>2, <3>1
  <2>7. Flat(ps)[1] = a[1]
    <3>1. 1 \in 1 .. 6 OBVIOUS
    <3> QED BY <2>3, <2>6, <3>1
  <2>8. \A i \in 1 .. 3 : Flat(rest)[i] = Flat(ps)[i + 3]
    <3> TAKE i \in 1 .. 3
    <3>1. i + 3 \in 1 .. 6 /\ ~ (i + 3 <= 3) /\ (i + 3) - 3 = i OBVIOUS
    <3>2. (a \o b)[i + 3] = b[(i + 3) - 3] BY <2>6, <3>1
    <3> QED BY <2>3, <2>5, <3>1, <3>2
  <2>9. Bit(Flat(ps)[1], 8) BY <1>4, <2>7
  <2>10. /\ rest \in Seq(Packets) /\ Len(rest) = Len(ps) - 1
         /\ Flat(ps) \in Seq(Byte) /\ Len(Flat(ps)) = 3 * Len(ps)
         /\ Flat(rest) \in Seq(Byte) /\ Len(Flat(rest)) = 3 * (Len(ps) - 1)
    BY <1>2, <1>6, <2>2, <2>3, <2>5, <2>6
  <2>11. 3 * (Len(ps) - 1) = 3 BY <1>6
  <2> QED BY <2>8, <2>9, <2>10, <2>11 DEF rest
<1> QED BY <1>5, <1>6

LEMMA FlatOfMore ==
  ASSUME NEW ps \in Seq(Packets), Len(ps) < 2, NEW p \in Packets
  PROVE  Flat(Append(ps, p)) = Flat(ps) \o p
<1> DEFINE more == Append(ps, p)
<1>1. p \in Seq(Byte) BY PacketBytes
<1>2. /\ more \in Seq(Packets) /\ Len(more) = Len(ps) + 1
      /\ more[Len(ps) + 1] = p
      /\ \A i \in 1 .. Len(ps) : more[i] = ps[i]
  BY AppendProperties
<1> HIDE DEF more
<1>3. CASE Len(ps) = 0
  <2>1. Len(more) = 1 /\ more[1] = p BY <1>2, <1>3
  <2>2. Flat(ps) = <<>> /\ Flat(more) = p BY <1>3, <2>1, FlatCases
  <2> QED BY <1>1, <2>2, ConcatEmptySeq DEF more
<1>4. CASE Len(ps) = 1
  <2>1. Len(more) = 2 /\ more[2] = p /\ more[1] = ps[1] BY <1>2, <1>4
  <2>2. Flat(ps) = ps[1] /\ Flat(more) = more[1] \o more[2] BY <1>4, <2>1, FlatCases
  <2>3. Flat(more) = Flat(ps) \o p BY <2>1, <2>2
  <2> QED BY <2>3 DEF more
<1>5. \A n \in Nat : n < 2 => n = 0 \/ n = 1 OBVIOUS
<1>6. Len(ps) = 0 \/ Len(ps) = 1 BY <1>5, LenProperties, Zenon
<1> QED BY <1>3, <1>4, <1>6

LEMMA Regrouped ==
  ASSUME NEW S, NEW a \in Seq(S), NEW b \in Seq(S), NEW c \in Seq(S)
  PROVE  a \o b \o c = a \o (b \o c)
BY ConcatAssociative

\* The first of one sequence becomes the last of the one before it.
LEMMA PassedOn ==
  ASSUME NEW S, NEW a \in Seq(S), NEW b \in Seq(S), b # <<>>
  PROVE  Append(a, Head(b)) \o Tail(b) = a \o b
<1> DEFINE h == Head(b)
           u == Tail(b)
           c == Append(a, h)
           l == c \o u
           r == a \o b
<1>1. /\ h \in S /\ h = b[1] /\ u \in Seq(S) /\ Len(u) = Len(b) - 1
      /\ \A i \in 1 .. Len(u) : u[i] = b[i + 1]
  BY HeadTailProperties
<1> HIDE DEF h, u
<1>2. /\ c \in Seq(S) /\ Len(c) = Len(a) + 1 /\ c[Len(a) + 1] = h
      /\ \A i \in 1 .. Len(a) : c[i] = a[i]
  BY <1>1, AppendProperties
<1> HIDE DEF c
<1>3. Len(a) \in Nat /\ Len(b) \in Nat BY LenProperties
<1>4. /\ l \in Seq(S) /\ Len(l) = Len(c) + Len(u)
      /\ \A i \in 1 .. Len(c) + Len(u) : l[i] = IF i <= Len(c) THEN c[i] ELSE u[i - Len(c)]
  BY <1>1, <1>2, Concat
<1>5. /\ r \in Seq(S) /\ Len(r) = Len(a) + Len(b)
      /\ \A i \in 1 .. Len(a) + Len(b) : r[i] = IF i <= Len(a) THEN a[i] ELSE b[i - Len(a)]
  BY Concat
<1> HIDE DEF l, r
<1>6. Len(l) = Len(r) BY <1>1, <1>2, <1>3, <1>4, <1>5
<1>7. ASSUME NEW i \in 1 .. Len(l) PROVE l[i] = r[i]
  <2>1. i \in 1 .. Len(c) + Len(u) BY <1>4
  <2>2. i \in 1 .. Len(a) + Len(b) BY <1>5, <1>6
  <2>3. CASE i <= Len(a) BY <1>2, <1>3, <1>4, <1>5, <2>1, <2>2, <2>3
  <2>4. CASE i = Len(a) + 1
    <3>1. l[i] = h BY <1>2, <1>3, <1>4, <2>1, <2>4
    <3>2. r[i] = b[1] BY <1>3, <1>5, <2>2, <2>4
    <3> QED BY <1>1, <3>1, <3>2
  <2>5. CASE i > Len(a) + 1
    <3>1. l[i] = u[i - (Len(a) + 1)] BY <1>2, <1>3, <1>4, <2>1, <2>5
    <3>2. i - (Len(a) + 1) \in 1 .. Len(u) BY <1>1, <1>3, <2>2, <2>5
    <3>3. u[i - (Len(a) + 1)] = b[(i - (Len(a) + 1)) + 1] BY <1>1, <3>2
    <3>4. (i - (Len(a) + 1)) + 1 = i - Len(a) BY <1>3, <2>2
    <3>5. r[i] = b[i - Len(a)] BY <1>3, <1>5, <2>2, <2>5
    <3> QED BY <3>1, <3>3, <3>4, <3>5
  <2> QED BY <1>3, <2>2, <2>3, <2>4, <2>5
<1>8. l = r BY <1>4, <1>5, <1>6, <1>7, SeqEqual
<1> QED BY <1>8 DEF l, r, c, h, u

LEMMA OnScreen ==
  ASSUME NEW v \in Int, NEW size \in Nat \ {0}
  PROVE  Clamped(v, size) \in 0 .. size - 1
BY DEF Clamped

LEMMA MovedOnScreen ==
  ASSUME CursorOnScreen, NEW p \in Seq(Byte), Len(p) = 3
  PROVE  /\ Moved(cursor, p).x \in 0 .. WIDTH - 1
         /\ Moved(cursor, p).y \in 0 .. HEIGHT - 1
<1>1. p[2] \in Byte /\ p[3] \in Byte
  <2>1. 2 \in 1 .. Len(p) /\ 3 \in 1 .. Len(p) OBVIOUS
  <2> QED BY <2>1, ElementOfSeq
<1>2. dx(p) \in Int /\ dy(p) \in Int
  <2> DEFINE x == p[2]
             y == p[3]
             s == Bit(p[1], 16)
             t == Bit(p[1], 32)
  <2>0. \A z \in Byte : z \in Int BY DEF Byte
  <2>1. x \in Int /\ y \in Int BY <1>1, <2>0
  <2> HIDE DEF x, y, s, t
  <2>2. x - (IF s THEN 256 ELSE 0) \in Int /\ y - (IF t THEN 256 ELSE 0) \in Int
    BY <2>1
  <2> QED BY <2>2 DEF dx, dy, x, y, s, t
<1>3. cursor.x + dx(p) \in Int /\ cursor.y - dy(p) \in Int
  BY <1>2, MouseAssumption DEF CursorOnScreen
<1>4. /\ Clamped(cursor.x + dx(p), WIDTH) \in 0 .. WIDTH - 1
      /\ Clamped(cursor.y - dy(p), HEIGHT) \in 0 .. HEIGHT - 1
  BY <1>3, OnScreen, MouseAssumption
<1> QED BY <1>4 DEF Moved

---------------------------------------------------------------------------
(* Its steps.                                                              *)

LEMMA MouseStarts == MouseInit => MouseInv
<1> SUFFICES ASSUME MouseInit PROVE MouseInv OBVIOUS
<1> USE DEF MouseInit
<1>1. MouseTypes BY EmptySeq DEF MouseTypes
<1>2. <<>> \o <<>> \o <<>> = <<>> BY ConcatEmptySeq
<1>3. PacketsInOrder BY <1>2 DEF PacketsInOrder, Flat
<1>4. CursorOnScreen BY MouseAssumption DEF CursorOnScreen
<1> QED BY <1>1, <1>3, <1>4 DEF MouseInv

LEMMA ReportInStep ==
  ASSUME MouseInv, NEW p \in Packets, Report(p)
  PROVE  MouseInv'
<1> USE DEF MouseInv, MouseTypes, Report
<1>1. p \in Seq(Byte) BY PacketBytes
<1>2. MouseTypes' BY <1>1, AppendProperties, LenProperties
<1>3. PacketsInOrder'
  <2> SUFFICES ASSUME ~ mouse_lost PROVE (packet \o mouse_ring \o p) = Flat(due')
    BY DEF PacketsInOrder
  <2>1. packet \o mouse_ring \o <<>> = Flat(due) BY DEF PacketsInOrder
  <2>2. packet \o mouse_ring \in Seq(Byte) BY ConcatProperties
  <2>3. packet \o mouse_ring = Flat(due) BY <2>1, <2>2, ConcatEmptySeq
  <2>4. Flat(due') = Flat(due) \o p BY FlatOfMore
  <2> QED BY <2>3, <2>4
<1>4. CursorOnScreen' BY DEF CursorOnScreen
<1> QED BY <1>2, <1>3, <1>4

\* The byte goes from the front of what is sent to the end of the ring.
LEMMA TopInStep ==
  ASSUME MouseInv, mouse_top_callback
  PROVE  MouseInv'
<1> DEFINE byte == Head(sending)
           rest == Tail(sending)
           ring == Append(mouse_ring, byte)
<1>1. /\ sending \in Seq(Byte) /\ mouse_ring \in Seq(Byte) /\ packet \in Seq(Byte)
      /\ Len(packet) <= 2 /\ due \in Seq(Packets) /\ Len(due) <= 2
      /\ PacketsInOrder /\ CursorOnScreen
  BY DEF MouseInv, MouseTypes
<1>2. /\ sending # <<>> /\ sending' = rest /\ UNCHANGED <<packet, cursor>>
      /\ \/ mouse_lost' = TRUE /\ due' = <<>> /\ mouse_ring' = mouse_ring
         \/ mouse_ring' = ring /\ mouse_lost' = mouse_lost /\ due' = due
  BY DEF mouse_top_callback
<1>3. byte \in Byte /\ rest \in Seq(Byte)
  BY <1>1, <1>2, HeadTailProperties, SMTT(30)
<1>4. ring \in Seq(Byte) BY <1>1, <1>3, AppendProperties
<1>5. ring \o rest = mouse_ring \o sending BY <1>1, <1>2, PassedOn
<1> HIDE DEF byte, rest, ring
<1>6. packet \o ring \o rest = packet \o mouse_ring \o sending
  <2>1. \A a, b, c \in Seq(Byte) : a \o b \o c = a \o (b \o c) BY Regrouped
  <2>2. packet \o ring \o rest = packet \o (ring \o rest) BY <1>1, <1>3, <1>4, <2>1, SMTT(30)
  <2>3. packet \o mouse_ring \o sending = packet \o (mouse_ring \o sending) BY <1>1, <2>1
  <2> QED BY <1>5, <2>2, <2>3, Zenon
<1>7. MouseTypes'
  <2>1. mouse_ring' \in Seq(Byte) BY <1>1, <1>2, <1>4, Zenon
  <2>2. <<>> \in Seq(Packets) /\ Len(<<>>) = 0 BY EmptySeq
  <2>3. Len(<<>>) <= 2 BY <2>2
  <2>4. due' = due \/ due' = <<>> BY <1>2, Zenon
  <2>5. due' \in Seq(Packets) /\ Len(due') <= 2 BY <1>1, <2>2, <2>3, <2>4, Zenon
  <2>6. sending' \in Seq(Byte) BY <1>2, <1>3
  <2>7. packet' \in Seq(Byte) /\ Len(packet') <= 2
    <3>1. packet' = packet BY <1>2
    <3> QED BY <1>1, <3>1
  <2> QED BY <2>1, <2>5, <2>6, <2>7 DEF MouseTypes
<1>8. PacketsInOrder'
  <2>1. CASE mouse_lost' = TRUE BY <2>1 DEF PacketsInOrder
  <2>2. CASE mouse_ring' = ring /\ mouse_lost' = mouse_lost /\ due' = due
    <3> SUFFICES ASSUME ~ mouse_lost PROVE packet \o ring \o rest = Flat(due)
      <4>1. packet' = packet /\ sending' = rest BY <1>2
      <4> QED BY <2>2, <4>1 DEF PacketsInOrder
    <3> QED BY <1>1, <1>6 DEF PacketsInOrder
  <2> QED BY <1>2, <2>1, <2>2, Zenon
<1>9. CursorOnScreen' BY <1>1, <1>2 DEF CursorOnScreen
<1> QED BY <1>7, <1>8, <1>9 DEF MouseInv

\* The byte goes on to the packet; the third one completes it.
LEMMA BottomInStep ==
  ASSUME MouseInv, mouse_bottom_callback
  PROVE  MouseInv'
<1> DEFINE byte == Head(mouse_ring)
           rest == Tail(mouse_ring)
           gathered == Append(packet, byte)
<1>1. /\ sending \in Seq(Byte) /\ mouse_ring \in Seq(Byte) /\ packet \in Seq(Byte)
      /\ Len(packet) <= 2 /\ due \in Seq(Packets) /\ Len(due) <= 2
      /\ PacketsInOrder /\ CursorOnScreen
  BY DEF MouseInv, MouseTypes
<1>2. /\ mouse_ring # <<>> /\ mouse_ring' = rest
      /\ UNCHANGED <<sending, mouse_lost>>
      /\ \/ /\ packet = <<>> /\ ~ Bit(byte, 8)
            /\ UNCHANGED <<packet, cursor, mouse_event, due>>
         \/ /\ ~ (packet = <<>> /\ ~ Bit(byte, 8)) /\ Len(gathered) < 3
            /\ packet' = gathered /\ UNCHANGED <<cursor, mouse_event, due>>
         \/ /\ ~ (packet = <<>> /\ ~ Bit(byte, 8)) /\ ~ Len(gathered) < 3
            /\ packet' = <<>> /\ cursor' = Moved(cursor, gathered)
            /\ due' = IF due = <<>> THEN due ELSE Tail(due)
  BY Zenon DEF mouse_bottom_callback
<1>3. byte \in Byte /\ rest \in Seq(Byte) /\ byte = mouse_ring[1]
  BY <1>1, <1>2, HeadTailProperties
<1>4. gathered \in Seq(Byte) /\ Len(gathered) = Len(packet) + 1
  BY <1>1, <1>3, AppendProperties
<1>5. gathered \o rest = packet \o mouse_ring BY <1>1, <1>2, PassedOn
<1>6. gathered \o rest \o sending = packet \o mouse_ring \o sending BY <1>5
<1>7. Len(packet) \in Nat /\ Len(due) \in Nat BY <1>1, LenProperties
<1>11. \A n \in Nat : n # 0 /\ n <= 2 => n \in 1 .. 2 OBVIOUS
<1> HIDE DEF byte, rest, gathered
<1>8. CASE packet = <<>> /\ ~ Bit(byte, 8)
  <2>1. UNCHANGED <<sending, mouse_lost, packet, cursor, due>> BY <1>2, <1>8, Zenon
  <2>2. MouseTypes' BY <1>1, <1>2, <1>3, <2>1 DEF MouseTypes
  <2>3. CursorOnScreen' BY <1>1, <2>1 DEF CursorOnScreen
  <2>4. ASSUME ~ mouse_lost PROVE FALSE
    <3>1. packet \o mouse_ring \o sending = Flat(due) BY <1>1, <2>4 DEF PacketsInOrder
    <3>2. packet \o mouse_ring = mouse_ring BY <1>1, <1>8, ConcatEmptySeq
    <3>3. mouse_ring \o sending = Flat(due) BY <3>1, <3>2
    <3>4. /\ Len(mouse_ring \o sending) = Len(mouse_ring) + Len(sending)
          /\ \A i \in 1 .. Len(mouse_ring) + Len(sending) :
               (mouse_ring \o sending)[i] = IF i <= Len(mouse_ring) THEN mouse_ring[i]
                                            ELSE sending[i - Len(mouse_ring)]
      BY <1>1, Concat
    <3>5. Len(mouse_ring) \in Nat \ {0} /\ Len(sending) \in Nat
      BY <1>1, <1>2, EmptySeq, LenProperties
    <3>6. (mouse_ring \o sending)[1] = mouse_ring[1] BY <3>4, <3>5
    <3>7. Len(Flat(due)) # 0 BY <3>3, <3>4, <3>5
    <3>8. Len(due) # 0
      <4> SUFFICES ASSUME Len(due) = 0 PROVE FALSE OBVIOUS
      <4>1. Flat(due) = <<>> BY FlatCases
      <4>2. Len(<<>>) = 0 BY EmptySeq
      <4> QED BY <3>7, <4>1, <4>2
    <3>9. Len(due) \in 1 .. 2 BY <1>1, <1>7, <1>11, <3>8, Zenon
    <3>10. Bit(Flat(due)[1], 8) BY <1>1, <3>9, FlatOfDue
    <3> QED BY <1>3, <1>8, <3>3, <3>6, <3>10
  <2>5. PacketsInOrder' BY <2>1, <2>4 DEF PacketsInOrder
  <2> QED BY <2>2, <2>3, <2>5 DEF MouseInv
<1>9. CASE ~ (packet = <<>> /\ ~ Bit(byte, 8)) /\ Len(gathered) < 3
  <2>1. packet' = gathered /\ UNCHANGED <<sending, mouse_lost, cursor, due>>
    BY <1>2, <1>9, Zenon
  <2>2. Len(gathered) <= 2 BY <1>4, <1>7, <1>9
  <2>3. MouseTypes' BY <1>1, <1>2, <1>3, <1>4, <2>1, <2>2 DEF MouseTypes
  <2>4. CursorOnScreen' BY <1>1, <2>1 DEF CursorOnScreen
  <2>5. PacketsInOrder'
    <3> SUFFICES ASSUME ~ mouse_lost PROVE gathered \o rest \o sending = Flat(due)
      <4>1. /\ packet' = gathered /\ mouse_ring' = rest /\ sending' = sending
            /\ due' = due /\ mouse_lost' = mouse_lost
        BY <1>2, <2>1
      <4> QED BY <4>1 DEF PacketsInOrder
    <3> QED BY <1>1, <1>6 DEF PacketsInOrder
  <2> QED BY <2>3, <2>4, <2>5 DEF MouseInv
<1>10. CASE ~ (packet = <<>> /\ ~ Bit(byte, 8)) /\ ~ Len(gathered) < 3
  <2>1. /\ packet' = <<>> /\ cursor' = Moved(cursor, gathered)
        /\ due' = IF due = <<>> THEN due ELSE Tail(due)
        /\ UNCHANGED <<sending, mouse_lost>>
    BY <1>2, <1>10, Zenon
  <2>2. Len(gathered) = 3 BY <1>1, <1>4, <1>7, <1>10
  <2>3. CursorOnScreen' BY <1>1, <1>4, <2>1, <2>2, MovedOnScreen DEF CursorOnScreen
  <2>4. due' \in Seq(Packets) /\ Len(due') <= 2
    <3>1. CASE due = <<>> BY <1>1, <2>1, <3>1
    <3>2. CASE due # <<>>
      <4>1. Tail(due) \in Seq(Packets) /\ Len(Tail(due)) = Len(due) - 1
        BY <1>1, <3>2, HeadTailProperties
      <4>2. Len(due) - 1 <= 2 BY <1>1, <1>7
      <4> QED BY <2>1, <3>2, <4>1, <4>2
    <3> QED BY <3>1, <3>2
  <2>5. <<>> \in Seq(Byte) /\ Len(<<>>) <= 2
    <3>1. <<>> \in Seq(Byte) /\ Len(<<>>) = 0 BY EmptySeq
    <3> QED BY <3>1
  <2>6. MouseTypes' BY <1>1, <1>2, <1>3, <2>1, <2>4, <2>5 DEF MouseTypes
  <2>7. PacketsInOrder'
    <3> SUFFICES ASSUME ~ mouse_lost PROVE <<>> \o rest \o sending = Flat(due')
      BY <1>2, <2>1 DEF PacketsInOrder
    <3> DEFINE tail == rest \o sending
               left == Flat(Tail(due))
    <3>1. gathered \o rest \o sending = Flat(due) BY <1>1, <1>6 DEF PacketsInOrder
    <3>2. gathered \o tail = Flat(due)
      <4>1. (gathered \o rest) \o sending = gathered \o (rest \o sending)
        <5>1. /\ gathered \in Seq(Byte) /\ rest \in Seq(Byte) /\ sending \in Seq(Byte)
          BY <1>1, <1>3, <1>4
        <5>2. \A a, b, c \in Seq(Byte) : a \o b \o c = a \o (b \o c) BY Regrouped
        <5> QED BY <5>1, <5>2
      <4> QED BY <3>1, <4>1
    <3>3. tail \in Seq(Byte) BY <1>1, <1>3, ConcatProperties
    <3>4. Len(tail) \in Nat BY <3>3, LenProperties
    <3> HIDE DEF tail
    <3>5. /\ Len(gathered \o tail) = 3 + Len(tail)
          /\ \A i \in 1 .. 3 + Len(tail) :
               (gathered \o tail)[i] = IF i <= 3 THEN gathered[i] ELSE tail[i - 3]
      <4>1. /\ Len(gathered \o tail) = Len(gathered) + Len(tail)
            /\ \A i \in 1 .. Len(gathered) + Len(tail) :
                 (gathered \o tail)[i] = IF i <= Len(gathered) THEN gathered[i]
                                         ELSE tail[i - Len(gathered)]
        BY <1>4, <3>3, Concat
      <4> QED BY <2>2, <4>1
    <3>6. Len(Flat(due)) = 3 + Len(tail) BY <3>2, <3>5
    <3>7. Len(due) # 0
      <4> SUFFICES ASSUME Len(due) = 0 PROVE FALSE OBVIOUS
      <4>1. Flat(due) = <<>> BY FlatCases
      <4>2. Len(<<>>) = 0 BY EmptySeq
      <4>3. 3 + Len(tail) = 0 BY <3>6, <4>1, <4>2
      <4> QED BY <3>4, <4>3
    <3>8. Len(due) \in 1 .. 2 BY <1>1, <1>7, <1>11, <3>7, Zenon
    <3>9. /\ Len(Flat(due)) = 3 * Len(due)
          /\ left \in Seq(Byte) /\ Len(left) = 3 * (Len(due) - 1)
          /\ \A i \in 1 .. 3 * (Len(due) - 1) : left[i] = Flat(due)[i + 3]
      BY <1>1, <3>8, FlatOfDue
    <3> HIDE DEF left
    <3>10. Len(tail) = 3 * (Len(due) - 1) /\ Len(tail) = Len(left)
      BY <1>7, <3>4, <3>6, <3>9
    <3>11. ASSUME NEW i \in 1 .. Len(tail) PROVE tail[i] = left[i]
      <4>1. i + 3 \in 1 .. 3 + Len(tail) /\ ~ i + 3 <= 3 /\ (i + 3) - 3 = i BY <3>4
      <4>2. (gathered \o tail)[i + 3] = tail[(i + 3) - 3] BY <3>5, <4>1
      <4>3. left[i] = Flat(due)[i + 3] BY <3>9, <3>10
      <4> QED BY <3>2, <4>1, <4>2, <4>3
    <3>12. tail = left BY <3>3, <3>9, <3>10, <3>11, SeqEqual
    <3>13. due # <<>>
      <4>1. Len(<<>>) = 0 BY EmptySeq
      <4> QED BY <3>7, <4>1
    <3>14. Flat(due') = left BY <2>1, <3>13 DEF left
    <3>15. <<>> \o rest = rest BY <1>3, ConcatEmptySeq
    <3> QED BY <3>12, <3>14, <3>15 DEF tail
  <2> QED BY <2>3, <2>6, <2>7 DEF MouseInv
<1> QED BY <1>8, <1>9, <1>10

(***************************************************************************)
(* Whatever the motions, the size of the ring and the screen: until a byte *)
(* is dropped, no packet is misread, and the cursor never leaves the       *)
(* screen (drivers/mouse.c:151, 175).                                      *)
(***************************************************************************)
THEOREM MouseStaysInStep == MouseSpec => []InStep
<1>1. MouseInit => MouseInv BY MouseStarts
<1>2. MouseInv /\ [MouseNext]_mouseVars => MouseInv'
  <2> SUFFICES ASSUME MouseInv, [MouseNext]_mouseVars PROVE MouseInv' OBVIOUS
  <2>1. CASE UNCHANGED mouseVars
    BY <2>1 DEF mouseVars, MouseInv, MouseTypes, PacketsInOrder, CursorOnScreen
  <2>2. ASSUME NEW p \in Packets, Report(p) PROVE MouseInv' BY <2>2, ReportInStep
  <2>3. CASE mouse_top_callback BY <2>3, TopInStep
  <2>4. CASE mouse_bottom_callback BY <2>4, BottomInStep
  <2> QED BY <2>1, <2>2, <2>3, <2>4 DEF MouseNext
<1>3. MouseInv => InStep BY DEF MouseInv, InStep
<1> QED BY <1>1, <1>2, <1>3, PTL DEF MouseSpec

---------------------------------------------------------------------------
(* The keyboard.                                                           *)

Flags == {"SHIFT", "CTRL", "CAPSLOCK"}

\* The keys that set a flag while they are down.
Setters(flag) == IF flag = "SHIFT" THEN Shifts ELSE Ctrls

Code == [key : Keys, pressed : BOOLEAN, meant : SUBSET Flags]

KeyTypes ==
  /\ held \subseteq Keys
  /\ scancode_buffer \in Seq(Code)
  /\ current_modifiers \in SUBSET Flags
  /\ key_lost \in BOOLEAN /\ mixed \in BOOLEAN

\* What was meant before the i-th code of the buffer.
Before(i) == IF i = 1 THEN current_modifiers ELSE scancode_buffer[i - 1].meant

\* What the driver makes of the i-th code, if it was right before it.
Made(i) == update_modifiers(Before(i), scancode_buffer[i].key, scancode_buffer[i].pressed)

\* Each code leads from what was meant before to what is meant with it; where
\* two keys of a flag were down, it does not leave the flag set at least.
Chained ==
  \A i \in 1 .. Len(scancode_buffer) :
    /\ ~ mixed => Made(i) = scancode_buffer[i].meant
    /\ \A flag \in {"SHIFT", "CTRL"} : flag \in Made(i) => flag \in scancode_buffer[i].meant

\* What is meant with the last code is what is down.
Settled ==
  \A flag \in {"SHIFT", "CTRL"} :
    /\ flag \in Before(Len(scancode_buffer) + 1) => held \cap Setters(flag) # {}
    /\ ~ mixed /\ held \cap Setters(flag) # {} => flag \in Before(Len(scancode_buffer) + 1)

\* Two keys of a flag are down only where mixed says so.
Unmixed ==
  ~ mixed => \A flag \in {"SHIFT", "CTRL"} : ~ Twice(held \cap Setters(flag))

KeyboardInv ==
  /\ KeyTypes
  /\ Unmixed
  /\ ~ key_lost => Chained /\ Settled /\ EventsAsTyped

LEMMA UpdateIs ==
  ASSUME NEW modifiers \in SUBSET Flags, NEW key, NEW pressed \in BOOLEAN
  PROVE  LET made == update_modifiers(modifiers, key, pressed)
         IN  /\ made \in SUBSET Flags
             /\ \A flag \in {"SHIFT", "CTRL"} :
                  flag \in made <=> IF key \in Setters(flag) THEN pressed ELSE flag \in modifiers
             /\ "CAPSLOCK" \in made <=>
                  IF key \in Caps /\ pressed THEN "CAPSLOCK" \notin modifiers
                  ELSE "CAPSLOCK" \in modifiers
<1> DEFINE made == update_modifiers(modifiers, key, pressed)
<1>1. CASE key \in Shifts
  <2>1. key \notin Ctrls /\ key \notin Caps BY <1>1, KeyboardAssumption
  <2>2. made = IF pressed THEN modifiers \union {"SHIFT"} ELSE modifiers \ {"SHIFT"}
    BY <1>1, <2>1 DEF update_modifiers, Switched
  <2> HIDE DEF made
  <2> QED BY <1>1, <2>1, <2>2 DEF Flags, Setters, made
<1>2. CASE key \in Ctrls
  <2>1. key \notin Shifts /\ key \notin Caps BY <1>2, KeyboardAssumption
  <2>2. made = IF pressed THEN modifiers \union {"CTRL"} ELSE modifiers \ {"CTRL"}
    BY <1>2, <2>1 DEF update_modifiers, Switched
  <2> HIDE DEF made
  <2> QED BY <1>2, <2>1, <2>2 DEF Flags, Setters, made
<1>3. CASE key \in Caps /\ pressed
  <2>1. key \notin Shifts /\ key \notin Ctrls BY <1>3, KeyboardAssumption
  <2>2. made = IF "CAPSLOCK" \notin modifiers THEN modifiers \union {"CAPSLOCK"}
               ELSE modifiers \ {"CAPSLOCK"}
    BY <1>3, <2>1 DEF update_modifiers, Switched
  <2> HIDE DEF made
  <2> QED BY <1>3, <2>1, <2>2 DEF Flags, Setters, made
<1>4. CASE key \notin Shifts /\ key \notin Ctrls /\ ~ (key \in Caps /\ pressed)
  <2>1. made = modifiers BY <1>4 DEF update_modifiers
  <2> HIDE DEF made
  <2> QED BY <1>4, <2>1 DEF Flags, Setters, made
<1> QED BY <1>1, <1>2, <1>3, <1>4

\* The same of a code.
LEMMA UpdateOf ==
  ASSUME NEW modifiers \in SUBSET Flags, NEW code \in Code
  PROVE  /\ update_modifiers(modifiers, code.key, code.pressed) \in SUBSET Flags
         /\ \A flag \in {"SHIFT", "CTRL"} :
              flag \in update_modifiers(modifiers, code.key, code.pressed) <=>
                IF code.key \in Setters(flag) THEN code.pressed = TRUE ELSE flag \in modifiers
<1>1. PICK key, pressed : key = code.key /\ pressed = code.pressed OBVIOUS
<1>2. pressed \in BOOLEAN BY <1>1 DEF Code
<1>3. /\ update_modifiers(modifiers, key, pressed) \in SUBSET Flags
      /\ \A flag \in {"SHIFT", "CTRL"} :
           flag \in update_modifiers(modifiers, key, pressed) <=>
             IF key \in Setters(flag) THEN pressed ELSE flag \in modifiers
  BY <1>2, UpdateIs
<1>4. /\ update_modifiers(modifiers, key, pressed) \in SUBSET Flags
      /\ \A flag \in {"SHIFT", "CTRL"} :
           flag \in update_modifiers(modifiers, key, pressed) <=>
             IF key \in Setters(flag) THEN pressed = TRUE ELSE flag \in modifiers
  BY <1>2, <1>3
<1> QED BY <1>1, <1>4

LEMMA MeantIs ==
  ASSUME NEW down \in SUBSET Keys, NEW caps \in SUBSET {"CAPSLOCK"}
  PROVE  /\ Meant(down, caps) \in SUBSET Flags
         /\ \A flag \in {"SHIFT", "CTRL"} :
              flag \in Meant(down, caps) <=> down \cap Setters(flag) # {}
         /\ "CAPSLOCK" \in Meant(down, caps) <=> "CAPSLOCK" \in caps
<1>1. Meant(down, caps) \in SUBSET Flags BY DEF Meant, Flags
<1>2. "SHIFT" \in Meant(down, caps) <=> down \cap Shifts # {} BY DEF Meant
<1>3. "CTRL" \in Meant(down, caps) <=> down \cap Ctrls # {} BY DEF Meant
<1>4. "CAPSLOCK" \in Meant(down, caps) <=> "CAPSLOCK" \in caps BY DEF Meant
<1> QED BY <1>1, <1>2, <1>3, <1>4 DEF Setters

LEMMA BeforeIs ==
  ASSUME KeyTypes
  PROVE  /\ \A i \in 1 .. Len(scancode_buffer) + 1 : Before(i) \in SUBSET Flags
         /\ CapsMeant = Before(Len(scancode_buffer) + 1) \cap {"CAPSLOCK"}
<1>1. Len(scancode_buffer) \in Nat BY DEF KeyTypes
<1>2. ASSUME NEW i \in 1 .. Len(scancode_buffer) + 1 PROVE Before(i) \in SUBSET Flags
  <2>1. CASE i = 1 BY <2>1 DEF Before, KeyTypes
  <2>2. CASE i # 1
    <3>1. i - 1 \in 1 .. Len(scancode_buffer) BY <1>1, <2>2
    <3>2. scancode_buffer[i - 1] \in Code BY <3>1 DEF KeyTypes
    <3> QED BY <2>2, <3>2 DEF Before, Code
  <2> QED BY <2>1, <2>2
<1>3. CapsMeant = Before(Len(scancode_buffer) + 1) \cap {"CAPSLOCK"}
  <2>1. CASE scancode_buffer = <<>> BY <2>1 DEF Before, CapsMeant
  <2>2. CASE scancode_buffer # <<>>
    <3>1. Len(scancode_buffer) # 0 BY <2>2, EmptySeq DEF KeyTypes
    <3> QED BY <1>1, <2>2, <3>1 DEF Before, CapsMeant
  <2> QED BY <2>1, <2>2
<1> QED BY <1>2, <1>3

\* A key that moves: its code is appended with what is then meant.
LEMMA MoveKeeps ==
  ASSUME KeyboardInv, ~ key_lost,
         NEW key \in Keys, NEW pressed \in BOOLEAN, NEW caps \in SUBSET {"CAPSLOCK"},
         caps = (IF key \in Caps /\ pressed THEN {"CAPSLOCK"} \ CapsMeant ELSE CapsMeant),
         held' = (IF pressed THEN held \union {key} ELSE held \ {key}),
         pressed \/ key \in held,
         keyboard_top_callback(key, pressed, Meant(held', caps)),
         mixed' \in BOOLEAN, mixed => mixed', Unmixed',
         UNCHANGED <<current_modifiers, key_event>>
  PROVE  KeyboardInv'
<1> DEFINE meant == Meant(held', caps)
           code == [key |-> key, pressed |-> pressed, meant |-> meant]
<1>1. KeyTypes /\ Unmixed /\ Chained /\ Settled /\ EventsAsTyped BY DEF KeyboardInv
<1>0. PICK n : n = Len(scancode_buffer) OBVIOUS
<1>2. n \in Nat /\ held' \in SUBSET Keys BY <1>0, <1>1 DEF KeyTypes
<1>3. /\ meant \in SUBSET Flags
      /\ \A flag \in {"SHIFT", "CTRL"} : flag \in meant <=> held' \cap Setters(flag) # {}
      /\ "CAPSLOCK" \in meant <=> "CAPSLOCK" \in caps
  BY <1>2, MeantIs
<1>4. code \in Code BY <1>3 DEF Code
<1>5. CASE key_lost' = TRUE /\ UNCHANGED scancode_buffer
  BY <1>1, <1>2, <1>5 DEF KeyboardInv, KeyTypes
<1>6. CASE scancode_buffer' = Append(scancode_buffer, code) /\ UNCHANGED key_lost
  <2> HIDE DEF meant
  <2>1. KeyTypes' BY <1>1, <1>2, <1>4, <1>6, AppendProperties DEF KeyTypes
  <2>2. /\ Len(scancode_buffer') = n + 1
        /\ scancode_buffer'[n + 1] = code
        /\ \A i \in 1 .. n : scancode_buffer'[i] = scancode_buffer[i]
    BY <1>0, <1>1, <1>4, <1>6, AppendProperties DEF KeyTypes
  <2>3. ASSUME NEW i \in 1 .. n + 1 PROVE Before(i)' = Before(i)
    <3>1. CASE i = 1 BY <3>1 DEF Before
    <3>2. CASE i # 1
      <4>1. i - 1 \in 1 .. n BY <1>2, <3>2
      <4> QED BY <2>2, <3>2, <4>1 DEF Before
    <3> QED BY <3>1, <3>2
  <2>4. Before(n + 2)' = meant
    <3>1. n + 2 # 1 /\ (n + 2) - 1 = n + 1 BY <1>2
    <3> QED BY <2>2, <3>1 DEF Before
  <2>5. ASSUME NEW i \in 1 .. n PROVE Made(i)' = Made(i)
    <3>1. i \in 1 .. n + 1 BY <1>2
    <3> QED BY <2>2, <2>3, <3>1 DEF Made
  <2>6. Made(n + 1)' = update_modifiers(Before(n + 1), key, pressed)
    <3>1. n + 1 \in 1 .. n + 1 BY <1>2
    <3> QED BY <2>2, <2>3, <3>1 DEF Made
  <2>7. Before(n + 1) \in SUBSET Flags /\ CapsMeant = Before(n + 1) \cap {"CAPSLOCK"}
    BY <1>0, <1>1, <1>2, BeforeIs
  <2>8. /\ Made(n + 1)' \in SUBSET Flags
        /\ \A flag \in {"SHIFT", "CTRL"} :
             flag \in Made(n + 1)' <=>
               IF key \in Setters(flag) THEN pressed ELSE flag \in Before(n + 1)
        /\ "CAPSLOCK" \in Made(n + 1)' <=>
             IF key \in Caps /\ pressed THEN "CAPSLOCK" \notin Before(n + 1)
             ELSE "CAPSLOCK" \in Before(n + 1)
    BY <2>6, <2>7, UpdateIs
  <2>9. ASSUME NEW flag \in {"SHIFT", "CTRL"}
        PROVE  /\ flag \in Made(n + 1)' => flag \in meant
               /\ ~ mixed' /\ flag \in meant => flag \in Made(n + 1)'
    <3>1. /\ flag \in Before(n + 1) => held \cap Setters(flag) # {}
          /\ ~ mixed /\ held \cap Setters(flag) # {} => flag \in Before(n + 1)
      BY <1>0, <1>1 DEF Settled
    <3>2. CASE key \in Setters(flag) /\ pressed BY <1>3, <2>8, <3>2
    <3>3. CASE key \in Setters(flag) /\ ~ pressed
      <4>1. flag \notin Made(n + 1)' BY <2>8, <3>3
      <4>2. ASSUME ~ mixed', flag \in meant PROVE FALSE
        <5>1. PICK q \in held' \cap Setters(flag) : TRUE BY <1>3, <4>2
        <5>2. q \in held \cap Setters(flag) /\ q # key /\ key \in held \cap Setters(flag)
          BY <3>3, <5>1
        <5>3. Twice(held \cap Setters(flag)) BY <5>2 DEF Twice
        <5> QED BY <1>1, <4>2, <5>3 DEF Unmixed
      <4> QED BY <4>1, <4>2
    <3>4. CASE key \notin Setters(flag)
      <4>1. held' \cap Setters(flag) = held \cap Setters(flag) BY <3>4
      <4> QED BY <1>3, <2>8, <3>1, <3>4, <4>1
    <3> QED BY <3>2, <3>3, <3>4
  <2>10. "CAPSLOCK" \in Made(n + 1)' <=> "CAPSLOCK" \in meant BY <1>3, <2>7, <2>8
  <2>11. ~ mixed' => Made(n + 1)' = meant
    <3> SUFFICES ASSUME ~ mixed' PROVE Made(n + 1)' = meant OBVIOUS
    <3>1. \A flag \in {"SHIFT", "CTRL", "CAPSLOCK"} : flag \in Made(n + 1)' <=> flag \in meant
      BY <2>9, <2>10
    <3>2. \A x : x \in Made(n + 1)' => x \in meant BY <2>8, <3>1 DEF Flags
    <3>3. \A x : x \in meant => x \in Made(n + 1)' BY <1>3, <3>1 DEF Flags
    <3> QED BY <3>2, <3>3
  <2>12. Chained'
    <3> SUFFICES ASSUME NEW i \in 1 .. n + 1
                 PROVE  /\ ~ mixed' => Made(i)' = scancode_buffer'[i].meant
                        /\ \A flag \in {"SHIFT", "CTRL"} :
                             flag \in Made(i)' => flag \in scancode_buffer'[i].meant
      BY <2>2 DEF Chained
    <3>1. CASE i \in 1 .. n
      <4>1. mixed' = FALSE => mixed = FALSE BY <1>1, <2>1 DEF KeyTypes
      <4> QED BY <1>0, <1>1, <2>2, <2>5, <3>1, <4>1 DEF Chained
    <3>2. CASE i = n + 1
      <4>1. scancode_buffer'[i].meant = meant BY <2>2, <3>2
      <4> QED BY <2>9, <2>11, <3>2, <4>1
    <3> QED BY <1>2, <3>1, <3>2
  <2>13. Settled'
    <3>1. Len(scancode_buffer') + 1 = n + 2 BY <1>2, <2>2
    <3>2. \A flag \in {"SHIFT", "CTRL"} : Setters(flag)' = Setters(flag) BY DEF Setters
    <3> QED BY <1>3, <2>4, <3>1, <3>2 DEF Settled
  <2>14. EventsAsTyped' BY <1>1, <1>6 DEF EventsAsTyped
  <2> QED BY <2>1, <2>12, <2>13, <2>14 DEF KeyboardInv
<1> QED BY <1>5, <1>6 DEF keyboard_top_callback

LEMMA PressKeeps ==
  ASSUME KeyboardInv, NEW key \in Keys, PressKey(key) PROVE KeyboardInv'
<1> DEFINE caps == IF key \in Caps THEN {"CAPSLOCK"} \ CapsMeant ELSE CapsMeant
<1>1. held' = held \union {key} /\ ~ key_lost
  BY DEF PressKey
<1>2. keyboard_top_callback(key, TRUE, Meant(held', caps)) BY DEF PressKey
<1>3. caps \in SUBSET {"CAPSLOCK"} BY DEF CapsMeant
<1>4. /\ mixed' = (mixed \/ Twice(held' \cap Shifts) \/ Twice(held' \cap Ctrls))
      /\ UNCHANGED <<current_modifiers, key_event>>
  BY DEF PressKey
<1>5. mixed' \in BOOLEAN /\ (mixed => mixed') BY <1>4
<1>6. Unmixed' BY <1>4, Zenon DEF Unmixed, Setters
<1> HIDE DEF caps
<1>7. caps = IF key \in Caps /\ TRUE THEN {"CAPSLOCK"} \ CapsMeant ELSE CapsMeant BY DEF caps
<1> QED BY <1>1, <1>2, <1>3, <1>4, <1>5, <1>6, <1>7, MoveKeeps

LEMMA ReleaseKeeps ==
  ASSUME KeyboardInv, NEW key \in Keys, ReleaseKey(key) PROVE KeyboardInv'
<1>1. held' = held \ {key} /\ key \in held /\ ~ key_lost BY DEF ReleaseKey
<1>2. keyboard_top_callback(key, FALSE, Meant(held', CapsMeant)) BY DEF ReleaseKey
<1>3. CapsMeant \in SUBSET {"CAPSLOCK"} BY DEF CapsMeant
<1>4. UNCHANGED <<current_modifiers, key_event, mixed>> BY DEF ReleaseKey
<1>5. mixed' \in BOOLEAN /\ (mixed => mixed') BY <1>4 DEF KeyboardInv, KeyTypes
<1>6. Unmixed'
  <2>1. ASSUME NEW flag, Twice(held' \cap Setters(flag)) PROVE Twice(held \cap Setters(flag))
    BY <1>1, <2>1 DEF Twice
  <2>2. Unmixed BY DEF KeyboardInv
  <2>3. \A flag : Setters(flag)' = Setters(flag) BY DEF Setters
  <2> QED BY <1>4, <2>1, <2>2, <2>3 DEF Unmixed
<1>7. CapsMeant = IF key \in Caps /\ FALSE THEN {"CAPSLOCK"} \ CapsMeant ELSE CapsMeant
  OBVIOUS
<1> QED BY <1>1, <1>2, <1>3, <1>4, <1>5, <1>6, <1>7, MoveKeeps

\* A code that is handled: the driver comes to what was meant with it.
LEMMA BottomKeeps ==
  ASSUME KeyboardInv, keyboard_bottom_callback PROVE KeyboardInv'
<1> DEFINE code == scancode_buffer[1]
<1>0. PICK n : n = Len(scancode_buffer) OBVIOUS
<1>1. KeyTypes /\ Unmixed BY DEF KeyboardInv
<1>2. n \in Nat \ {0} /\ Head(scancode_buffer) = code /\ code \in Code
  <2>1. scancode_buffer # <<>> /\ scancode_buffer \in Seq(Code)
    BY <1>1 DEF keyboard_bottom_callback, KeyTypes
  <2>2. n \in Nat /\ n # 0 BY <1>0, <2>1, EmptySeq
  <2>3. 1 \in 1 .. n BY <2>2
  <2> QED BY <1>0, <2>1, <2>2, <2>3, HeadTailProperties
<1>3. /\ current_modifiers' = Made(1)
      /\ scancode_buffer' = Tail(scancode_buffer)
      /\ UNCHANGED <<held, key_lost, mixed>>
      /\ \/ key_event' = key_event
         \/ key_event'.modifiers = Made(1) /\ key_event'.meant = code.meant
  BY <1>2 DEF keyboard_bottom_callback, Made, Before
<1>4. /\ scancode_buffer' \in Seq(Code)
      /\ Len(scancode_buffer') = n - 1
      /\ \A i \in 1 .. n - 1 : scancode_buffer'[i] = scancode_buffer[i + 1]
  <2>1. scancode_buffer # <<>> /\ scancode_buffer \in Seq(Code)
    BY <1>1 DEF keyboard_bottom_callback, KeyTypes
  <2> QED BY <1>0, <1>3, <2>1, HeadTailProperties
<1>5. Before(1) \in SUBSET Flags
  <2>1. 1 \in 1 .. n + 1 BY <1>2
  <2> QED BY <1>0, <1>1, <2>1, BeforeIs
<1>6. Made(1) \in SUBSET Flags BY <1>2, <1>5, UpdateOf DEF Made
<1>7. KeyTypes' BY <1>1, <1>3, <1>4, <1>6 DEF KeyTypes
<1>8. Unmixed' BY <1>1, <1>3, Zenon DEF Unmixed, Setters
<1>9. ASSUME ~ key_lost PROVE Chained' /\ Settled' /\ EventsAsTyped'
  <2>1. Chained /\ Settled /\ EventsAsTyped BY <1>9 DEF KeyboardInv
  <2>2. /\ ~ mixed => Made(1) = code.meant
        /\ \A flag \in {"SHIFT", "CTRL"} : flag \in Made(1) => flag \in code.meant
    <3>1. 1 \in 1 .. n BY <1>2
    <3> QED BY <1>0, <2>1, <3>1 DEF Chained
  <2>3. ASSUME NEW i \in 2 .. n PROVE Before(i)' = Before(i + 1)
    <3>1. i - 1 \in 1 .. n - 1 /\ (i - 1) + 1 = i /\ (i + 1) - 1 = i /\ i # 1 /\ i + 1 # 1
      BY <1>2
    <3> QED BY <1>4, <3>1 DEF Before
  <2>4. Before(1)' = Made(1) BY <1>3 DEF Before
  <2>5. Before(2) = code.meant BY DEF Before
  <2>6. ASSUME NEW i \in 1 .. n - 1
        PROVE  /\ ~ mixed' => Made(i)' = scancode_buffer'[i].meant
               /\ \A flag \in {"SHIFT", "CTRL"} :
                    flag \in Made(i)' => flag \in scancode_buffer'[i].meant
    <3>1. i + 1 \in 1 .. n /\ scancode_buffer'[i] = scancode_buffer[i + 1] BY <1>2, <1>4
    <3>2. /\ ~ mixed => Made(i + 1) = scancode_buffer[i + 1].meant
          /\ \A flag \in {"SHIFT", "CTRL"} :
               flag \in Made(i + 1) => flag \in scancode_buffer[i + 1].meant
      BY <1>0, <2>1, <3>1 DEF Chained
    <3>3. Made(i)' = update_modifiers(Before(i)', scancode_buffer[i + 1].key,
                                      scancode_buffer[i + 1].pressed)
      BY <3>1 DEF Made
    <3>4. CASE i # 1
      <4>1. i \in 2 .. n BY <1>2, <3>4
      <4>2. Made(i)' = Made(i + 1) BY <2>3, <3>3, <4>1 DEF Made
      <4> QED BY <1>3, <3>1, <3>2, <4>2
    <3>5. CASE i = 1
      <4>0. PICK next : next = scancode_buffer[2] OBVIOUS
      <4>a. PICK made, was : made = Made(1) /\ was = code.meant OBVIOUS
      <4>1. 2 \in 1 .. n /\ next \in Code BY <1>0, <1>1, <3>1, <3>5, <4>0 DEF KeyTypes
      <4>2. Made(1)' = update_modifiers(made, next.key, next.pressed)
        BY <2>4, <3>3, <3>5, <4>0, <4>a
      <4>3. Made(2) = update_modifiers(was, next.key, next.pressed)
        BY <2>5, <4>0, <4>a DEF Made
      <4>4. made \in SUBSET Flags /\ was \in SUBSET Flags BY <1>2, <1>6, <4>a DEF Code
      <4>5. \A flag \in {"SHIFT", "CTRL"} :
              flag \in Made(1)' <=> IF next.key \in Setters(flag) THEN next.pressed = TRUE
                                    ELSE flag \in made
        <5>1. \A flag \in {"SHIFT", "CTRL"} :
                flag \in update_modifiers(made, next.key, next.pressed) <=>
                  IF next.key \in Setters(flag) THEN next.pressed = TRUE ELSE flag \in made
          BY <4>1, <4>4, UpdateOf
        <5> QED BY <4>2, <5>1
      <4>6. \A flag \in {"SHIFT", "CTRL"} :
              flag \in Made(2) <=> IF next.key \in Setters(flag) THEN next.pressed = TRUE
                                   ELSE flag \in was
        <5>1. \A flag \in {"SHIFT", "CTRL"} :
                flag \in update_modifiers(was, next.key, next.pressed) <=>
                  IF next.key \in Setters(flag) THEN next.pressed = TRUE ELSE flag \in was
          BY <4>1, <4>4, UpdateOf
        <5> QED BY <4>3, <5>1
      <4>7. \A flag \in {"SHIFT", "CTRL"} : flag \in Made(1)' => flag \in Made(2)
        BY <2>2, <4>5, <4>6, <4>a
      <4>8. ~ mixed => Made(1)' = Made(2) BY <2>2, <4>2, <4>3, <4>a
      <4>9. /\ ~ mixed => Made(2) = scancode_buffer[2].meant
            /\ \A flag \in {"SHIFT", "CTRL"} :
                 flag \in Made(2) => flag \in scancode_buffer[2].meant
        BY <3>2, <3>5
      <4>10. scancode_buffer'[1] = scancode_buffer[2] BY <3>1, <3>5
      <4>11. /\ ~ mixed' => Made(1)' = scancode_buffer'[1].meant
             /\ \A flag \in {"SHIFT", "CTRL"} :
                  flag \in Made(1)' => flag \in scancode_buffer'[1].meant
        BY <1>3, <4>7, <4>8, <4>9, <4>10
      <4> QED BY <3>5, <4>11
    <3> QED BY <3>4, <3>5
  <2>7. Chained' BY <1>4, <2>6 DEF Chained
  <2>8. Settled'
    <3>1. Len(scancode_buffer') + 1 = n BY <1>2, <1>4
    <3>2. \A flag : Setters(flag)' = Setters(flag) BY DEF Setters
    <3>3. /\ \A flag \in {"SHIFT", "CTRL"} : flag \in Before(n)' => flag \in Before(n + 1)
          /\ ~ mixed => Before(n)' = Before(n + 1)
      <4>1. CASE n = 1 BY <2>2, <2>4, <2>5, <4>1
      <4>2. CASE n # 1
        <5>1. n \in 2 .. n BY <1>2, <4>2
        <5> QED BY <2>3, <5>1
      <4> QED BY <4>1, <4>2
    <3> QED BY <1>0, <1>3, <2>1, <3>1, <3>2, <3>3 DEF Settled
  <2>9. EventsAsTyped' BY <1>3, <2>1, <2>2 DEF EventsAsTyped
  <2> QED BY <2>7, <2>8, <2>9
<1> QED BY <1>3, <1>7, <1>8, <1>9 DEF KeyboardInv

LEMMA KeyboardStarts == KeyboardInit => KeyboardInv
<1> SUFFICES ASSUME KeyboardInit PROVE KeyboardInv OBVIOUS
<1>1. held = {} /\ scancode_buffer = <<>> /\ current_modifiers = {} /\ key_event = NoEvent
  BY DEF KeyboardInit
<1>2. Len(scancode_buffer) = 0 BY <1>1
<1>3. KeyTypes
  <2>1. <<>> \in Seq(Code) BY EmptySeq
  <2> QED BY <1>1, <2>1 DEF KeyboardInit, KeyTypes
<1>4. Unmixed BY <1>1 DEF Unmixed, Twice
<1>5. Chained BY <1>2 DEF Chained
<1>6. Settled BY <1>1, <1>2 DEF Settled, Before
<1>7. EventsAsTyped BY <1>1 DEF EventsAsTyped, NoEvent
<1> QED BY <1>3, <1>4, <1>5, <1>6, <1>7 DEF KeyboardInv

(***************************************************************************)
(* However late the bottom half comes, an event has the modifiers that     *)
(* were down when its key moved, and no modifier stays set when its keys   *)
(* are up, until a code is dropped (drivers/keyboard.c:75, 221).           *)
(***************************************************************************)
THEOREM ModifiersStayAsTyped == KeyboardSpec => []ModifiersAsTyped
<1>1. KeyboardInit => KeyboardInv BY KeyboardStarts
<1>2. KeyboardInv /\ [KeyboardNext]_keyboardVars => KeyboardInv'
  <2> SUFFICES ASSUME KeyboardInv, [KeyboardNext]_keyboardVars PROVE KeyboardInv' OBVIOUS
  <2>1. CASE UNCHANGED keyboardVars
    BY <2>1 DEF keyboardVars, KeyboardInv, KeyTypes, Unmixed, Chained, Settled, EventsAsTyped,
                Before, Made
  <2>2. ASSUME NEW key \in Keys, PressKey(key) PROVE KeyboardInv' BY <2>2, PressKeeps
  <2>3. ASSUME NEW key \in Keys, ReleaseKey(key) PROVE KeyboardInv' BY <2>3, ReleaseKeeps
  <2>4. CASE keyboard_bottom_callback BY <2>4, BottomKeeps
  <2> QED BY <2>1, <2>2, <2>3, <2>4 DEF KeyboardNext
<1>3. KeyboardInv => ModifiersAsTyped
  <2> SUFFICES ASSUME KeyboardInv, ~ key_lost PROVE EventsAsTyped /\ NoModifierSticks
    BY DEF ModifiersAsTyped, EventsAsTyped, NoModifierSticks
  <2>1. Settled /\ EventsAsTyped BY DEF KeyboardInv
  <2>2. ASSUME scancode_buffer = <<>>
        PROVE  /\ held \cap Shifts = {} => "SHIFT" \notin current_modifiers
               /\ held \cap Ctrls = {} => "CTRL" \notin current_modifiers
    <3>1. Before(Len(scancode_buffer) + 1) = current_modifiers BY <2>2 DEF Before
    <3> QED BY <2>1, <3>1 DEF Settled, Setters
  <2> QED BY <2>1, <2>2 DEF NoModifierSticks
<1> QED BY <1>1, <1>2, <1>3, PTL DEF KeyboardSpec

---------------------------------------------------------------------------
(* The line editor.                                                        *)

Char == Symbols \union {END}

\* The arrays that are copied into the history.
Arrays == UNION {[0 .. n -> Char] : n \in 0 .. LIMIT}

EditorTypes ==
  /\ keys \in Seq(EditorKeys)
  /\ at \in {"asleep", "awake", "command"}
  /\ buff \in [0 .. LIMIT -> Char] /\ length \in 0 .. LIMIT
  /\ EOI \in BOOLEAN /\ cancelled \in BOOLEAN /\ late \in BOOLEAN
  /\ history \in Seq(Arrays) /\ ran \in Seq(Seq(Symbols))
  /\ typed \in Seq(Symbols) /\ Len(typed) <= LIMIT

\* The array begins with the string.
Spells(array, string) == \A i \in 1 .. Len(string) : array[i - 1] = string[i]

\* While the line is being typed, it is what the buffer has up to length.
Open == ~ EOI /\ ~ cancelled => ~ late /\ length = Len(typed) /\ Spells(buff, typed)

\* Enter or Ctrl+C has put an end behind it, or found the buffer full.
Ended ==
  (EOI \/ cancelled) /\ ~ late =>
    /\ Spells(buff, typed) /\ buff[Len(typed)] = END
    /\ \/ length = Len(typed) + 1
       \/ length = Len(typed) /\ length = LIMIT

HistoryFits == \A i \in 1 .. Len(ran) : Len(ran[i]) <= LIMIT

EditorInv == EditorTypes /\ BufferEnds /\ Open /\ Ended /\ HistoryIsRan /\ HistoryFits

LEMMA LimitIsNat == LIMIT \in Nat BY LineEditorAssumption DEF LIMIT

LEMMA EndIsNoSymbol == END \notin Symbols BY LineEditorAssumption DEF END

LEMMA LeastOfNat ==
  ASSUME NEW S \in SUBSET Nat, S # {}
  PROVE  \E n \in S : \A m \in S : n <= m
<1> DEFINE R == OpToRel(<, Nat)
<1>1. \A m, n \in Nat : m < n => <<m, n>> \in R BY DEF OpToRel
<1>2. IsWellFoundedOn(R, Nat) BY NatLessThanWellFounded
<1> HIDE DEF R
<1>3. PICK n \in S : \A m \in S : ~ (<<m, n>> \in R) BY <1>2, WFMin
<1>4. ASSUME NEW m \in S PROVE n <= m
  <2>1. m \in Nat /\ n \in Nat OBVIOUS
  <2>2. ~ (m < n) BY <1>1, <1>3, <2>1
  <2> QED BY <2>1, <2>2
<1> QED BY <1>4

\* An array that spells a string and then ends holds that string.
LEMMA CStringIs ==
  ASSUME NEW n \in Nat, NEW array \in [0 .. n -> Char], NEW string \in Seq(Symbols),
         Len(string) <= n, Spells(array, string), array[Len(string)] = END
  PROVE  CString(array) = string
<1> DEFINE ends == {i \in DOMAIN array : array[i] = END}
           first(m) == m \in ends /\ \A j \in ends : m <= j
           length_ == CHOOSE m \in ends : \A j \in ends : m <= j
<1>1. PICK k : k = Len(string) OBVIOUS
<1>2. k \in 0 .. n /\ DOMAIN array = 0 .. n BY <1>1
<1>3. ASSUME NEW j \in ends PROVE j >= k
  <2> SUFFICES ASSUME j < k PROVE FALSE BY <1>2
  <2>1. j \in 0 .. n /\ array[j] = END BY <1>2
  <2>2. j + 1 \in 1 .. k /\ (j + 1) - 1 = j BY <1>2, <2>1
  <2>3. array[j] = string[j + 1] BY <1>1, <2>2 DEF Spells
  <2>4. string[j + 1] \in Symbols BY <1>1, <2>2
  <2> QED BY <2>1, <2>3, <2>4, EndIsNoSymbol
<1>4. k \in ends BY <1>1, <1>2
<1>5. \A m \in ends : (\A j \in ends : m <= j) => m = k BY <1>2, <1>3, <1>4
<1>6. \A j \in ends : k <= j BY <1>2, <1>3
<1>7. length_ = k
  <2> HIDE DEF ends
  <2> QED BY <1>4, <1>5, <1>6
<1>8. CString(array) = [i \in 1 .. length_ |-> array[i - 1]] BY DEF CString
<1> HIDE DEF ends, length_
<1>9. \A i \in 1 .. k : array[i - 1] = string[i] BY <1>1 DEF Spells
<1>10. string = [i \in 1 .. k |-> string[i]] BY <1>1
<1>11. [i \in 1 .. k |-> array[i - 1]] = [i \in 1 .. k |-> string[i]] BY <1>9
<1> QED BY <1>7, <1>8, <1>10, <1>11

\* An array with an end holds a string.
LEMMA CStringFits ==
  ASSUME NEW n \in Nat, NEW array \in [0 .. n -> Char], array[n] = END
  PROVE  CString(array) \in Seq(Symbols) /\ Len(CString(array)) <= n
<1> DEFINE ends == {i \in 0 .. n : array[i] = END}
<1>1. n \in ends /\ ends \in SUBSET Nat OBVIOUS
<1>2. PICK k \in ends : \A j \in ends : k <= j
  <2> HIDE DEF ends
  <2> QED BY <1>1, LeastOfNat
<1>3. k \in 0 .. n /\ array[k] = END BY <1>2
<1>4. ASSUME NEW i \in 1 .. k PROVE array[i - 1] \in Symbols
  <2>1. i - 1 \in 0 .. n /\ ~ (k <= i - 1) BY <1>3
  <2>2. i - 1 \notin ends BY <1>2, <2>1
  <2>3. array[i - 1] \in Char /\ array[i - 1] # END BY <2>1, <2>2
  <2> QED BY <2>3 DEF Char
<1> DEFINE string == [i \in 1 .. k |-> array[i - 1]]
<1>5. string \in [1 .. k -> Symbols] BY <1>4
<1>6. string \in Seq(Symbols) /\ Len(string) = k BY <1>3, <1>5
<1>7. Spells(array, string) BY <1>6 DEF Spells
<1> HIDE DEF string
<1>8. CString(array) = string BY <1>3, <1>6, <1>7, CStringIs
<1> QED BY <1>3, <1>6, <1>8

---------------------------------------------------------------------------
\* What every edit keeps, whatever it does to the line.
Kept(line) ==
  line.buff \in [0 .. LIMIT -> Char] /\ line.length \in 0 .. LIMIT /\ line.buff[LIMIT] = END

LEMMA AddKeeps ==
  ASSUME NEW line, Kept(line), NEW c \in Char
  PROVE  LET added == terminal_input_buff_add_symbol(line, c)
         IN  /\ Kept(added)
             /\ line.length = LIMIT => added = line
             /\ line.length # LIMIT =>
                  /\ added.length = line.length + 1 /\ added.buff[line.length] = c
                  /\ \A i \in 0 .. line.length - 1 : added.buff[i] = line.buff[i]
<1>1. LIMIT \in Nat BY LimitIsNat
<1>2. CASE line.length = LIMIT
  BY <1>1, <1>2 DEF terminal_input_buff_add_symbol
<1>3. CASE line.length # LIMIT
  <2>1. line.length \in 0 .. LIMIT - 1 BY <1>1, <1>3 DEF Kept
  <2>2. terminal_input_buff_add_symbol(line, c) =
          [buff |-> [line.buff EXCEPT ![line.length] = c], length |-> line.length + 1]
    BY <1>1, <2>1 DEF terminal_input_buff_add_symbol
  <2>3. PICK l, b : l = line.length /\ b = line.buff OBVIOUS
  <2>4. l \in 0 .. LIMIT - 1 /\ b \in [0 .. LIMIT -> Char] /\ b[LIMIT] = END
    BY <2>1, <2>3 DEF Kept
  <2>5. /\ [b EXCEPT ![l] = c] \in [0 .. LIMIT -> Char]
        /\ [b EXCEPT ![l] = c][LIMIT] = END /\ [b EXCEPT ![l] = c][l] = c
        /\ \A i \in 0 .. l - 1 : [b EXCEPT ![l] = c][i] = b[i]
    BY <1>1, <2>4
  <2> QED BY <1>1, <1>3, <2>2, <2>3, <2>4, <2>5 DEF Kept
<1> QED BY <1>2, <1>3

LEMMA EraseKeeps ==
  ASSUME NEW line, Kept(line)
  PROVE  LET erased == terminal_command_erase_last(line)
         IN  /\ Kept(erased)
             /\ line.length = 0 => erased = line
             /\ line.length # 0 =>
                  /\ erased.length = line.length - 1
                  /\ \A i \in 0 .. line.length - 2 : erased.buff[i] = line.buff[i]
<1>1. LIMIT \in Nat BY LimitIsNat
<1>2. CASE line.length = 0 BY <1>2 DEF terminal_command_erase_last
<1>3. CASE line.length # 0
  <2>1. terminal_command_erase_last(line) =
          [buff |-> [line.buff EXCEPT ![line.length - 1] = END], length |-> line.length - 1]
    BY <1>3 DEF terminal_command_erase_last
  <2>2. PICK l, b : l = line.length - 1 /\ b = line.buff OBVIOUS
  <2>3. l \in 0 .. LIMIT - 1 /\ b \in [0 .. LIMIT -> Char] /\ b[LIMIT] = END
    BY <1>1, <1>3, <2>2 DEF Kept
  <2>4. /\ [b EXCEPT ![l] = END] \in [0 .. LIMIT -> Char] /\ [b EXCEPT ![l] = END][LIMIT] = END
        /\ \A i \in 0 .. l - 1 : [b EXCEPT ![l] = END][i] = b[i]
    BY <1>1, <2>3 DEF Char
  <2>5. line.length \in 0 .. LIMIT BY DEF Kept
  <2>6. line.length - 2 = l - 1 BY <1>1, <2>2, <2>5
  <2> QED BY <1>1, <1>3, <2>1, <2>2, <2>3, <2>4, <2>6 DEF Kept
<1> QED BY <1>2, <1>3

\* Recalled: the line is the command of the history, or empty behind the last.
LEMMA ReloadKeeps ==
  ASSUME NEW line, Kept(line), NEW n \in 0 .. Len(history), EditorTypes, HistoryIsRan, HistoryFits
  PROVE  LET recalled == reload_from_command_history(line, n)
             command == IF n = Len(ran) THEN <<>> ELSE ran[n + 1]
         IN  /\ Kept(recalled)
             /\ command \in Seq(Symbols) /\ Len(command) <= LIMIT
             /\ recalled.length = Len(command) /\ Spells(recalled.buff, command)
<1> DEFINE cleared == terminal_command_clear(line)
           command == IF n = Len(ran) THEN <<>> ELSE ran[n + 1]
           recalled == reload_from_command_history(line, n)
<1>1. LIMIT \in Nat /\ Len(history) \in Nat /\ Len(history) = Len(ran)
  BY LimitIsNat DEF EditorTypes, HistoryIsRan
<1>2. Kept(cleared) /\ cleared.length = 0
  <2>1. PICK l, b : l = line.length /\ b = line.buff OBVIOUS
  <2>2. l \in 0 .. LIMIT /\ b \in [0 .. LIMIT -> Char] /\ b[LIMIT] = END BY <2>1 DEF Kept
  <2>3. [i \in DOMAIN b |-> IF i < l THEN END ELSE b[i]] \in [0 .. LIMIT -> Char]
    BY <2>2 DEF Char
  <2>4. [i \in DOMAIN b |-> IF i < l THEN END ELSE b[i]][LIMIT] = END BY <1>1, <2>2
  <2>5. cleared = [buff |-> [i \in DOMAIN b |-> IF i < l THEN END ELSE b[i]], length |-> 0]
    BY <2>1 DEF terminal_command_clear
  <2> HIDE DEF cleared
  <2> QED BY <1>1, <2>3, <2>4, <2>5 DEF Kept
<1> HIDE DEF cleared
<1>3. CASE n = Len(history)
  <2>1. recalled = cleared BY <1>3 DEF reload_from_command_history, cleared
  <2>2. command = <<>> BY <1>1, <1>3
  <2>3. <<>> \in Seq(Symbols) /\ Len(<<>>) = 0 OBVIOUS
  <2> HIDE DEF recalled, command
  <2>4. Spells(recalled.buff, command) BY <2>2, <2>3 DEF Spells
  <2>5. /\ Kept(recalled) /\ command \in Seq(Symbols) /\ Len(command) <= LIMIT
        /\ recalled.length = Len(command) /\ Spells(recalled.buff, command)
    BY <1>1, <1>2, <2>1, <2>2, <2>3, <2>4
  <2> QED BY <2>5 DEF recalled, command
<1>4. CASE n # Len(history)
  <2>1. n + 1 \in 1 .. Len(ran) /\ n + 1 \in DOMAIN history BY <1>1, <1>4 DEF EditorTypes
  <2>2. command = ran[n + 1] /\ command \in Seq(Symbols) /\ Len(command) <= LIMIT
    BY <1>1, <1>4, <2>1 DEF EditorTypes, HistoryFits
  <2>3. CString(history[n + 1]) = command BY <2>1, <2>2 DEF HistoryIsRan
  <2> HIDE DEF command
  <2>4. PICK b, k : b = cleared.buff /\ k = Len(command) OBVIOUS
  <2>5. b \in [0 .. LIMIT -> Char] /\ b[LIMIT] = END /\ k \in 0 .. LIMIT
        /\ \A i \in 1 .. k : command[i] \in Symbols
    BY <1>1, <1>2, <2>2, <2>4 DEF Kept
  <2> DEFINE buffer == [i \in 0 .. LIMIT |-> IF i < k THEN command[i + 1] ELSE b[i]]
  <2>6. recalled = [buff |-> buffer, length |-> k]
    <3>1. DOMAIN line.buff = 0 .. LIMIT BY DEF Kept
    <3> QED BY <1>4, <2>3, <2>4, <3>1 DEF reload_from_command_history, cleared
  <2>7. buffer \in [0 .. LIMIT -> Char]
    <3>1. ASSUME NEW i \in 0 .. LIMIT PROVE (IF i < k THEN command[i + 1] ELSE b[i]) \in Char
      <4>1. CASE i < k
        <5>1. i + 1 \in 1 .. k BY <1>1, <2>5, <4>1
        <5> QED BY <2>5, <4>1, <5>1 DEF Char
      <4>2. CASE ~ (i < k) BY <2>5, <4>2
      <4> QED BY <4>1, <4>2
    <3> QED BY <3>1
  <2>8. buffer[LIMIT] = END BY <1>1, <2>5
  <2>9. \A i \in 1 .. k : buffer[i - 1] = command[i] BY <1>1, <2>5
  <2> HIDE DEF buffer, recalled
  <2>10. /\ Kept(recalled) /\ recalled.length = Len(command) /\ Spells(recalled.buff, command)
    BY <1>1, <2>4, <2>5, <2>6, <2>7, <2>8, <2>9 DEF Kept, Spells
  <2> QED BY <2>2, <2>10 DEF recalled, command
<1> QED BY <1>3, <1>4

---------------------------------------------------------------------------
LEMMA EditorStarts ==
  ASSUME EditorInit PROVE EditorInv
<1>1. LIMIT \in Nat BY LimitIsNat
<1>2. keys \in Seq(EditorKeys) /\ history \in Seq(Arrays) /\ ran \in Seq(Seq(Symbols))
        /\ typed \in Seq(Symbols) /\ Len(typed) = 0 /\ Len(ran) = 0 /\ Len(history) = 0
  BY DEF EditorInit
<1>3. buff \in [0 .. LIMIT -> Char] /\ buff[LIMIT] = END BY <1>1 DEF EditorInit, Char
<1>4. EditorTypes BY <1>1, <1>2, <1>3 DEF EditorInit, EditorTypes
<1>5. Spells(buff, typed) BY <1>2 DEF Spells
<1>6. Open /\ Ended BY <1>2, <1>5 DEF EditorInit, Open, Ended
<1>7. HistoryIsRan /\ HistoryFits BY <1>2 DEF EditorInit, HistoryIsRan, HistoryFits
<1> QED BY <1>3, <1>4, <1>6, <1>7 DEF EditorInv, BufferEnds

LEMMA ArriveKeeps ==
  ASSUME EditorInv, NEW key \in EditorKeys, Arrive(key) PROVE EditorInv'
<1>1. EditorTypes' BY DEF EditorInv, EditorTypes, Arrive
<1>2. (BufferEnds /\ Open /\ Ended /\ HistoryIsRan /\ HistoryFits)'
  BY DEF EditorInv, Arrive, BufferEnds, Open, Ended, HistoryIsRan, HistoryFits
<1> QED BY <1>1, <1>2 DEF EditorInv

LEMMA NewLineKeeps ==
  ASSUME EditorInv, terminal_get_input_line PROVE EditorInv'
<1>1. LIMIT \in Nat BY LimitIsNat
<1>2. typed' \in Seq(Symbols) /\ Len(typed') = 0 BY DEF terminal_get_input_line
<1>3. EditorTypes'
  <2>1. /\ UNCHANGED <<keys, buff, history, ran>> /\ at' = "asleep" /\ length' = 0
        /\ EOI' = FALSE /\ cancelled' = FALSE /\ late' = FALSE
    BY DEF terminal_get_input_line
  <2>2. length' \in 0 .. LIMIT /\ Len(typed') <= LIMIT BY <1>1, <1>2, <2>1
  <2> QED BY <1>2, <2>1, <2>2 DEF EditorInv, EditorTypes
<1>4. (Open /\ Ended)' BY <1>2 DEF terminal_get_input_line, Open, Ended, Spells
<1>5. (BufferEnds /\ HistoryIsRan /\ HistoryFits)'
  BY DEF EditorInv, terminal_get_input_line, BufferEnds, HistoryIsRan, HistoryFits
<1> QED BY <1>3, <1>4, <1>5 DEF EditorInv

\* A line that has not ended is what was typed, whatever key comes.
LEMMA EditFollows ==
  ASSUME EditorInv, NEW key \in EditorKeys
  PROVE  LET edited == Edited(key)
             line == Typed(key)
         IN  /\ Kept(edited) /\ NewIndex(key) \in 0 .. Len(history)
             /\ line \in Seq(Symbols) /\ Len(line) <= LIMIT
             /\ Open /\ ~ EOI /\ ~ cancelled =>
                  /\ Spells(edited.buff, line)
                  /\ key \notin {"enter", "cancel"} => edited.length = Len(line)
                  /\ key \in {"enter", "cancel"} =>
                       /\ edited.buff[Len(line)] = END
                       /\ \/ edited.length = Len(line) + 1
                          \/ edited.length = Len(line) /\ edited.length = LIMIT
<1> DEFINE Goal(edited, line) ==
      /\ Kept(edited) /\ NewIndex(key) \in 0 .. Len(history)
      /\ line \in Seq(Symbols) /\ Len(line) <= LIMIT
      /\ Open /\ ~ EOI /\ ~ cancelled =>
           /\ Spells(edited.buff, line)
           /\ key \notin {"enter", "cancel"} => edited.length = Len(line)
           /\ key \in {"enter", "cancel"} =>
                /\ edited.buff[Len(line)] = END
                /\ \/ edited.length = Len(line) + 1
                   \/ edited.length = Len(line) /\ edited.length = LIMIT
<1>1. LIMIT \in Nat BY LimitIsNat
<1>2. typed \in Seq(Symbols) /\ Len(typed) \in 0 .. LIMIT
        /\ buff \in [0 .. LIMIT -> Char] /\ length \in 0 .. LIMIT /\ buff[LIMIT] = END
  BY <1>1 DEF EditorInv, EditorTypes, BufferEnds
<1>3. Kept(Line) /\ Line.buff = buff /\ Line.length = length BY <1>2 DEF Kept, Line
<1>4. NewIndex(key) \in 0 .. Len(history)
  <2>1. index \in 0 .. Len(history) /\ Len(history) \in Nat
    BY DEF EditorInv, EditorTypes, HistoryIsRan
  <2> QED BY <2>1 DEF NewIndex
<1>5. Open /\ ~ EOI /\ ~ cancelled => length = Len(typed) /\ Spells(buff, typed) BY DEF Open
<1>6. CASE key \in Symbols
  <2>1. key \in Char /\ key \notin {"enter", "cancel"} BY <1>6, LineEditorAssumption DEF Char
  <2>2. Edited(key) = terminal_input_buff_add_symbol(Line, key) BY <1>6 DEF Edited
  <2>3. PICK edited : edited = Edited(key) OBVIOUS
  <2>4. /\ Kept(edited)
        /\ length = LIMIT => edited = Line
        /\ length # LIMIT =>
             /\ edited.length = length + 1 /\ edited.buff[length] = key
             /\ \A i \in 0 .. length - 1 : edited.buff[i] = buff[i]
    BY <1>3, <2>1, <2>2, <2>3, AddKeeps
  <2>5. CASE Len(typed) < LIMIT
    <3>1. Typed(key) = Append(typed, key) BY <1>6, <2>5 DEF Typed
    <3>2. PICK line : line = Append(typed, key) OBVIOUS
    <3>3. line \in Seq(Symbols) /\ Len(line) = Len(typed) + 1
            /\ \A i \in 1 .. Len(line) : line[i] = IF i <= Len(typed) THEN typed[i] ELSE key
      BY <1>2, <1>6, <3>2
    <3>4. ASSUME Open, ~ EOI, ~ cancelled PROVE Spells(edited.buff, line) /\ edited.length = Len(line)
      <4>1. length = Len(typed) /\ Spells(buff, typed) /\ length # LIMIT BY <1>2, <1>5, <2>5, <3>4
      <4>2. ASSUME NEW i \in 1 .. Len(line) PROVE edited.buff[i - 1] = line[i]
        <5>1. CASE i <= Len(typed)
          <6>1. i \in 1 .. Len(typed) /\ i - 1 \in 0 .. length - 1 BY <1>2, <3>3, <4>1, <5>1
          <6> QED BY <2>4, <3>3, <4>1, <5>1, <6>1 DEF Spells
        <5>2. CASE ~ (i <= Len(typed))
          <6>1. i - 1 = length BY <1>2, <3>3, <4>1, <5>2
          <6> QED BY <2>4, <3>3, <4>1, <5>2, <6>1
        <5> QED BY <5>1, <5>2
      <4> QED BY <2>4, <3>3, <4>1, <4>2 DEF Spells
    <3>5. Goal(edited, line) BY <1>1, <1>2, <1>4, <2>1, <2>4, <2>5, <3>3, <3>4
    <3> QED BY <2>3, <3>1, <3>2, <3>5
  <2>6. CASE ~ (Len(typed) < LIMIT)
    <3>1. Typed(key) = typed BY <1>6, <2>6 DEF Typed
    <3>2. Len(typed) = LIMIT BY <1>1, <1>2, <2>6
    <3>3. Open /\ ~ EOI /\ ~ cancelled => edited = Line /\ length = Len(typed) /\ Spells(buff, typed)
      BY <1>5, <2>4, <3>2
    <3>4. Goal(edited, typed) BY <1>2, <1>3, <1>4, <2>1, <2>4, <3>3
    <3> QED BY <2>3, <3>1, <3>4
  <2> QED BY <2>5, <2>6
<1>7. CASE key \in {"enter", "cancel"}
  <2>1. key \notin Symbols /\ END \in Char BY <1>7, LineEditorAssumption DEF Char
  <2>2. Edited(key) = terminal_input_buff_add_symbol(Line, END) BY <1>7, <2>1 DEF Edited
  <2>3. PICK edited : edited = Edited(key) OBVIOUS
  <2>4. /\ Kept(edited)
        /\ length = LIMIT => edited = Line
        /\ length # LIMIT =>
             /\ edited.length = length + 1 /\ edited.buff[length] = END
             /\ \A i \in 0 .. length - 1 : edited.buff[i] = buff[i]
    BY <1>3, <2>1, <2>2, <2>3, AddKeeps
  <2>5. Typed(key) = typed BY <1>7, <2>1 DEF Typed
  <2>6. ASSUME Open, ~ EOI, ~ cancelled
        PROVE  /\ Spells(edited.buff, typed) /\ edited.buff[Len(typed)] = END
               /\ \/ edited.length = Len(typed) + 1
                  \/ edited.length = Len(typed) /\ edited.length = LIMIT
    <3>1. length = Len(typed) /\ Spells(buff, typed) BY <1>5, <2>6
    <3>2. CASE length = LIMIT BY <1>2, <1>3, <2>4, <3>1, <3>2
    <3>3. CASE length # LIMIT
      <4>1. \A i \in 1 .. Len(typed) : i - 1 \in 0 .. length - 1 BY <1>2, <3>1
      <4>2. Spells(edited.buff, typed) BY <2>4, <3>1, <3>3, <4>1 DEF Spells
      <4> QED BY <2>4, <3>1, <3>3, <4>2
    <3> QED BY <3>2, <3>3
  <2>7. Goal(edited, typed) BY <1>2, <1>4, <1>7, <2>4, <2>6
  <2> QED BY <2>3, <2>5, <2>7
<1>8. CASE key = "backspace"
  <2>1. key \notin Symbols BY <1>8, LineEditorAssumption
  <2>2. Edited(key) = terminal_command_erase_last(Line) BY <1>8, <2>1 DEF Edited
  <2>3. PICK edited : edited = Edited(key) OBVIOUS
  <2>4. /\ Kept(edited)
        /\ length = 0 => edited = Line
        /\ length # 0 =>
             /\ edited.length = length - 1
             /\ \A i \in 0 .. length - 2 : edited.buff[i] = buff[i]
    BY <1>3, <2>2, <2>3, EraseKeeps
  <2>5. CASE typed = <<>>
    <3>1. Typed(key) = typed BY <1>8, <2>1, <2>5 DEF Typed
    <3>2. Len(typed) = 0 BY <2>5
    <3>3. Open /\ ~ EOI /\ ~ cancelled => edited = Line /\ length = Len(typed) /\ Spells(buff, typed)
      BY <1>5, <2>4, <3>2
    <3>4. Goal(edited, typed) BY <1>2, <1>3, <1>4, <1>8, <2>4, <3>3
    <3> QED BY <2>3, <3>1, <3>4
  <2>6. CASE typed # <<>>
    <3>1. Typed(key) = SubSeq(typed, 1, Len(typed) - 1) BY <1>8, <2>1, <2>6 DEF Typed
    <3>2. PICK line : line = SubSeq(typed, 1, Len(typed) - 1) OBVIOUS
    <3>3. Len(typed) # 0 BY <1>2, <2>6, EmptySeq
    <3>4. line \in Seq(Symbols) /\ Len(line) = Len(typed) - 1
            /\ \A i \in 1 .. Len(line) : line[i] = typed[i]
      <4>1. PICK m : m = Len(typed) - 1 OBVIOUS
      <4>2. m \in Nat /\ m \in Int /\ 1 \in Int BY <1>2, <3>3, <4>1
      <4>3. \A i \in 1 .. m : typed[i] \in Symbols
        <5>1. \A i \in 1 .. m : i \in 1 .. Len(typed) BY <1>2, <4>1, <4>2
        <5> QED BY <1>2, <5>1
      <4>4. line = SubSeq(typed, 1, m) BY <3>2, <4>1
      <4>5. /\ line \in Seq(Symbols)
            /\ Len(line) = IF 1 <= m THEN m - 1 + 1 ELSE 0
            /\ \A i \in 1 .. m - 1 + 1 : line[i] = typed[1 + i - 1]
        BY <4>2, <4>3, <4>4, SubSeqProperties
      <4>6. m - 1 + 1 = m BY <4>2
      <4>7. Len(line) = m BY <4>2, <4>5
      <4>8. ASSUME NEW i \in 1 .. m PROVE line[i] = typed[i]
        <5>1. 1 + i - 1 = i OBVIOUS
        <5> QED BY <4>5, <4>6, <5>1
      <4> QED BY <4>1, <4>5, <4>7, <4>8
    <3>5. ASSUME Open, ~ EOI, ~ cancelled PROVE Spells(edited.buff, line) /\ edited.length = Len(line)
      <4>1. length = Len(typed) /\ Spells(buff, typed) BY <1>5, <3>5
      <4>2. \A i \in 1 .. Len(line) : i \in 1 .. Len(typed) /\ i - 1 \in 0 .. length - 2
        BY <1>2, <3>4, <4>1
      <4>3. \A i \in 1 .. Len(line) : edited.buff[i - 1] = line[i]
        BY <2>4, <3>3, <3>4, <4>1, <4>2 DEF Spells
      <4> QED BY <2>4, <3>3, <3>4, <4>1, <4>3 DEF Spells
    <3>6. Goal(edited, line) BY <1>1, <1>2, <1>4, <1>8, <2>4, <3>3, <3>4, <3>5
    <3> QED BY <2>3, <3>1, <3>2, <3>6
  <2> QED BY <2>5, <2>6
<1>9. CASE key \in {"up", "down"}
  <2>1. key \notin Symbols BY <1>9, LineEditorAssumption
  <2>2. PICK edited, line, n :
          edited = Edited(key) /\ line = Typed(key) /\ n = NewIndex(key) OBVIOUS
  <2>3. edited = reload_from_command_history(Line, n) BY <1>9, <2>1, <2>2 DEF Edited
  <2>4. line = IF n = Len(ran) THEN <<>> ELSE ran[n + 1] BY <1>9, <2>1, <2>2 DEF Typed
  <2>5. /\ Kept(edited) /\ line \in Seq(Symbols) /\ Len(line) <= LIMIT
        /\ edited.length = Len(line) /\ Spells(edited.buff, line)
    BY <1>3, <1>4, <2>2, <2>3, <2>4, ReloadKeeps DEF EditorInv
  <2>6. Goal(edited, line) BY <1>4, <1>9, <2>5
  <2> QED BY <2>2, <2>6
<1> QED BY <1>6, <1>7, <1>8, <1>9 DEF EditorKeys

LEMMA ProcessKeyKeeps ==
  ASSUME EditorInv, ProcessKey PROVE EditorInv'
<1>1. PICK key : key = Head(keys) OBVIOUS
<1>2. key \in EditorKeys /\ keys' \in Seq(EditorKeys)
  BY <1>1, HeadTailProperties DEF ProcessKey, EditorInv, EditorTypes
<1>3. /\ buff' = Edited(key).buff /\ length' = Edited(key).length
      /\ index' = NewIndex(key) /\ typed' = Typed(key)
      /\ EOI' = (EOI \/ key = "enter") /\ cancelled' = (cancelled \/ key = "cancel")
      /\ late' = (late \/ EOI \/ cancelled) /\ UNCHANGED <<at, history, ran>>
  BY <1>1 DEF ProcessKey, SetLine
<1>4. /\ Kept(Edited(key)) /\ NewIndex(key) \in 0 .. Len(history)
      /\ Typed(key) \in Seq(Symbols) /\ Len(Typed(key)) <= LIMIT
      /\ Open /\ ~ EOI /\ ~ cancelled =>
           /\ Spells(Edited(key).buff, Typed(key))
           /\ key \notin {"enter", "cancel"} => Edited(key).length = Len(Typed(key))
           /\ key \in {"enter", "cancel"} =>
                /\ Edited(key).buff[Len(Typed(key))] = END
                /\ \/ Edited(key).length = Len(Typed(key)) + 1
                   \/ Edited(key).length = Len(Typed(key)) /\ Edited(key).length = LIMIT
  BY <1>2, EditFollows
<1>5. EditorTypes' /\ BufferEnds'
  <2>1. EOI' \in BOOLEAN /\ cancelled' \in BOOLEAN /\ late' \in BOOLEAN BY <1>3
  <2> QED BY <1>2, <1>3, <1>4, <2>1 DEF EditorInv, EditorTypes, BufferEnds, Kept
<1>6. (HistoryIsRan /\ HistoryFits)'
  BY <1>3, <1>4 DEF EditorInv, HistoryIsRan, HistoryFits
<1>7. CASE EOI \/ cancelled
  <2>1. late' /\ (EOI' \/ cancelled') BY <1>3, <1>7
  <2>2. (Open /\ Ended)' BY <2>1 DEF Open, Ended
  <2> QED BY <1>5, <1>6, <2>2 DEF EditorInv
<1>8. CASE ~ EOI /\ ~ cancelled
  <2>1. Open /\ ~ late BY <1>8 DEF EditorInv, Open
  <2>2. ~ late' BY <1>3, <1>8, <2>1
  <2>3. CASE key \in {"enter", "cancel"}
    <3>1. EOI' \/ cancelled' BY <1>3, <2>3
    <3>2. Open' BY <3>1 DEF Open
    <3>3. Ended' BY <1>3, <1>4, <1>8, <2>1, <2>3 DEF Ended, Spells
    <3> QED BY <1>5, <1>6, <3>2, <3>3 DEF EditorInv
  <2>4. CASE key \notin {"enter", "cancel"}
    <3>1. ~ EOI' /\ ~ cancelled' BY <1>3, <1>8, <2>4
    <3>2. Ended' BY <3>1 DEF Ended
    <3>3. Open' BY <1>3, <1>4, <1>8, <2>1, <2>2, <2>4 DEF Open, Spells
    <3> QED BY <1>5, <1>6, <3>2, <3>3 DEF EditorInv
  <2> QED BY <2>3, <2>4
<1> QED BY <1>7, <1>8

\* The copy that joins the history holds the line that is run.
LEMMA BatchEndKeeps ==
  ASSUME EditorInv, BatchEnd PROVE EditorInv'
<1>1. UNCHANGED <<keys, buff, length, EOI, cancelled, typed, late>> BY DEF BatchEnd
<1>2. at' \in {"asleep", "awake", "command"} BY DEF BatchEnd
<1>3. (BufferEnds /\ Open /\ Ended)'
  BY <1>1 DEF EditorInv, BufferEnds, Open, Ended, Spells
<1>4. CASE ~ EOI
  <2>1. UNCHANGED <<history, index, ran>> BY <1>4 DEF BatchEnd
  <2>2. (EditorTypes /\ HistoryIsRan /\ HistoryFits)'
    BY <1>1, <1>2, <2>1 DEF EditorInv, EditorTypes, HistoryIsRan, HistoryFits
  <2> QED BY <1>3, <2>2 DEF EditorInv
<1>5. CASE EOI
  <2>1. PICK h : h = [i \in 0 .. length |-> IF i < length THEN buff[i] ELSE END] OBVIOUS
  <2>2. /\ history' = Append(history, h) /\ index' = Len(history) + 1
        /\ ran' = Append(ran, IF late THEN CString(history'[Len(history) + 1]) ELSE typed)
    BY <1>5, <2>1 DEF BatchEnd, terminal_command_history_add
  <2>3. LIMIT \in Nat /\ length \in 0 .. LIMIT /\ buff \in [0 .. LIMIT -> Char]
    BY LimitIsNat DEF EditorInv, EditorTypes
  <2>4. length \in Nat /\ h \in [0 .. length -> Char] /\ h[length] = END
          /\ \A i \in 0 .. length : i < length => h[i] = buff[i]
    BY <2>1, <2>3 DEF Char
  <2>5. h \in Arrays BY <2>3, <2>4 DEF Arrays
  <2>6. history \in Seq(Arrays) /\ ran \in Seq(Seq(Symbols)) /\ Len(history) = Len(ran)
          /\ Len(history) \in Nat /\ typed \in Seq(Symbols) /\ Len(typed) \in Nat /\ Len(typed) <= LIMIT
    BY DEF EditorInv, EditorTypes, HistoryIsRan
  <2>7. history' \in Seq(Arrays) /\ Len(history') = Len(history) + 1
          /\ history'[Len(history) + 1] = h
          /\ \A i \in 1 .. Len(history) : history'[i] = history[i]
    BY <2>2, <2>5, <2>6
  <2>8. PICK string : string = IF late THEN CString(h) ELSE typed OBVIOUS
  <2>9. string \in Seq(Symbols) /\ Len(string) <= LIMIT /\ CString(h) = string
    <3>1. CASE late
      <4>1. CString(h) \in Seq(Symbols) /\ Len(CString(h)) <= length BY <2>4, CStringFits
      <4>2. Len(CString(h)) \in Nat BY <4>1
      <4> QED BY <2>3, <2>8, <3>1, <4>1, <4>2
    <3>2. CASE ~ late
      <4>1. /\ Spells(buff, typed) /\ buff[Len(typed)] = END
            /\ \/ length = Len(typed) + 1
               \/ length = Len(typed) /\ length = LIMIT
        BY <1>5, <3>2 DEF EditorInv, Ended
      <4>2. Len(typed) <= length /\ Len(typed) \in 0 .. length BY <2>3, <2>6, <4>1
      <4>3. \A i \in 1 .. Len(typed) : i - 1 \in 0 .. length /\ i - 1 < length
        BY <2>3, <2>6, <4>2
      <4>4. Spells(h, typed) BY <2>4, <4>1, <4>3 DEF Spells
      <4>5. h[Len(typed)] = END BY <2>4, <4>1, <4>2
      <4>6. CString(h) = typed BY <2>4, <2>6, <4>2, <4>4, <4>5, CStringIs
      <4> QED BY <2>6, <2>8, <3>2, <4>6
    <3> QED BY <3>1, <3>2
  <2>10. ran' = Append(ran, string) BY <2>2, <2>7, <2>8
  <2>11. ran' \in Seq(Seq(Symbols)) /\ Len(ran') = Len(ran) + 1 /\ ran'[Len(ran) + 1] = string
           /\ \A i \in 1 .. Len(ran) : ran'[i] = ran[i]
    BY <2>6, <2>9, <2>10
  <2>12. EditorTypes' BY <1>1, <1>2, <2>7, <2>11 DEF EditorInv, EditorTypes
  <2>13. HistoryIsRan'
    <3>1. index' \in 0 .. Len(history') /\ Len(history') = Len(ran') BY <2>2, <2>6, <2>7, <2>11
    <3>2. ASSUME NEW i \in DOMAIN history' PROVE CString(history'[i]) = ran'[i]
      <4>1. i \in 1 .. Len(history) + 1 BY <2>7
      <4>2. CASE i = Len(history) + 1 BY <2>6, <2>7, <2>9, <2>11, <4>2
      <4>3. CASE i # Len(history) + 1
        <5>1. i \in 1 .. Len(history) /\ i \in 1 .. Len(ran) /\ i \in DOMAIN history
          BY <2>6, <4>1, <4>3
        <5>2. CString(history[i]) = ran[i] BY <5>1 DEF EditorInv, HistoryIsRan
        <5> QED BY <2>7, <2>11, <5>1, <5>2
      <4> QED BY <4>2, <4>3
    <3> QED BY <3>1, <3>2 DEF HistoryIsRan
  <2>14. HistoryFits'
    <3>1. ASSUME NEW i \in 1 .. Len(ran') PROVE Len(ran'[i]) <= LIMIT
      <4>1. i = Len(ran) + 1 \/ i \in 1 .. Len(ran) BY <2>6, <2>11
      <4>2. \A j \in 1 .. Len(ran) : Len(ran[j]) <= LIMIT BY DEF EditorInv, HistoryFits
      <4> QED BY <2>9, <2>11, <4>1, <4>2
    <3> QED BY <3>1 DEF HistoryFits
  <2> QED BY <1>3, <2>12, <2>13, <2>14 DEF EditorInv
<1> QED BY <1>4, <1>5

LEMMA EditorInvGives ==
  ASSUME EditorInv PROVE CommandIsTyped
<1>1. ASSUME at = "command", EOI, ~ late PROVE CString(buff) = typed
  <2>1. Spells(buff, typed) /\ buff[Len(typed)] = END BY <1>1 DEF EditorInv, Ended
  <2>2. typed \in Seq(Symbols) /\ Len(typed) <= LIMIT /\ buff \in [0 .. LIMIT -> Char]
    BY DEF EditorInv, EditorTypes
  <2> QED BY <2>1, <2>2, LimitIsNat, CStringIs
<1> QED BY <1>1 DEF EditorInv, CommandIsTyped, LineIsTyped

(***************************************************************************)
(* The command that is run is the line that was typed, the buffer always   *)
(* ends a string, and the history is what was run, for every size of the   *)
(* buffer, every set of characters and every order in which the keys       *)
(* arrive while the terminal sleeps, reads or runs a command.              *)
(***************************************************************************)
THEOREM CommandsStayTyped == EditorSpec => []CommandIsTyped
<1>1. EditorInit => EditorInv BY EditorStarts
<1>2. EditorInv /\ [EditorNext]_editorVars => EditorInv'
  <2> SUFFICES ASSUME EditorInv, [EditorNext]_editorVars PROVE EditorInv' OBVIOUS
  <2>1. ASSUME NEW key \in EditorKeys, Arrive(key) PROVE EditorInv' BY <2>1, ArriveKeeps
  <2>2. CASE ProcessKey BY <2>2, ProcessKeyKeeps
  <2>3. CASE BatchEnd BY <2>3, BatchEndKeeps
  <2>4. CASE terminal_get_input_line BY <2>4, NewLineKeeps
  <2>5. CASE UNCHANGED editorVars
    BY <2>5 DEF editorVars, EditorInv, EditorTypes, BufferEnds, Open, Ended, HistoryIsRan, HistoryFits
  <2> QED BY <2>1, <2>2, <2>3, <2>4, <2>5 DEF EditorNext
<1>3. EditorInv => CommandIsTyped BY EditorInvGives
<1> QED BY <1>1, <1>2, <1>3, PTL DEF EditorSpec

---------------------------------------------------------------------------
(* Volumes and their references.                                           *)

Info == [count : Int, destroyed : BOOLEAN, used : BOOLEAN]

VfsTypes ==
  /\ info \in [Infos -> Info]
  /\ mountpoints \in [Partitions -> Infos \union {NULL}]
  /\ root \in Infos \union {NULL} /\ current_dir \in Infos \union {NULL}
  /\ lost_refs \in [Infos -> Nat]

\* No volume is mounted twice.
MountedOnce ==
  \A p, q \in Partitions : mountpoints[p] = mountpoints[q] /\ mountpoints[p] # NULL => p = q

\* The terminal has both directories or none.
DirsTogether == root = NULL <=> current_dir = NULL

VfsInv == VfsTypes /\ MountedOnce /\ DirsTogether /\ VolumesHeld

One(condition) == IF condition THEN 1 ELSE 0

LEMMA Ones == \A c \in BOOLEAN : One(c) \in {0, 1} /\ (One(c) = 1 <=> c)
BY DEF One

\* A table without repetitions names a volume once or never.
LEMMA NamedOnce ==
  ASSUME NEW f, NEW i,
         \A p, q \in Partitions : f[p] = i /\ f[q] = i => p = q
  PROVE  Cardinality({p \in Partitions : f[p] = i}) = One(\E p \in Partitions : f[p] = i)
<1> DEFINE At == {p \in Partitions : f[p] = i}
<1>1. CASE \E p \in Partitions : f[p] = i
  <2>1. PICK p \in Partitions : f[p] = i BY <1>1
  <2>2. At = {p} BY <2>1
  <2>3. Cardinality(At) = 1 BY <2>2, FS_Singleton
  <2> QED BY <1>1, <2>3 DEF One
<1>2. CASE ~ \E p \in Partitions : f[p] = i
  <2>1. At = {} BY <1>2
  <2>2. Cardinality(At) = 0 BY <2>1, FS_EmptySet
  <2> QED BY <1>2, <2>2 DEF One
<1> QED BY <1>1, <1>2

\* What holds a volume, the table counting once.
LEMMA HoldersAre ==
  ASSUME MountedOnce, NEW i \in Infos
  PROVE  Holders(i) = One(i \in Mounted) + One(root = i) + One(current_dir = i)
<1>1. i # NULL BY VfsAssumption
<1>2. (\E p \in Partitions : mountpoints[p] = i) <=> i \in Mounted BY <1>1 DEF Mounted
<1>3. Cardinality({p \in Partitions : mountpoints[p] = i})
        = One(\E p \in Partitions : mountpoints[p] = i)
  <2> DEFINE f == mountpoints
  <2>1. \A p, q \in Partitions : f[p] = i /\ f[q] = i => p = q BY <1>1 DEF MountedOnce
  <2> HIDE DEF f
  <2>2. Cardinality({p \in Partitions : f[p] = i}) = One(\E p \in Partitions : f[p] = i)
    BY <2>1, NamedOnce
  <2> QED BY <2>2 DEF f
<1> QED BY <1>2, <1>3 DEF Holders, One

LEMMA HoldersWillBe ==
  ASSUME MountedOnce', NEW i \in Infos
  PROVE  Holders(i)' = One(i \in Mounted') + One(root' = i) + One(current_dir' = i)
<1>1. i # NULL BY VfsAssumption
<1>2. (\E p \in Partitions : mountpoints'[p] = i) <=> i \in Mounted' BY <1>1 DEF Mounted
<1>3. Cardinality({p \in Partitions : mountpoints'[p] = i})
        = One(\E p \in Partitions : mountpoints'[p] = i)
  <2> DEFINE f == mountpoints'
  <2>1. \A p, q \in Partitions : f[p] = i /\ f[q] = i => p = q BY <1>1 DEF MountedOnce
  <2> HIDE DEF f
  <2>2. Cardinality({p \in Partitions : f[p] = i}) = One(\E p \in Partitions : f[p] = i)
    BY <2>1, NamedOnce
  <2> QED BY <2>2 DEF f
<1> QED BY <1>2, <1>3 DEF Holders, One

---------------------------------------------------------------------------
(* Every change of a count that ends no object adds some number to it.     *)

LEMMA PlusIs ==
  ASSUME NEW v \in [Infos -> Info], NEW i \in Infos, NEW n \in Int
  PROVE  /\ Plus(v, i, n) \in [Infos -> Info]
         /\ Plus(v, i, n)[i].count = v[i].count + n
         /\ Plus(v, i, n)[i].destroyed = v[i].destroyed
         /\ Plus(v, i, n)[i].used = v[i].used
         /\ \A j \in Infos \ {i} : Plus(v, i, n)[j] = v[j]
<1>1. v[i] \in Info OBVIOUS
<1>2. v[i].count + n \in Int BY <1>1 DEF Info
<1>3. [v[i] EXCEPT !.count = @ + n] \in Info BY <1>1, <1>2 DEF Info
<1>4. Plus(v, i, n) = [v EXCEPT ![i] = [v[i] EXCEPT !.count = @ + n]] BY DEF Plus
<1>5. Plus(v, i, n) \in [Infos -> Info] BY <1>3, <1>4
<1>6. Plus(v, i, n)[i] = [v[i] EXCEPT !.count = @ + n] BY <1>4
<1> QED BY <1>1, <1>4, <1>5, <1>6 DEF Info

LEMMA SameInfo ==
  ASSUME NEW a \in Info, NEW b \in Info,
         a.count = b.count, a.destroyed = b.destroyed, a.used = b.used
  PROVE  a = b
BY DEF Info

LEMMA PlusPlus ==
  ASSUME NEW v \in [Infos -> Info], NEW i \in Infos, NEW m \in Int, NEW n \in Int
  PROVE  Plus(Plus(v, i, m), i, n) = Plus(v, i, m + n)
<1> DEFINE w == Plus(v, i, m)
           x == Plus(w, i, n)
           y == Plus(v, i, m + n)
<1>0. m + n \in Int OBVIOUS
<1>1. /\ w \in [Infos -> Info] /\ w[i].count = v[i].count + m
      /\ w[i].destroyed = v[i].destroyed /\ w[i].used = v[i].used
      /\ \A j \in Infos \ {i} : w[j] = v[j]
  BY PlusIs
<1>2. /\ y \in [Infos -> Info] /\ y[i].count = v[i].count + (m + n)
      /\ y[i].destroyed = v[i].destroyed /\ y[i].used = v[i].used
      /\ \A j \in Infos \ {i} : y[j] = v[j]
  BY <1>0, PlusIs
<1> HIDE DEF w, y
<1>3. /\ x \in [Infos -> Info] /\ x[i].count = w[i].count + n
      /\ x[i].destroyed = w[i].destroyed /\ x[i].used = w[i].used
      /\ \A j \in Infos \ {i} : x[j] = w[j]
  BY <1>1, PlusIs
<1> HIDE DEF x
<1>4. v[i].count \in Int BY DEF Info
<1>5. x[i] = y[i]
  <2>1. x[i] \in Info /\ y[i] \in Info BY <1>2, <1>3
  <2>2. x[i].count = y[i].count BY <1>1, <1>2, <1>3, <1>4
  <2> QED BY <1>1, <1>2, <1>3, <2>1, <2>2, SameInfo
<1>6. \A j \in Infos : x[j] = y[j] BY <1>1, <1>2, <1>3, <1>5
<1>7. x = y BY <1>2, <1>3, <1>6
<1> QED BY <1>7 DEF x, y, w

LEMMA PlusNothing ==
  ASSUME NEW v \in [Infos -> Info], NEW i \in Infos
  PROVE  Plus(v, i, 0) = v
<1> DEFINE w == Plus(v, i, 0)
<1>1. /\ w \in [Infos -> Info] /\ w[i].count = v[i].count + 0
      /\ w[i].destroyed = v[i].destroyed /\ w[i].used = v[i].used
      /\ \A j \in Infos \ {i} : w[j] = v[j]
  BY PlusIs
<1> HIDE DEF w
<1>2. v[i].count \in Int BY DEF Info
<1>3. w[i] = v[i] BY <1>1, <1>2, SameInfo
<1>4. w = v BY <1>1, <1>3
<1> QED BY <1>4 DEF w

LEMMA TakeAdds ==
  ASSUME NEW v \in [Infos -> Info], NEW i \in Infos, ~ v[i].destroyed
  PROVE  Take(v, i) = Plus(v, i, 1)
BY DEF Take, Plus

LEMMA ReleaseSubtracts ==
  ASSUME NEW v \in [Infos -> Info], NEW i \in Infos, v[i].count # 1
  PROVE  Release(v, i) = Plus(v, i, -1)
<1>1. v[i].count \in Int BY DEF Info
<1>2. v[i].count - 1 = v[i].count + (-1) BY <1>1
<1> QED BY <1>2 DEF Release, Plus

---------------------------------------------------------------------------
(* What the invariant says of a count.                                     *)

LEMMA CountIs ==
  ASSUME VfsInv, NEW i \in Infos
  PROVE  /\ info[i].count = One(i \in Mounted) + One(root = i) + One(current_dir = i) + lost_refs[i]
         /\ info[i].count \in Nat /\ lost_refs[i] \in Nat
         /\ (info[i].used <=> i \in Mounted) /\ ~ info[i].destroyed
         /\ i \in Mounted => info[i].count >= 1
         /\ root = i => i \in Mounted /\ info[i].count >= 2
         /\ current_dir = i => i \in Mounted /\ info[i].count >= 2
         /\ root = i /\ current_dir = i => info[i].count >= 3
<1>1. /\ info[i].count = Holders(i) + lost_refs[i] /\ lost_refs[i] \in Nat
      /\ (info[i].used <=> i \in Mounted) /\ ~ info[i].destroyed
  BY DEF VfsInv, VolumesHeld, VfsTypes
<1>2. Holders(i) = One(i \in Mounted) + One(root = i) + One(current_dir = i)
  BY HoldersAre DEF VfsInv
<1>3. {root, current_dir} \subseteq Mounted \union {NULL} /\ i # NULL
  BY VfsAssumption DEF VfsInv, VolumesHeld
<1>4. (root = i => i \in Mounted) /\ (current_dir = i => i \in Mounted) BY <1>3
<1> DEFINE m == i \in Mounted
           r == root = i
           c == current_dir = i
           n == lost_refs[i]
           k == info[i].count
<1>5. k = One(m) + One(r) + One(c) + n /\ n \in Nat /\ (r => m) /\ (c => m)
  BY <1>1, <1>2, <1>4
<1>6. m \in BOOLEAN /\ r \in BOOLEAN /\ c \in BOOLEAN OBVIOUS
<1> HIDE DEF m, r, c, n, k
<1>7. /\ k \in Nat /\ (m => k >= 1) /\ (r => k >= 2) /\ (c => k >= 2)
      /\ (r /\ c => k >= 3)
  BY <1>5, <1>6 DEF One
<1> QED BY <1>1, <1>5, <1>7 DEF m, r, c, n, k

LEMMA TypesOfVfs ==
  ASSUME VfsInv
  PROVE  /\ info \in [Infos -> Info] /\ lost_refs \in [Infos -> Nat]
         /\ mountpoints \in [Partitions -> Infos \union {NULL}]
         /\ root \in Infos \union {NULL} /\ current_dir \in Infos \union {NULL}
         /\ Mounted \subseteq Infos
BY DEF VfsInv, VfsTypes, Mounted

\* A change of the directories or of the lost references, with counts to match.
LEMMA Matched ==
  ASSUME VfsInv, UNCHANGED mountpoints, DirsTogether',
         {root', current_dir'} \subseteq Mounted \union {NULL},
         info' \in [Infos -> Info], lost_refs' \in [Infos -> Nat],
         \A i \in Infos :
           /\ info'[i].used = info[i].used /\ info'[i].destroyed = info[i].destroyed
           /\ info'[i].count = One(i \in Mounted) + One(root' = i) + One(current_dir' = i)
                                 + lost_refs'[i]
  PROVE  VfsInv'
<1>1. Mounted' = Mounted BY DEF Mounted
<1>2. VfsTypes' /\ MountedOnce'
  <2>1. root' \in Infos \union {NULL} /\ current_dir' \in Infos \union {NULL}
    BY TypesOfVfs
  <2>2. mountpoints' \in [Partitions -> Infos \union {NULL}] BY TypesOfVfs
  <2>3. MountedOnce' BY DEF VfsInv, MountedOnce
  <2> QED BY <2>1, <2>2, <2>3 DEF VfsTypes
<1>3. ASSUME NEW i \in Infos
      PROVE  /\ info'[i].count = Holders(i)' + lost_refs'[i]
             /\ (info'[i].used <=> i \in Mounted') /\ ~ info'[i].destroyed
  <2>2. Holders(i)' = One(i \in Mounted') + One(root' = i) + One(current_dir' = i)
    BY <1>2, HoldersWillBe
  <2>3. (info[i].used <=> i \in Mounted) /\ ~ info[i].destroyed BY CountIs
  <2> QED BY <1>1, <2>2, <2>3
<1>4. VolumesHeld' BY <1>1, <1>3 DEF VolumesHeld
<1> QED BY <1>2, <1>4 DEF VfsInv

\* What a search finds and drops.
LEMMA SearchIs ==
  ASSUME VfsInv, NEW s \in Searches
  PROVE  /\ s.at \in Infos /\ s.at \in Mounted
         /\ s.passed \in 0 .. 1 /\ s.found \in 0 .. 2
         /\ Dropped(s) \in Nat /\ Chosen(s) \in {0, 1}
         /\ Chosen(s) = 1 <=> s.choice \in {"file", "dir"}
         /\ Resolved(s) = Plus(info, s.at, Dropped(s) + Chosen(s))
<1>1. /\ s.at \in Volumes /\ s.passed \in 0 .. 1 /\ s.found \in 0 .. 2 BY DEF Searches
<1>2. s.at \in Infos /\ s.at \in Mounted
  <2>1. s.at \in Infos /\ (s.at = current_dir \/ \E p \in Partitions : mountpoints[p] = s.at)
    BY <1>1 DEF Volumes
  <2>2. s.at # NULL BY <2>1, VfsAssumption
  <2>3. {root, current_dir} \subseteq Mounted \union {NULL} BY DEF VfsInv, VolumesHeld
  <2> QED BY <2>1, <2>2, <2>3 DEF Mounted
<1>3. Dropped(s) \in Nat BY <1>1 DEF Dropped
<1>4. Chosen(s) \in {0, 1} /\ (Chosen(s) = 1 <=> s.choice \in {"file", "dir"}) BY DEF Chosen
<1>5. Resolved(s) = Plus(info, s.at, Dropped(s) + Chosen(s))
  <2> DEFINE m == s.passed + s.found
             n == Dropped(s) + Chosen(s) - s.passed - s.found
  <2>1. m \in Int /\ n \in Int /\ m + n = Dropped(s) + Chosen(s) BY <1>1, <1>3, <1>4
  <2>2. Resolved(s) = Plus(Plus(info, s.at, m), s.at, n) BY DEF Resolved, vfs_find_files
  <2> HIDE DEF m, n
  <2>3. Plus(Plus(info, s.at, m), s.at, n) = Plus(info, s.at, m + n)
    BY <1>2, <2>1, PlusPlus, TypesOfVfs
  <2> QED BY <2>1, <2>2, <2>3
<1> QED BY <1>1, <1>2, <1>3, <1>4, <1>5

\* A command that keeps the directories and loses what it adds.
LEMMA AllLost ==
  ASSUME VfsInv, NEW i \in Infos, NEW n \in Nat, info' = Plus(info, i, n), Lose(i, n),
         UNCHANGED <<mountpoints, root, current_dir>>
  PROVE  VfsInv'
<1>1. info \in [Infos -> Info] /\ lost_refs \in [Infos -> Nat] BY TypesOfVfs
<1>2. /\ info' \in [Infos -> Info] /\ info'[i].count = info[i].count + n
      /\ info'[i].destroyed = info[i].destroyed /\ info'[i].used = info[i].used
      /\ \A j \in Infos \ {i} : info'[j] = info[j]
  BY <1>1, PlusIs
<1>3. /\ lost_refs' \in [Infos -> Nat] /\ lost_refs'[i] = lost_refs[i] + n
      /\ \A j \in Infos \ {i} : lost_refs'[j] = lost_refs[j]
  <2>1. lost_refs[i] \in Nat /\ lost_refs[i] + n \in Nat BY <1>1
  <2>2. CASE n = 0 BY <1>1, <2>1, <2>2 DEF Lose
  <2>3. CASE n # 0 BY <1>1, <2>1, <2>3 DEF Lose
  <2> QED BY <2>2, <2>3
<1>4. ASSUME NEW j \in Infos
      PROVE  /\ info'[j].used = info[j].used /\ info'[j].destroyed = info[j].destroyed
             /\ info'[j].count = One(j \in Mounted) + One(root' = j) + One(current_dir' = j)
                                   + lost_refs'[j]
  <2>1. /\ info[j].count = One(j \in Mounted) + One(root = j) + One(current_dir = j) + lost_refs[j]
        /\ lost_refs[j] \in Nat
    BY CountIs
  <2>2. root' = root /\ current_dir' = current_dir OBVIOUS
  <2>3. CASE j = i BY <1>2, <1>3, <2>1, <2>2, <2>3 DEF One
  <2>4. CASE j # i BY <1>2, <1>3, <2>1, <2>2, <2>4
  <2> QED BY <2>3, <2>4
<1>5. {root', current_dir'} \subseteq Mounted \union {NULL} /\ DirsTogether'
  BY DEF VfsInv, VolumesHeld, DirsTogether
<1> QED BY <1>2, <1>3, <1>4, <1>5, Matched

---------------------------------------------------------------------------
(* The commands.                                                           *)

\* A count that is added and taken again, as a stream does.
LEMMA AddedAndTaken ==
  ASSUME NEW v \in [Infos -> Info], NEW i \in Infos, NEW n \in Nat,
         v[i].count >= 1, ~ v[i].destroyed
  PROVE  /\ Take(Plus(v, i, n), i) = Plus(v, i, n + 1)
         /\ Release(Plus(v, i, n + 1), i) = Plus(v, i, n)
<1>1. v[i].count \in Int BY DEF Info
<1>2. n + 1 \in Int /\ n \in Int OBVIOUS
<1>3. Plus(v, i, n) \in [Infos -> Info] /\ ~ Plus(v, i, n)[i].destroyed BY <1>2, PlusIs
<1>4. Take(Plus(v, i, n), i) = Plus(v, i, n + 1)
  <2>1. Take(Plus(v, i, n), i) = Plus(Plus(v, i, n), i, 1) BY <1>3, TakeAdds
  <2> QED BY <1>2, <2>1, PlusPlus
<1>5. Release(Plus(v, i, n + 1), i) = Plus(v, i, n)
  <2>1. /\ Plus(v, i, n + 1) \in [Infos -> Info]
        /\ Plus(v, i, n + 1)[i].count = v[i].count + (n + 1)
    BY <1>2, PlusIs
  <2>2. Plus(v, i, n + 1)[i].count # 1 BY <1>1, <2>1
  <2>3. Release(Plus(v, i, n + 1), i) = Plus(Plus(v, i, n + 1), i, -1)
    BY <2>1, <2>2, ReleaseSubtracts
  <2>4. Plus(Plus(v, i, n + 1), i, -1) = Plus(v, i, (n + 1) + (-1)) BY <1>2, PlusPlus
  <2>5. (n + 1) + (-1) = n OBVIOUS
  <2> QED BY <2>3, <2>4, <2>5
<1> QED BY <1>4, <1>5

LEMMA FileCommandsMatch ==
  ASSUME VfsInv, NEW s \in Searches, List(s) \/ ViewFile(s) \/ Write(s) \/ Exec(s)
  PROVE  VfsInv'
<1> DEFINE i == s.at
           d == Dropped(s)
<1>1. /\ i \in Infos /\ i \in Mounted /\ d \in Nat /\ Chosen(s) \in {0, 1}
      /\ s.passed \in 0 .. 1 /\ s.found \in 0 .. 2
      /\ Chosen(s) = 1 <=> s.choice \in {"file", "dir"}
      /\ Resolved(s) = Plus(info, i, d + Chosen(s))
  BY SearchIs
<1>2. info \in [Infos -> Info] /\ info[i].count >= 1 /\ ~ info[i].destroyed
  BY <1>1, CountIs, TypesOfVfs
<1>3. Release(Plus(info, i, d + 1), i) = Plus(info, i, d) BY <1>1, <1>2, AddedAndTaken
<1>4. Release(Take(Plus(info, i, d + 1), i), i) = Plus(info, i, d + 1)
  <2> DEFINE n == d + 1
  <2>1. n \in Nat BY <1>1
  <2> HIDE DEF n
  <2>2. Release(Take(Plus(info, i, n), i), i) = Plus(info, i, n)
    BY <1>1, <1>2, <2>1, AddedAndTaken
  <2> QED BY <2>2 DEF n
<1> HIDE DEF i, d
<1>5. CASE List(s)
  <2>1. s.passed \in Nat /\ (s.passed + s.found) + (- s.found) = s.passed BY <1>1
  <2>2. info' = Plus(Plus(info, i, s.passed + s.found), i, - s.found)
    BY <1>5 DEF List, vfs_find_files, i
  <2>3. s.passed + s.found \in Int /\ - s.found \in Int BY <1>1
  <2>4. info' = Plus(info, i, s.passed) BY <1>1, <1>2, <2>1, <2>2, <2>3, PlusPlus
  <2>5. Lose(i, s.passed) /\ UNCHANGED <<mountpoints, root, current_dir>>
    BY <1>5 DEF List, i
  <2> QED BY <1>1, <2>1, <2>4, <2>5, AllLost
<1>6. CASE ViewFile(s)
  <2>1. Lose(i, d) /\ UNCHANGED <<mountpoints, root, current_dir>> BY <1>6 DEF ViewFile, i, d
  <2>2. info' = Plus(info, i, d)
    <3>1. CASE s.choice = "file"
      <4>1. info' = Release(Release(Take(Resolved(s), i), i), i)
        BY <1>6, <3>1, Zenon DEF ViewFile, Opened, i
      <4>2. Resolved(s) = Plus(info, i, d + 1) BY <1>1, <3>1
      <4> QED BY <1>3, <1>4, <4>1, <4>2, Zenon
    <3>2. CASE s.choice = "dir"
      <4>0. s.choice # "file" BY <3>2
      <4>1. info' = Release(Resolved(s), i) BY <1>6, <3>2, <4>0, Zenon DEF ViewFile, i
      <4>2. Resolved(s) = Plus(info, i, d + 1) BY <1>1, <3>2
      <4> QED BY <1>3, <4>1, <4>2, Zenon
    <3>3. CASE s.choice # "file" /\ s.choice # "dir"
      <4>1. info' = Resolved(s) BY <1>6, <3>3, Zenon DEF ViewFile
      <4>2. Chosen(s) = 0 /\ d + Chosen(s) = d BY <1>1, <3>3
      <4> QED BY <1>1, <4>1, <4>2
    <3> QED BY <3>1, <3>2, <3>3
  <2> QED BY <1>1, <2>1, <2>2, AllLost
<1>7. CASE Write(s)
  <2>1. UNCHANGED <<mountpoints, root, current_dir>> BY <1>7 DEF Write
  <2>2. CASE s.choice = "file"
    <3>0. s.choice # "dir" BY <2>2
    <3>1. info' = Release(Release(Take(Resolved(s), i), i), i) /\ Lose(i, d + 0)
      BY <1>7, <2>2, <3>0, Zenon DEF Write, Opened, i, d
    <3>2. Resolved(s) = Plus(info, i, d + 1) BY <1>1, <2>2
    <3>3. info' = Plus(info, i, d) BY <1>3, <1>4, <3>1, <3>2, Zenon
    <3>4. d + 0 = d BY <1>1
    <3> QED BY <1>1, <2>1, <3>1, <3>3, <3>4, AllLost
  <2>3. CASE s.choice = "dir"
    <3>0. s.choice # "file" BY <2>3
    <3>1. info' = Resolved(s) /\ Lose(i, d + 1) BY <1>7, <2>3, <3>0, Zenon DEF Write, i, d
    <3>2. Resolved(s) = Plus(info, i, d + 1) BY <1>1, <2>3
    <3>3. d + 1 \in Nat BY <1>1
    <3> QED BY <1>1, <2>1, <3>1, <3>2, <3>3, AllLost
  <2>4. CASE s.choice # "file" /\ s.choice # "dir"
    <3>1. info' = Resolved(s) /\ Lose(i, d + 0) BY <1>7, <2>4, Zenon DEF Write, i, d
    <3>2. Chosen(s) = 0 /\ d + Chosen(s) = d /\ d + 0 = d BY <1>1, <2>4
    <3> QED BY <1>1, <2>1, <3>1, <3>2, AllLost
  <2> QED BY <2>2, <2>3, <2>4
<1>8. CASE Exec(s)
  <2>1. Lose(i, d + Chosen(s)) /\ UNCHANGED <<mountpoints, root, current_dir>>
    BY <1>8 DEF Exec, i, d
  <2>2. info' = Plus(info, i, d + Chosen(s))
    <3>1. CASE s.choice = "file"
      <4>1. info' = Release(Take(Resolved(s), i), i)
        BY <1>8, <3>1, Zenon DEF Exec, Opened, i
      <4>2. Chosen(s) = 1 /\ Resolved(s) = Plus(info, i, d + 1) BY <1>1, <3>1
      <4> QED BY <1>4, <4>1, <4>2, Zenon
    <3>2. CASE s.choice # "file" BY <1>1, <1>8, <3>2 DEF Exec
    <3> QED BY <3>1, <3>2
  <2>3. d + Chosen(s) \in Nat BY <1>1
  <2> QED BY <1>1, <2>1, <2>2, <2>3, AllLost
<1> QED BY <1>5, <1>6, <1>7, <1>8

\* The count of every volume after two changes.
LEMMA TwoChanges ==
  ASSUME NEW i \in Infos, NEW m \in Int, NEW k \in Infos, NEW n \in Int,
         info \in [Infos -> Info]
  PROVE  LET v == Plus(Plus(info, i, m), k, n)
         IN  /\ v \in [Infos -> Info]
             /\ \A j \in Infos :
                  /\ v[j].used = info[j].used /\ v[j].destroyed = info[j].destroyed
                  /\ v[j].count = info[j].count + (IF j = i THEN m ELSE 0)
                                                + (IF j = k THEN n ELSE 0)
<1> DEFINE w == Plus(info, i, m)
           v == Plus(w, k, n)
<1>1. /\ w \in [Infos -> Info] /\ w[i].count = info[i].count + m
      /\ w[i].destroyed = info[i].destroyed /\ w[i].used = info[i].used
      /\ \A j \in Infos \ {i} : w[j] = info[j]
  BY PlusIs
<1> HIDE DEF w
<1>2. /\ v \in [Infos -> Info] /\ v[k].count = w[k].count + n
      /\ v[k].destroyed = w[k].destroyed /\ v[k].used = w[k].used
      /\ \A j \in Infos \ {k} : v[j] = w[j]
  BY <1>1, PlusIs
<1> HIDE DEF v
<1>3. \A j \in Infos : info[j].count \in Int BY DEF Info
<1>4. ASSUME NEW j \in Infos
      PROVE  /\ v[j].used = info[j].used /\ v[j].destroyed = info[j].destroyed
             /\ v[j].count = info[j].count + (IF j = i THEN m ELSE 0)
                                           + (IF j = k THEN n ELSE 0)
  BY <1>1, <1>2, <1>3
<1> QED BY <1>2, <1>4 DEF v, w

\* A release that leaves a reference, of an object that stays.
LEMMA Released ==
  ASSUME NEW v \in [Infos -> Info], NEW i \in Infos, v[i].count >= 2
  PROVE  Release(v, i) = Plus(v, i, -1)
<1>1. v[i].count # 1 BY DEF Info
<1> QED BY <1>1, ReleaseSubtracts

\* The terminal stands in another volume: it keeps what it found there.
LEMMA HomeMatches ==
  ASSUME VfsInv, ChangeDirHome
  PROVE  VfsInv'
<1> DEFINE c == current_dir
           r == root
           v == Plus(info, c, -1)
           w == Plus(v, r, 1)
<1>1. /\ c \in Infos /\ r \in Infos /\ info \in [Infos -> Info]
      /\ lost_refs \in [Infos -> Nat]
  BY TypesOfVfs DEF ChangeDirHome, VfsInv, DirsTogether
<1>2. info[c].count >= 2 /\ \A j \in Infos : ~ info[j].destroyed
  BY <1>1, CountIs
<1>3. Release(info, c) = v BY <1>1, <1>2, Released
<1>4. -1 \in Int /\ 1 \in Int OBVIOUS
<1>5. v \in [Infos -> Info] /\ ~ v[r].destroyed
  <2> HIDE DEF c, r
  <2>1. /\ v \in [Infos -> Info] /\ v[c].destroyed = info[c].destroyed
        /\ \A j \in Infos \ {c} : v[j] = info[j]
    BY <1>1, <1>4, PlusIs
  <2> QED BY <1>1, <1>2, <2>1
<1>6. info' = w
  <2>1. info' = Take(v, r) BY <1>3 DEF ChangeDirHome
  <2> HIDE DEF v, r
  <2>2. Take(v, r) = Plus(v, r, 1) BY <1>1, <1>5, TakeAdds
  <2> QED BY <2>1, <2>2 DEF w
<1>7. /\ w \in [Infos -> Info]
      /\ \A j \in Infos :
           /\ w[j].used = info[j].used /\ w[j].destroyed = info[j].destroyed
           /\ w[j].count = info[j].count + (IF j = c THEN -1 ELSE 0) + (IF j = r THEN 1 ELSE 0)
  BY <1>1, <1>4, TwoChanges
<1>8. UNCHANGED <<mountpoints, root, lost_refs>> /\ current_dir' = r BY DEF ChangeDirHome
<1> HIDE DEF v, w, c, r
<1>9. ASSUME NEW j \in Infos
      PROVE  /\ info'[j].used = info[j].used /\ info'[j].destroyed = info[j].destroyed
             /\ info'[j].count = One(j \in Mounted) + One(root' = j) + One(current_dir' = j)
                                   + lost_refs'[j]
  <2>1. /\ info[j].count = One(j \in Mounted) + One(root = j) + One(current_dir = j) + lost_refs[j]
        /\ lost_refs[j] \in Nat
    BY CountIs
  <2>2. info[j].count = One(j \in Mounted) + One(r = j) + One(c = j) + lost_refs[j]
    BY <2>1 DEF c, r
  <2>3. w[j].count = One(j \in Mounted) + One(r = j) + One(r = j) + lost_refs[j]
    BY <1>7, <2>1, <2>2 DEF One
  <2>4. root' = r /\ current_dir' = r /\ lost_refs' = lost_refs BY <1>8 DEF r
  <2> QED BY <1>6, <1>7, <2>3, <2>4
<1>10. {root', current_dir'} \subseteq Mounted \union {NULL} /\ DirsTogether'
  BY <1>1, <1>8, VfsAssumption DEF VfsInv, VolumesHeld, DirsTogether, r
<1> QED BY <1>1, <1>6, <1>7, <1>8, <1>9, <1>10, Matched

LEMMA LeaveMatches ==
  ASSUME VfsInv, FsLeave
  PROVE  VfsInv'
<1>1. info \in [Infos -> Info] /\ lost_refs \in [Infos -> Nat] BY TypesOfVfs
<1>2. root' = NULL /\ current_dir' = NULL /\ UNCHANGED <<mountpoints, lost_refs>>
  BY DEF FsLeave
<1>3. {root', current_dir'} \subseteq Mounted \union {NULL} /\ DirsTogether'
  BY <1>2 DEF DirsTogether
<1>4. info' \in [Infos -> Info]
      /\ \A j \in Infos :
           /\ info'[j].used = info[j].used /\ info'[j].destroyed = info[j].destroyed
           /\ info'[j].count = info[j].count - One(root = j) - One(current_dir = j)
  <2>1. CASE root = NULL
    <3>1. current_dir = NULL BY <2>1 DEF VfsInv, DirsTogether
    <3>2. info' = info BY <2>1, <3>1 DEF FsLeave
    <3>3. \A j \in Infos : info[j].count \in Int /\ j # NULL BY <1>1, VfsAssumption DEF Info
    <3> QED BY <1>1, <2>1, <3>1, <3>2, <3>3 DEF One
  <2>2. CASE root # NULL
    <3> DEFINE r == root
               c == current_dir
               v == Plus(info, r, -1)
               w == Plus(v, c, -1)
    <3>1. r \in Infos /\ c \in Infos /\ c # NULL
      BY <2>2, TypesOfVfs, VfsAssumption DEF VfsInv, DirsTogether
    <3>2. /\ info[r].count >= 2 /\ info[c].count >= 2
          /\ (r = c => info[r].count >= 3) /\ info[r].count \in Int
      BY <3>1, CountIs
    <3>3. Release(info, r) = v BY <1>1, <3>1, <3>2, Released
    <3>4. info' = Release(v, c) BY <2>2, <3>1, <3>3 DEF FsLeave
    <3>5. -1 \in Int OBVIOUS
    <3>7. /\ w \in [Infos -> Info]
          /\ \A j \in Infos :
               /\ w[j].used = info[j].used /\ w[j].destroyed = info[j].destroyed
               /\ w[j].count = info[j].count + (IF j = r THEN -1 ELSE 0)
                                             + (IF j = c THEN -1 ELSE 0)
      <4> HIDE DEF r, c
      <4> DEFINE m == -1
                 n == -1
      <4>1. m \in Int /\ n \in Int BY <3>5
      <4> HIDE DEF m, n
      <4>2. LET x == Plus(Plus(info, r, m), c, n)
            IN  /\ x \in [Infos -> Info]
                /\ \A j \in Infos :
                     /\ x[j].used = info[j].used /\ x[j].destroyed = info[j].destroyed
                     /\ x[j].count = info[j].count + (IF j = r THEN m ELSE 0)
                                                   + (IF j = c THEN n ELSE 0)
        BY <1>1, <3>1, <4>1, TwoChanges
      <4> QED BY <4>2 DEF m, n
    <3> HIDE DEF r, c
    <3>6. /\ v \in [Infos -> Info] /\ v[r].count = info[r].count + (-1)
          /\ \A j \in Infos \ {r} : v[j] = info[j]
      BY <1>1, <3>1, <3>5, PlusIs
    <3> HIDE DEF v
    <3>8. v[c].count >= 2 BY <3>1, <3>2, <3>6
    <3>9. info' = w BY <3>1, <3>4, <3>6, <3>8, Released
    <3> HIDE DEF w
    <3>10. \A j \in Infos : info[j].count \in Int BY <1>1 DEF Info
    <3>11. \A j \in Infos : w[j].count = info[j].count - One(r = j) - One(c = j)
      BY <3>7, <3>10 DEF One
    <3> QED BY <3>7, <3>9, <3>11 DEF r, c
  <2> QED BY <2>1, <2>2
<1>5. ASSUME NEW j \in Infos
      PROVE  info'[j].count = One(j \in Mounted) + One(root' = j) + One(current_dir' = j)
                                + lost_refs'[j]
  <2>1. /\ info[j].count = One(j \in Mounted) + One(root = j) + One(current_dir = j) + lost_refs[j]
        /\ lost_refs[j] \in Nat /\ j # NULL
    BY CountIs, VfsAssumption
  <2>2. One(root' = j) = 0 /\ One(current_dir' = j) = 0 BY <1>2, <2>1 DEF One
  <2>3. info'[j].count = info[j].count - One(root = j) - One(current_dir = j) BY <1>4
  <2>4. /\ One(root = j) \in Int /\ One(current_dir = j) \in Int /\ One(j \in Mounted) \in Int
    BY DEF One
  <2>5. info'[j].count = One(j \in Mounted) + lost_refs[j] BY <2>1, <2>3, <2>4
  <2> QED BY <1>2, <2>1, <2>2, <2>4, <2>5
<1> QED BY <1>1, <1>2, <1>3, <1>4, <1>5, Matched

\* A directory r is let go of, and the volume i found takes d references that
\* are lost and one that is kept.
LEMMA MoveCounts ==
  ASSUME VfsInv, NEW i \in Infos, NEW d \in Nat, NEW r \in Infos, info[r].count >= 2,
         info[i].count >= 1
  PROVE  LET w == Release(Plus(info, i, d + 1), r)
         IN  /\ w \in [Infos -> Info]
             /\ \A j \in Infos :
                  /\ w[j].used = info[j].used /\ w[j].destroyed = info[j].destroyed
                  /\ w[j].count = info[j].count + (IF j = i THEN d + 1 ELSE 0)
                                                + (IF j = r THEN -1 ELSE 0)
<1> DEFINE m == d + 1
           n == -1
           v == Plus(info, i, m)
           w == Plus(v, r, n)
<1>1. m \in Int /\ n \in Int /\ m >= 1 OBVIOUS
<1>2. info \in [Infos -> Info] /\ \A j \in Infos : info[j].count \in Int
  BY TypesOfVfs DEF Info
<1> HIDE DEF m, n
<1>3. /\ w \in [Infos -> Info]
      /\ \A j \in Infos :
           /\ w[j].used = info[j].used /\ w[j].destroyed = info[j].destroyed
           /\ w[j].count = info[j].count + (IF j = i THEN m ELSE 0) + (IF j = r THEN n ELSE 0)
  <2>1. LET x == Plus(Plus(info, i, m), r, n)
        IN  /\ x \in [Infos -> Info]
            /\ \A j \in Infos :
                 /\ x[j].used = info[j].used /\ x[j].destroyed = info[j].destroyed
                 /\ x[j].count = info[j].count + (IF j = i THEN m ELSE 0)
                                               + (IF j = r THEN n ELSE 0)
    <3>1. m \in Int /\ n \in Int BY <1>1
    <3>2. info \in [Infos -> Info] BY <1>2
    <3> QED BY <3>1, <3>2, TwoChanges
  <2> QED BY <2>1
<1>4. /\ v \in [Infos -> Info] /\ v[i].count = info[i].count + m
      /\ \A j \in Infos \ {i} : v[j] = info[j]
  BY <1>1, <1>2, PlusIs
<1> HIDE DEF v
<1>5. v[r].count >= 2 BY <1>1, <1>2, <1>4
<1>6. Release(v, r) = w
  <2>1. Release(v, r) = Plus(v, r, -1) BY <1>4, <1>5, Released
  <2> QED BY <2>1 DEF w, n
<1> HIDE DEF w
<1> QED BY <1>3, <1>6 DEF v, m, n

\* The lost references after a command, one by one.
LEMMA LoseIs ==
  ASSUME VfsInv, NEW i \in Infos, NEW n \in Nat, Lose(i, n)
  PROVE  /\ lost_refs' \in [Infos -> Nat]
         /\ \A j \in Infos : lost_refs'[j] = lost_refs[j] + (IF j = i THEN n ELSE 0)
<1>1. lost_refs \in [Infos -> Nat] BY TypesOfVfs
<1>2. \A j \in Infos : lost_refs[j] \in Nat /\ lost_refs[j] + n \in Nat BY <1>1
<1>3. CASE n = 0 BY <1>1, <1>2, <1>3 DEF Lose
<1>4. CASE n # 0 BY <1>1, <1>2, <1>4 DEF Lose
<1> QED BY <1>3, <1>4

LEMMA ChangeDirMatches ==
  ASSUME VfsInv, NEW s \in Searches, ChangeDir(s)
  PROVE  VfsInv'
<1> DEFINE i == s.at
           d == Dropped(s)
           c == current_dir
           w == Release(Plus(info, i, d + 1), c)
<1>1. /\ i \in Infos /\ i \in Mounted /\ d \in Nat /\ Chosen(s) \in {0, 1}
      /\ Chosen(s) = 1 <=> s.choice \in {"file", "dir"}
      /\ Resolved(s) = Plus(info, i, d + Chosen(s))
  BY SearchIs
<1>2. UNCHANGED <<mountpoints, root>> /\ c \in Infos /\ c # NULL
  BY TypesOfVfs DEF ChangeDir
<1>3. /\ info \in [Infos -> Info] /\ info[i].count >= 1 /\ ~ info[i].destroyed
      /\ info[c].count >= 2 /\ info[i].count \in Int
      /\ (c = i => info[i].count >= 2)
  BY <1>1, <1>2, CountIs, TypesOfVfs
<1>4. CASE s.choice # "dir"
  <2>1. info' = Plus(info, i, d + Chosen(s)) /\ Lose(i, d + Chosen(s)) /\ current_dir' = current_dir
    BY <1>1, <1>4 DEF ChangeDir
  <2>2. d + Chosen(s) \in Nat BY <1>1
  <2> QED BY <1>1, <1>2, <2>1, <2>2, AllLost
<1>5. CASE s.choice = "dir"
  <2>1. Chosen(s) = 1 /\ Resolved(s) = Plus(info, i, d + 1) BY <1>1, <1>5
  <2>2. info' = Release(Take(w, i), i) /\ current_dir' = i /\ Lose(i, d)
    BY <1>5, <2>1 DEF ChangeDir
  <2>3. /\ w \in [Infos -> Info]
        /\ \A j \in Infos :
             /\ w[j].used = info[j].used /\ w[j].destroyed = info[j].destroyed
             /\ w[j].count = info[j].count + (IF j = i THEN d + 1 ELSE 0)
                                           + (IF j = c THEN -1 ELSE 0)
    BY <1>1, <1>2, <1>3, MoveCounts
  <2> HIDE DEF w, i, d, c
  <2>4. w[i].count >= 1 /\ ~ w[i].destroyed BY <1>1, <1>2, <1>3, <2>3
  <2>5. info' = w
    <3>1. Plus(w, i, 0) = w BY <1>1, <2>3, PlusNothing
    <3>2. Take(w, i) = Plus(w, i, 0 + 1)
      <4>1. Take(Plus(w, i, 0), i) = Plus(w, i, 0 + 1) BY <1>1, <2>3, <2>4, AddedAndTaken
      <4> QED BY <3>1, <4>1
    <3>3. Release(Plus(w, i, 0 + 1), i) = Plus(w, i, 0)
      BY <1>1, <2>3, <2>4, AddedAndTaken
    <3> QED BY <2>2, <3>1, <3>2, <3>3, Zenon
  <2>6. /\ lost_refs' \in [Infos -> Nat]
        /\ \A j \in Infos : lost_refs'[j] = lost_refs[j] + (IF j = i THEN d ELSE 0)
    BY <1>1, <2>2, LoseIs
  <2>7. ASSUME NEW j \in Infos
        PROVE  info'[j].count = One(j \in Mounted) + One(root' = j) + One(current_dir' = j)
                                  + lost_refs'[j]
    <3>1. /\ info[j].count = One(j \in Mounted) + One(root = j) + One(c = j) + lost_refs[j]
          /\ lost_refs[j] \in Nat
      BY CountIs DEF c
    <3>2. w[j].count = info[j].count + (IF j = i THEN d + 1 ELSE 0) + (IF j = c THEN -1 ELSE 0)
      BY <2>3
    <3>3. lost_refs'[j] = lost_refs[j] + (IF j = i THEN d ELSE 0) BY <2>6
    <3>4. w[j].count = One(j \in Mounted) + One(root = j) + One(i = j) + lost_refs'[j]
      BY <1>1, <3>1, <3>2, <3>3 DEF One
    <3>5. root' = root /\ current_dir' = i BY <1>2, <2>2
    <3> QED BY <2>5, <3>4, <3>5
  <2>8. {root', current_dir'} \subseteq Mounted \union {NULL} /\ DirsTogether'
    <3>1. root' = root /\ current_dir' = i /\ i # NULL BY <1>1, <1>2, <2>2, VfsAssumption
    <3>2. root # NULL BY <1>2 DEF VfsInv, DirsTogether, c
    <3>3. root \in Mounted \union {NULL} BY DEF VfsInv, VolumesHeld
    <3> QED BY <1>1, <3>1, <3>2, <3>3 DEF DirsTogether
  <2> QED BY <1>2, <2>3, <2>5, <2>6, <2>7, <2>8, Matched
<1> QED BY <1>4, <1>5

LEMMA ChangeRootMatches ==
  ASSUME VfsInv, NEW s \in Searches, ChangeRoot(s)
  PROVE  VfsInv'
<1> DEFINE i == s.at
           d == Dropped(s)
           r == root
<1>1. /\ i \in Infos /\ i \in Mounted /\ d \in Nat /\ Chosen(s) \in {0, 1}
      /\ Chosen(s) = 1 <=> s.choice \in {"file", "dir"}
      /\ Resolved(s) = Plus(info, i, d + Chosen(s))
  BY SearchIs
<1>2. UNCHANGED mountpoints BY DEF ChangeRoot
<1>3. /\ info \in [Infos -> Info] /\ info[i].count >= 1 /\ ~ info[i].destroyed
      /\ info[i].count \in Int /\ i # NULL
  BY <1>1, CountIs, TypesOfVfs, VfsAssumption
<1>4. CASE s.choice # "dir"
  <2>1. /\ info' = Plus(info, i, d + Chosen(s)) /\ Lose(i, d + Chosen(s))
        /\ UNCHANGED <<root, current_dir>>
    BY <1>1, <1>4 DEF ChangeRoot
  <2>2. d + Chosen(s) \in Nat BY <1>1
  <2> QED BY <1>1, <1>2, <2>1, <2>2, AllLost
<1>5. CASE s.choice = "dir"
  <2>1. Chosen(s) = 1 /\ Resolved(s) = Plus(info, i, d + 1) BY <1>1, <1>5
  <2>2. root' = i /\ Lose(i, d) BY <1>5 DEF ChangeRoot
  <2>3. /\ lost_refs' \in [Infos -> Nat]
        /\ \A j \in Infos : lost_refs'[j] = lost_refs[j] + (IF j = i THEN d ELSE 0)
    BY <1>1, <2>2, LoseIs
  <2>4. CASE r = NULL
    <3>1. current_dir = NULL BY <2>4 DEF VfsInv, DirsTogether
    <3>2. info' = Take(Plus(info, i, d + 1), i) /\ current_dir' = i
      BY <1>5, <2>1, <2>4, <3>1 DEF ChangeRoot
    <3> DEFINE m == d + 1
               n == d + 2
    <3>3. m \in Nat /\ m + 1 = n /\ n \in Int BY <1>1
    <3>4. info' = Plus(info, i, n)
      <4> HIDE DEF m, n, i
      <4>1. Take(Plus(info, i, m), i) = Plus(info, i, m + 1) BY <1>1, <1>3, <3>3, AddedAndTaken
      <4> QED BY <3>2, <3>3, <4>1 DEF m
    <3> HIDE DEF n, i, d, r
    <3>5. /\ info' \in [Infos -> Info] /\ info'[i].count = info[i].count + n
          /\ info'[i].destroyed = info[i].destroyed /\ info'[i].used = info[i].used
          /\ \A j \in Infos \ {i} : info'[j] = info[j]
      BY <1>1, <1>3, <3>3, <3>4, PlusIs
    <3>6. ASSUME NEW j \in Infos
          PROVE  /\ info'[j].used = info[j].used /\ info'[j].destroyed = info[j].destroyed
                 /\ info'[j].count = One(j \in Mounted) + One(root' = j) + One(current_dir' = j)
                                       + lost_refs'[j]
      <4>1. /\ info[j].count = One(j \in Mounted) + One(r = j) + One(current_dir = j) + lost_refs[j]
            /\ lost_refs[j] \in Nat /\ j # NULL
        BY CountIs, VfsAssumption DEF r
      <4>2. info[j].count = One(j \in Mounted) + lost_refs[j] BY <2>4, <3>1, <4>1 DEF One
      <4>3. lost_refs'[j] = lost_refs[j] + (IF j = i THEN d ELSE 0) BY <2>3
      <4>4. info'[j].count = info[j].count + (IF j = i THEN n ELSE 0)
        <5>1. info[j].count \in Int BY <1>3 DEF Info
        <5> QED BY <3>5, <5>1
      <4>5. n = d + 2 BY DEF n
      <4>6. info'[j].count = One(j \in Mounted) + One(i = j) + One(i = j) + lost_refs'[j]
        BY <1>1, <4>1, <4>2, <4>3, <4>4, <4>5 DEF One
      <4>7. /\ info'[j].used = info[j].used /\ info'[j].destroyed = info[j].destroyed
        BY <3>5
      <4> QED BY <2>2, <3>2, <4>6, <4>7 DEF i
    <3>7. {root', current_dir'} \subseteq Mounted \union {NULL} /\ DirsTogether'
      BY <1>1, <1>3, <2>2, <3>2 DEF DirsTogether, i
    <3> QED BY <1>2, <2>3, <3>5, <3>6, <3>7, Matched
  <2>5. CASE r # NULL
    <3>1. r \in Infos /\ current_dir # NULL /\ current_dir \in Infos
      BY <2>5, TypesOfVfs DEF VfsInv, DirsTogether
    <3>2. info' = Release(Plus(info, i, d + 1), r) /\ current_dir' = current_dir
      BY <1>5, <2>1, <2>5, <3>1 DEF ChangeRoot
    <3>3. info[r].count >= 2 BY <3>1, CountIs
    <3>4. /\ info' \in [Infos -> Info]
          /\ \A j \in Infos :
               /\ info'[j].used = info[j].used /\ info'[j].destroyed = info[j].destroyed
               /\ info'[j].count = info[j].count + (IF j = i THEN d + 1 ELSE 0)
                                                 + (IF j = r THEN -1 ELSE 0)
      BY <1>1, <1>3, <3>1, <3>2, <3>3, MoveCounts
    <3> HIDE DEF i, d, r
    <3>5. ASSUME NEW j \in Infos
          PROVE  info'[j].count = One(j \in Mounted) + One(root' = j) + One(current_dir' = j)
                                    + lost_refs'[j]
      <4>1. /\ info[j].count = One(j \in Mounted) + One(r = j) + One(current_dir = j) + lost_refs[j]
            /\ lost_refs[j] \in Nat
        BY CountIs DEF r
      <4>2. lost_refs'[j] = lost_refs[j] + (IF j = i THEN d ELSE 0) BY <2>3
      <4>3. info'[j].count = info[j].count + (IF j = i THEN d + 1 ELSE 0)
                                           + (IF j = r THEN -1 ELSE 0)
        BY <3>4
      <4>4. info'[j].count = One(j \in Mounted) + One(i = j) + One(current_dir = j) + lost_refs'[j]
        BY <1>1, <4>1, <4>2, <4>3 DEF One
      <4> QED BY <2>2, <3>2, <4>4 DEF i
    <3>6. {root', current_dir'} \subseteq Mounted \union {NULL} /\ DirsTogether'
      <4>1. current_dir \in Mounted \union {NULL} BY DEF VfsInv, VolumesHeld
      <4> QED BY <1>1, <1>3, <2>2, <3>1, <3>2, <4>1 DEF DirsTogether, i
    <3> QED BY <1>2, <2>3, <3>4, <3>5, <3>6, Matched
  <2> QED BY <2>4, <2>5
<1> QED BY <1>4, <1>5

---------------------------------------------------------------------------
(* Mounting and unmounting.                                                *)

\* A table of volumes and their counts for the unchanged directories.
LEMMA Remounted ==
  ASSUME VfsInv, UNCHANGED <<root, current_dir, lost_refs>>,
         mountpoints' \in [Partitions -> Infos \union {NULL}], MountedOnce',
         {root, current_dir} \subseteq Mounted' \union {NULL},
         info' \in [Infos -> Info],
         \A i \in Infos :
           /\ info'[i].used <=> i \in Mounted'
           /\ ~ info'[i].destroyed
           /\ info'[i].count = One(i \in Mounted') + One(root = i) + One(current_dir = i)
                                 + lost_refs[i]
  PROVE  VfsInv'
<1>1. VfsTypes' BY TypesOfVfs DEF VfsTypes
<1>2. DirsTogether' BY DEF VfsInv, DirsTogether
<1>3. ASSUME NEW i \in Infos PROVE info'[i].count = Holders(i)' + lost_refs'[i]
  <2>1. Holders(i)' = One(i \in Mounted') + One(root' = i) + One(current_dir' = i)
    BY HoldersWillBe
  <2> QED BY <2>1
<1>4. VolumesHeld' BY <1>3 DEF VolumesHeld
<1> QED BY <1>1, <1>2, <1>4 DEF VfsInv

LEMMA MountMatches ==
  ASSUME VfsInv, NEW p \in Partitions, NEW i \in Infos, Mount(p, i)
  PROVE  VfsInv'
<1> DEFINE v == [info EXCEPT ![i].used = TRUE]
<1>1. /\ info \in [Infos -> Info] /\ mountpoints \in [Partitions -> Infos \union {NULL}]
      /\ i # NULL
  BY TypesOfVfs, VfsAssumption
<1>2. /\ mountpoints[p] = NULL /\ ~ info[i].used /\ info' = Take(v, i)
      /\ mountpoints' = [mountpoints EXCEPT ![p] = i]
      /\ UNCHANGED <<root, current_dir, lost_refs>>
  BY DEF Mount
<1>3. i \notin Mounted /\ ~ info[i].destroyed BY <1>2, CountIs
<1>4. info[i] \in Info /\ [info[i] EXCEPT !.used = TRUE] \in Info BY <1>1 DEF Info
<1>5. /\ v \in [Infos -> Info] /\ v[i] = [info[i] EXCEPT !.used = TRUE]
      /\ \A j \in Infos \ {i} : v[j] = info[j]
  BY <1>1, <1>4
<1>6. v[i].count = info[i].count /\ v[i].used /\ ~ v[i].destroyed
  BY <1>3, <1>4, <1>5 DEF Info
<1> HIDE DEF v
<1>7. info' = Plus(v, i, 1) BY <1>2, <1>5, <1>6, TakeAdds
<1>8. /\ info' \in [Infos -> Info] /\ info'[i].count = info[i].count + 1
      /\ info'[i].used /\ ~ info'[i].destroyed
      /\ \A j \in Infos \ {i} : info'[j] = info[j]
  <2>1. 1 \in Int OBVIOUS
  <2>2. v \in [Infos -> Info] BY <1>5
  <2>3. /\ Plus(v, i, 1) \in [Infos -> Info] /\ Plus(v, i, 1)[i].count = v[i].count + 1
        /\ Plus(v, i, 1)[i].destroyed = v[i].destroyed /\ Plus(v, i, 1)[i].used = v[i].used
        /\ \A j \in Infos \ {i} : Plus(v, i, 1)[j] = v[j]
    BY <2>1, <2>2, PlusIs
  <2> QED BY <1>5, <1>6, <1>7, <2>3
<1>9. Mounted' = Mounted \union {i}
  <2>1. \A q \in Partitions : mountpoints'[q] = IF q = p THEN i ELSE mountpoints[q]
    BY <1>1, <1>2
  <2> QED BY <1>1, <1>2, <2>1 DEF Mounted
<1>10. mountpoints' \in [Partitions -> Infos \union {NULL}] /\ MountedOnce'
  <2>1. \A q \in Partitions : mountpoints[q] # i BY <1>1, <1>3 DEF Mounted
  <2>2. MountedOnce' BY <1>1, <1>2, <2>1 DEF VfsInv, MountedOnce
  <2> QED BY <1>1, <1>2, <2>2
<1>11. {root, current_dir} \subseteq Mounted' \union {NULL}
  BY <1>9 DEF VfsInv, VolumesHeld
<1>12. ASSUME NEW j \in Infos
       PROVE  /\ info'[j].used <=> j \in Mounted'
              /\ ~ info'[j].destroyed
              /\ info'[j].count = One(j \in Mounted') + One(root = j) + One(current_dir = j)
                                    + lost_refs[j]
  <2>1. /\ info[j].count = One(j \in Mounted) + One(root = j) + One(current_dir = j) + lost_refs[j]
        /\ lost_refs[j] \in Nat /\ (info[j].used <=> j \in Mounted) /\ ~ info[j].destroyed
    BY CountIs
  <2>2. CASE j = i
    <3>1. info[i].count = One(root = j) + One(current_dir = j) + lost_refs[j]
      BY <1>3, <2>1, <2>2 DEF One
    <3>2. info'[j].count = 1 + One(root = j) + One(current_dir = j) + lost_refs[j]
      BY <1>8, <2>1, <2>2, <3>1 DEF One
    <3> QED BY <1>8, <1>9, <2>2, <3>2 DEF One
  <2>3. CASE j # i
    <3>1. j \in Mounted' <=> j \in Mounted BY <1>9, <2>3
    <3> QED BY <1>8, <2>1, <2>3, <3>1
  <2> QED BY <2>2, <2>3
<1> QED BY <1>2, <1>8, <1>10, <1>11, <1>12, Remounted

\* Both forms of umount see what refers to the volume.
LEMMA UnmountIs ==
  ASSUME VfsInv, NEW p \in Partitions, mountpoints[p] # NULL
  PROVE  LET i == mountpoints[p]
             unused == i \notin {root, current_dir} /\ lost_refs[i] = 0
             gone == [info EXCEPT ![i] = NoInfo]
             found == Take(info, i)
         IN  /\ i \in Infos /\ i \in Mounted /\ gone # info
             /\ ~ unused => /\ vfs_unmount_partition(info, p, 2) = info
                            /\ vfs_unmount_partition(found, p, 3) = found
                            /\ Release(found, i) = info
             /\ unused => /\ vfs_unmount_partition(info, p, 2) = gone
                          /\ vfs_unmount_partition(found, p, 3) # found
                          /\ Release(vfs_unmount_partition(found, p, 3), i) = gone
<1> DEFINE i == mountpoints[p]
           unused == i \notin {root, current_dir} /\ lost_refs[i] = 0
           gone == [info EXCEPT ![i] = NoInfo]
           found == Take(info, i)
           k == info[i].count
<1>1. info \in [Infos -> Info] /\ i \in Infos /\ i \in Mounted
  BY TypesOfVfs DEF Mounted
<1>2. /\ info[i].used /\ ~ info[i].destroyed /\ k \in Nat /\ k >= 1
      /\ k = 1 + One(root = i) + One(current_dir = i) + lost_refs[i] /\ lost_refs[i] \in Nat
  BY <1>1, CountIs DEF One
<1>3. unused <=> k = 1 BY <1>2 DEF One
<1>4. found = [info EXCEPT ![i].count = @ + 1] BY <1>2 DEF Take
<1>5. info[i] \in Info BY <1>1
<1> HIDE DEF found, i, unused
<1>6. found = [info EXCEPT ![i] = [info[i] EXCEPT !.count = k + 1]] BY <1>4
<1>7. found[i] = [info[i] EXCEPT !.count = k + 1] BY <1>1, <1>6
<1>8. found[i].count = k + 1 /\ ~ found[i].destroyed /\ found[i] \in Info
  BY <1>2, <1>5, <1>7 DEF Info
<1>9. found \in [Infos -> Info] /\ \A j \in Infos \ {i} : found[j] = info[j]
  BY <1>1, <1>6, <1>7, <1>8
<1>10. gone # info
  <2>1. gone[i] = NoInfo BY <1>1
  <2> QED BY <1>2, <2>1 DEF NoInfo
<1>11. CASE ~ unused
  <2>1. k >= 2 /\ k + 1 >= 3 /\ k + 1 # 1 BY <1>2, <1>3, <1>11
  <2>2. vfs_unmount_partition(info, p, 2) = info
    BY <2>1 DEF vfs_unmount_partition, rc_destroy_if_less, i
  <2>3. vfs_unmount_partition(found, p, 3) = found
    BY <1>8, <2>1 DEF vfs_unmount_partition, rc_destroy_if_less, i
  <2>4. Release(found, i) = info
    <3>1. Release(found, i) = Plus(found, i, -1) BY <1>1, <1>8, <1>9, <2>1, ReleaseSubtracts
    <3>2. found = Plus(info, i, 1) BY <1>4 DEF Plus
    <3>3. Plus(Plus(info, i, 1), i, -1) = Plus(info, i, 1 + (-1)) BY <1>1, PlusPlus
    <3>4. Plus(info, i, 1 + (-1)) = info
      <4>1. Plus(info, i, 0) = info BY <1>1, PlusNothing
      <4>2. 1 + (-1) = 0 OBVIOUS
      <4> QED BY <4>1, <4>2
    <3> QED BY <3>1, <3>2, <3>3, <3>4
  <2> QED BY <1>1, <1>10, <1>11, <2>2, <2>3, <2>4 DEF i, found, unused
<1>12. CASE unused
  <2>1. k = 1 BY <1>3, <1>12
  <2>2. vfs_unmount_partition(info, p, 2) = gone
    <3> DEFINE x == [info EXCEPT ![i].destroyed = TRUE]
    <3>1. rc_destroy_if_less(info, i, 2) = x
      BY <2>1 DEF rc_destroy_if_less
    <3>2. x[i] = [info[i] EXCEPT !.destroyed = TRUE] BY <1>1
    <3>3. x[i].destroyed /\ x[i].count = k BY <1>5, <3>2 DEF Info
    <3>4. x # info BY <1>2, <3>3
    <3>5. vfs_unmount_partition(info, p, 2) = Release(x, i)
      BY <3>1, <3>4 DEF vfs_unmount_partition, i
    <3>6. Release(x, i) = [x EXCEPT ![i] = NoInfo] BY <2>1, <3>3 DEF Release
    <3>7. [x EXCEPT ![i] = NoInfo] = gone BY <1>1
    <3> QED BY <3>5, <3>6, <3>7
  <2>3. /\ vfs_unmount_partition(found, p, 3) # found
        /\ Release(vfs_unmount_partition(found, p, 3), i) = gone
    <3> DEFINE x == [found EXCEPT ![i].destroyed = TRUE]
               y == [x EXCEPT ![i].count = @ - 1]
    <3>1. rc_destroy_if_less(found, i, 3) = x
      BY <1>8, <2>1 DEF rc_destroy_if_less
    <3>2. x[i] = [found[i] EXCEPT !.destroyed = TRUE] BY <1>1, <1>9
    <3>a. found[i].count = 2 BY <1>8, <2>1
    <3>3. x[i].destroyed /\ x[i].count = 2 /\ x[i] \in Info BY <1>8, <3>2, <3>a DEF Info
    <3>4. x # found BY <1>8, <3>3
    <3>5. vfs_unmount_partition(found, p, 3) = Release(x, i)
      BY <3>1, <3>4 DEF vfs_unmount_partition, i
    <3>6. Release(x, i) = y BY <3>3 DEF Release
    <3>7. /\ x \in [Infos -> Info] /\ \A j \in Infos \ {i} : x[j] = info[j]
      BY <1>1, <1>9, <3>2, <3>3
    <3> HIDE DEF x
    <3>8. y[i] = [x[i] EXCEPT !.count = x[i].count - 1] BY <1>1, <3>7
    <3>9. y[i].count = 1 /\ y[i].destroyed BY <3>3, <3>8 DEF Info
    <3>10. y # found BY <1>8, <3>9
    <3>11. Release(y, i) = [y EXCEPT ![i] = NoInfo] BY <3>9 DEF Release
    <3>12. [y EXCEPT ![i] = NoInfo] = gone BY <1>1, <3>7
    <3> QED BY <3>5, <3>6, <3>10, <3>11, <3>12
  <2> QED BY <1>1, <1>10, <1>12, <2>2, <2>3 DEF i, found, unused
<1> QED BY <1>11, <1>12

\* A volume that nothing refers to leaves the table, and its object is gone.
LEMMA GoneMatches ==
  ASSUME VfsInv, NEW p \in Partitions, NEW i \in Infos, mountpoints[p] = i,
         i \notin {root, current_dir}, lost_refs[i] = 0,
         info' = [info EXCEPT ![i] = NoInfo], mountpoints' = [mountpoints EXCEPT ![p] = NULL],
         UNCHANGED <<root, current_dir, lost_refs>>
  PROVE  VfsInv'
<1>1. /\ info \in [Infos -> Info] /\ mountpoints \in [Partitions -> Infos \union {NULL}]
      /\ i # NULL
  BY TypesOfVfs, VfsAssumption
<1>2. NoInfo \in Info BY DEF NoInfo, Info
<1>3. /\ info' \in [Infos -> Info] /\ info'[i] = NoInfo
      /\ \A j \in Infos \ {i} : info'[j] = info[j]
  BY <1>1, <1>2
<1>4. \A q \in Partitions : mountpoints'[q] = IF q = p THEN NULL ELSE mountpoints[q]
  BY <1>1
<1>5. \A q \in Partitions : mountpoints[q] = i => q = p BY <1>1 DEF VfsInv, MountedOnce
<1>6. Mounted' = Mounted \ {i}
  <2>1. ASSUME NEW x \in Mounted' PROVE x \in Mounted \ {i}
    <3>1. x # NULL /\ \E q \in Partitions : mountpoints'[q] = x BY <2>1 DEF Mounted
    <3>2. PICK q \in Partitions : mountpoints'[q] = x BY <3>1
    <3>3. q # p /\ mountpoints[q] = x BY <1>4, <3>1, <3>2
    <3> QED BY <1>5, <3>1, <3>3 DEF Mounted
  <2>2. ASSUME NEW x \in Mounted \ {i} PROVE x \in Mounted'
    <3>1. x # NULL /\ x # i /\ \E q \in Partitions : mountpoints[q] = x BY <2>2 DEF Mounted
    <3>2. PICK q \in Partitions : mountpoints[q] = x BY <3>1
    <3>3. mountpoints'[q] = x BY <1>4, <3>1, <3>2
    <3> QED BY <3>1, <3>3 DEF Mounted
  <2> QED BY <2>1, <2>2
<1>7. mountpoints' \in [Partitions -> Infos \union {NULL}] BY <1>1
<1>8. MountedOnce'
  <2> SUFFICES ASSUME NEW a \in Partitions, NEW b \in Partitions,
                      mountpoints'[a] = mountpoints'[b], mountpoints'[a] # NULL
               PROVE  a = b
    BY DEF MountedOnce
  <2>1. mountpoints[a] = mountpoints[b] /\ mountpoints[a] # NULL BY <1>4
  <2> QED BY <2>1 DEF VfsInv, MountedOnce
<1>9. {root, current_dir} \subseteq Mounted' \union {NULL}
  BY <1>6 DEF VfsInv, VolumesHeld
<1>10. ASSUME NEW j \in Infos
       PROVE  /\ info'[j].used <=> j \in Mounted'
              /\ ~ info'[j].destroyed
              /\ info'[j].count = One(j \in Mounted') + One(root = j) + One(current_dir = j)
                                    + lost_refs[j]
  <2>1. /\ info[j].count = One(j \in Mounted) + One(root = j) + One(current_dir = j) + lost_refs[j]
        /\ (info[j].used <=> j \in Mounted) /\ ~ info[j].destroyed
    BY CountIs
  <2>2. CASE j = i
    <3>1. One(j \in Mounted') = 0 /\ One(root = j) = 0 /\ One(current_dir = j) = 0
      BY <1>6, <2>2 DEF One
    <3> QED BY <1>3, <1>6, <2>2, <3>1 DEF NoInfo
  <2>3. CASE j # i
    <3>1. j \in Mounted' <=> j \in Mounted BY <1>6, <2>3
    <3> QED BY <1>3, <2>1, <2>3, <3>1
  <2> QED BY <2>2, <2>3
<1> QED BY <1>3, <1>7, <1>8, <1>9, <1>10, Remounted

LEMMA SameMatches ==
  ASSUME VfsInv, UNCHANGED vfsVars
  PROVE  VfsInv'
<1> USE DEF vfsVars
<1>1. VfsTypes' BY DEF VfsInv, VfsTypes
<1>2. MountedOnce' BY DEF VfsInv, MountedOnce
<1>3. DirsTogether' BY DEF VfsInv, DirsTogether
<1>4. VolumesHeld' BY DEF VfsInv, VolumesHeld, Mounted, Holders
<1> QED BY <1>1, <1>2, <1>3, <1>4 DEF VfsInv

LEMMA UnmountMatches ==
  ASSUME VfsInv, NEW p \in Partitions, Unmount(p)
  PROVE  VfsInv'
<1> DEFINE i == mountpoints[p]
           unused == i \notin {root, current_dir} /\ lost_refs[i] = 0
           gone == [info EXCEPT ![i] = NoInfo]
<1>1. /\ i # NULL /\ info' = vfs_unmount_partition(info, p, 2)
      /\ mountpoints' = IF info' = info THEN mountpoints ELSE [mountpoints EXCEPT ![p] = NULL]
      /\ UNCHANGED <<root, current_dir, lost_refs>>
  BY DEF Unmount
<1>2. /\ i \in Infos /\ gone # info
      /\ ~ unused => vfs_unmount_partition(info, p, 2) = info
      /\ unused => vfs_unmount_partition(info, p, 2) = gone
  BY <1>1, UnmountIs
<1> HIDE DEF gone, unused
<1>3. CASE ~ unused
  <2>1. UNCHANGED vfsVars BY <1>1, <1>2, <1>3 DEF vfsVars
  <2> QED BY <2>1, SameMatches
<1>4. CASE unused
  <2>1. info' = gone /\ mountpoints' = [mountpoints EXCEPT ![p] = NULL] BY <1>1, <1>2, <1>4
  <2> QED BY <1>1, <1>2, <1>4, <2>1, GoneMatches DEF gone, unused
<1> QED BY <1>3, <1>4

LEMMA UnmountByNameMatches ==
  ASSUME VfsInv, NEW p \in Partitions, UnmountByName(p)
  PROVE  VfsInv'
<1> DEFINE i == mountpoints[p]
           unused == i \notin {root, current_dir} /\ lost_refs[i] = 0
           gone == [info EXCEPT ![i] = NoInfo]
           found == Take(info, i)
           after == vfs_unmount_partition(found, p, 3)
<1>1. /\ i # NULL /\ info' = Release(after, i)
      /\ mountpoints' = IF after = found THEN mountpoints ELSE [mountpoints EXCEPT ![p] = NULL]
      /\ UNCHANGED <<root, current_dir, lost_refs>>
  BY DEF UnmountByName
<1>2. /\ i \in Infos
      /\ ~ unused => after = found /\ Release(found, i) = info
      /\ unused => after # found /\ Release(after, i) = gone
  BY <1>1, UnmountIs
<1> HIDE DEF gone, unused, found, after
<1>3. CASE ~ unused
  <2>1. UNCHANGED vfsVars BY <1>1, <1>2, <1>3 DEF vfsVars
  <2> QED BY <2>1, SameMatches
<1>4. CASE unused
  <2>1. info' = gone /\ mountpoints' = [mountpoints EXCEPT ![p] = NULL] BY <1>1, <1>2, <1>4
  <2> QED BY <1>1, <1>2, <1>4, <2>1, GoneMatches DEF gone, unused
<1> QED BY <1>3, <1>4

LEMMA VfsStarts == VfsInit => VfsInv
<1> SUFFICES ASSUME VfsInit PROVE VfsInv OBVIOUS
<1>1. /\ lost_refs = [i \in Infos |-> 0] /\ lost_refs \in [Infos -> Nat]
      /\ NULL \notin Infos /\ BOOT \in Partitions
  BY VfsAssumption DEF VfsInit
<1>2. NoInfo \in Info /\ [count |-> 3, destroyed |-> FALSE, used |-> TRUE] \in Info
  BY DEF NoInfo, Info
<1>3. CASE Diskless
  <2>1. VfsTypes BY <1>1, <1>2, <1>3 DEF Diskless, VfsTypes
  <2>2. MountedOnce /\ DirsTogether BY <1>3 DEF Diskless, MountedOnce, DirsTogether
  <2>3. Mounted = {} BY <1>3 DEF Diskless, Mounted
  <2>4. ASSUME NEW i \in Infos
        PROVE  /\ info[i].count = Holders(i) + lost_refs[i]
               /\ (info[i].used <=> i \in Mounted) /\ ~ info[i].destroyed
    <3>1. Holders(i) = One(i \in Mounted) + One(root = i) + One(current_dir = i)
      BY <2>2, HoldersAre
    <3>2. Holders(i) = 0 BY <1>1, <1>3, <2>3, <3>1 DEF Diskless, One
    <3>3. info[i] = NoInfo /\ lost_refs[i] = 0 BY <1>1, <1>3 DEF Diskless
    <3> QED BY <2>3, <3>2, <3>3 DEF NoInfo
  <2>5. VolumesHeld BY <1>3, <2>4 DEF Diskless, VolumesHeld
  <2> QED BY <2>1, <2>2, <2>5 DEF VfsInv
<1>4. ASSUME NEW b \in Infos, Booted(b) PROVE VfsInv
  <2>1. VfsTypes BY <1>1, <1>2, <1>4 DEF Booted, VfsTypes
  <2>2. MountedOnce /\ DirsTogether BY <1>4 DEF Booted, MountedOnce, DirsTogether
  <2>3. Mounted = {b} BY <1>1, <1>4 DEF Booted, Mounted
  <2>4. ASSUME NEW i \in Infos
        PROVE  /\ info[i].count = Holders(i) + lost_refs[i]
               /\ (info[i].used <=> i \in Mounted) /\ ~ info[i].destroyed
    <3>1. Holders(i) = One(i \in Mounted) + One(root = i) + One(current_dir = i)
      BY <2>2, HoldersAre
    <3>2. root = b /\ current_dir = b /\ lost_refs[i] = 0 BY <1>1, <1>4 DEF Booted
    <3>3. CASE i = b
      <4>1. info[i] = [count |-> 3, destroyed |-> FALSE, used |-> TRUE] BY <1>4, <3>3 DEF Booted
      <4> QED BY <2>3, <3>1, <3>2, <3>3, <4>1 DEF One
    <3>4. CASE i # b
      <4>1. info[i] = NoInfo BY <1>4, <3>4 DEF Booted
      <4> QED BY <2>3, <3>1, <3>2, <3>4, <4>1 DEF One, NoInfo
    <3> QED BY <3>3, <3>4
  <2>5. {root, current_dir} \subseteq Mounted \union {NULL} BY <1>4, <2>3 DEF Booted
  <2>6. VolumesHeld BY <2>4, <2>5 DEF VolumesHeld
  <2> QED BY <2>1, <2>2, <2>6 DEF VfsInv
<1> QED BY <1>3, <1>4 DEF VfsInit

\* The unmounts refuse exactly what is in use.
LEMMA UnmountsTheUnusedFollows == VfsInv => UnmountsTheUnused
<1> SUFFICES ASSUME VfsInv PROVE UnmountsTheUnused OBVIOUS
<1> SUFFICES ASSUME NEW p \in Partitions, mountpoints[p] # NULL
             PROVE  LET i == mountpoints[p]
                        unused == i \notin {root, current_dir} /\ lost_refs[i] = 0
                        found == Take(info, i)
                    IN  /\ unused <=> vfs_unmount_partition(info, p, 2) # info
                        /\ unused <=> vfs_unmount_partition(found, p, 3) # found
  BY DEF UnmountsTheUnused
<1> DEFINE i == mountpoints[p]
           unused == i \notin {root, current_dir} /\ lost_refs[i] = 0
           found == Take(info, i)
           gone == [info EXCEPT ![i] = NoInfo]
<1>1. /\ gone # info
      /\ ~ unused => /\ vfs_unmount_partition(info, p, 2) = info
                     /\ vfs_unmount_partition(found, p, 3) = found
      /\ unused => /\ vfs_unmount_partition(info, p, 2) = gone
                   /\ vfs_unmount_partition(found, p, 3) # found
  BY UnmountIs
<1> HIDE DEF unused, found, gone
<1>2. /\ unused <=> vfs_unmount_partition(info, p, 2) # info
      /\ unused <=> vfs_unmount_partition(found, p, 3) # found
  BY <1>1, Zenon
<1> QED BY <1>2 DEF unused, found

(***************************************************************************)
(* Whatever the commands and however many references they lose: a volume's *)
(* count is that of its holders and the lost ones, the terminal stands in  *)
(* mounted volumes only, and umount ends exactly those that nothing uses   *)
(* (fs/vfs.c:146, lib/refcount.h:94).                                      *)
(***************************************************************************)
THEOREM VolumesStaySound == VfsSpec => []VolumesSound
<1>1. VfsInit => VfsInv BY VfsStarts
<1>2. VfsInv /\ [VfsNext]_vfsVars => VfsInv'
  <2> SUFFICES ASSUME VfsInv, [VfsNext]_vfsVars PROVE VfsInv' OBVIOUS
  <2>1. CASE UNCHANGED vfsVars BY <2>1, SameMatches
  <2>2. ASSUME NEW s \in Searches, List(s) \/ ViewFile(s) \/ Write(s) \/ Exec(s)
        PROVE  VfsInv'
    BY <2>2, FileCommandsMatch
  <2>3. ASSUME NEW s \in Searches, ChangeDir(s) PROVE VfsInv' BY <2>3, ChangeDirMatches
  <2>4. ASSUME NEW s \in Searches, ChangeRoot(s) PROVE VfsInv' BY <2>4, ChangeRootMatches
  <2>5. CASE ChangeDirHome BY <2>5, HomeMatches
  <2>6. CASE FsLeave BY <2>6, LeaveMatches
  <2>7. ASSUME NEW p \in Partitions, NEW i \in Infos, Mount(p, i) PROVE VfsInv'
    BY <2>7, MountMatches
  <2>8. ASSUME NEW p \in Partitions, Unmount(p) PROVE VfsInv' BY <2>8, UnmountMatches
  <2>9. ASSUME NEW p \in Partitions, UnmountByName(p) PROVE VfsInv'
    BY <2>9, UnmountByNameMatches
  <2> QED BY <2>1, <2>2, <2>3, <2>4, <2>5, <2>6, <2>7, <2>8, <2>9 DEF VfsNext
<1>3. VfsInv => VolumesSound BY UnmountsTheUnusedFollows DEF VfsInv, VolumesSound
<1> QED BY <1>1, <1>2, <1>3, PTL DEF VfsSpec

---------------------------------------------------------------------------
(* The console: rows, what is kept of the text, and where the window is.   *)

Row(n) == n * konsole_w
Cells == Glyphs \union {BLANK, ERASED}
Consoles == [cells : Seq(Cells), start : Int, x : Int, y : Int, bad : BOOLEAN]

\* The rows that lie above a window at the bottom.
Above(c, row) == row - c.y

\* The cells are those of the paper q.
Copied(cells, q) ==
  /\ q \in [1 .. MaxCells -> Cells]
  /\ \A i \in 1 .. MaxCells : q[i] = IF i <= Len(cells) THEN cells[i] ELSE BLANK

\* The cursor, which may have left the window downwards, is the pen.  Before the
\* last row of the window is reached, nothing lies above it.
Written(c, q, row, col) ==
  /\ c \in Consoles /\ c.x \in 0 .. konsole_w - 1 /\ c.y \in 0 .. konsole_h
  /\ row \in Nat /\ col = c.x
  /\ Above(c, row) \in Nat /\ (Above(c, row) > 0 => c.y >= konsole_h - 1)
  /\ Len(c.cells) = Row(Above(c, row)) + Row(konsole_h)
  /\ Copied(c.cells, q)

Faithful(c, q, row, col) == Written(c, q, row, col) /\ c.y < konsole_h

\* The window starts at row s, which is below the last row it may start at only
\* before the redraw that finds this out.
Sighted(c, row, s, where, read) ==
  /\ s \in 0 .. Above(c, row) + 1 /\ c.start = Row(s)
  /\ s = Above(c, row) + 1 => where = "redraw" /\ Above(c, row) > 0
  /\ where \in {"no", "up", "down", "redraw"}
  /\ where = "up" => \E k \in 1 .. s : read = Row(k)
  /\ where = "down" => \E k \in 0 .. Above(c, row) - 1 : read = Row(k)

ConsoleInv ==
  ~ asserted =>
    /\ pen = <<pen[1], pen[2]>> /\ Faithful(Now, paper, pen[1], pen[2])
    /\ \E s \in 0 .. Above(Now, pen[1]) + 1 : Sighted(Now, pen[1], s, scrolling, seen)

LEMMA Sheet ==
  /\ konsole_w \in Nat \ {0} /\ konsole_h \in Nat \ {0} /\ MaxCells \in Nat
  /\ window = Row(konsole_h) /\ Row(konsole_h) \in Nat /\ Row(0) = 0 /\ Row(1) = konsole_w
<1>1. konsole_w \in Nat \ {0} /\ konsole_h \in Nat \ {0} /\ MaxCells \in Nat
  BY ConsoleAssumption
<1>2. window = Row(konsole_h) /\ Row(konsole_h) \in Nat BY <1>1, SMT DEF window, Row
<1> QED BY <1>1, <1>2 DEF Row

LEMMA RowInt ==
  ASSUME NEW m \in Int
  PROVE  Row(m) \in Int /\ (m >= 0 => Row(m) >= 0)
BY Sheet, SMT DEF Row

LEMMA RowNext ==
  ASSUME NEW m \in Int
  PROVE  Row(m + 1) = Row(m) + konsole_w /\ Row(m - 1) = Row(m) - konsole_w
BY Sheet, SMT DEF Row

LEMMA RowsCounted ==
  ASSUME NEW m \in Nat
  PROVE  Row(m) \div konsole_w = m
BY Sheet, SMT DEF Row

LEMMA RowPlus ==
  ASSUME NEW m \in Int, NEW n \in Int
  PROVE  /\ Row(m + n) = Row(m) + Row(n) /\ Row(m - n) = Row(m) - Row(n)
         /\ Row(m) \in Int /\ Row(n) \in Int
BY Sheet, SMT DEF Row

LEMMA RowOrder ==
  ASSUME NEW m \in Int, NEW n \in Int
  PROVE  /\ m < n => Row(m) + konsole_w <= Row(n)
         /\ Row(m) \in Int /\ Row(n) \in Int /\ (m <= n) = (Row(m) <= Row(n))
<1>1. /\ konsole_w \in Nat \ {0} /\ Row(m) \in Int /\ Row(n) \in Int
      /\ Row(n) = Row(m) + Row(n - m) /\ Row(m) = Row(n) + Row(m - n)
  <2>1. Row(n - m) = Row(n) - Row(m) /\ Row(m - n) = Row(m) - Row(n) BY RowPlus
  <2>2. Row(m) \in Int /\ Row(n) \in Int BY RowInt
  <2> QED BY <2>1, <2>2, Sheet
<1>2. ASSUME NEW k \in Int, k > 0 PROVE Row(k) >= konsole_w
  <2>1. k - 1 \in Int /\ k - 1 >= 0 BY <1>2
  <2>2. Row(k - 1) >= 0 /\ Row(k - 1) = Row(k) - konsole_w /\ Row(k) \in Int BY <2>1, RowInt, RowNext
  <2> QED BY <1>1, <2>2
<1>3. m < n => Row(n - m) >= konsole_w BY <1>2
<1>4. n < m => Row(m - n) >= konsole_w BY <1>2
<1>5. Row(n - m) \in Int /\ Row(m - n) \in Int BY RowInt
<1>6. CASE m < n BY <1>1, <1>3, <1>5, <1>6
<1>7. CASE m = n BY <1>1, <1>7
<1>8. CASE n < m BY <1>1, <1>4, <1>5, <1>8
<1> QED BY <1>6, <1>7, <1>8

\* An empty row behind the history, which an assertion has not stopped.
LEMMA RowAdded ==
  ASSUME NEW cells \in Seq(Cells)
  PROVE  LET all == cells \o EmptyRow
         IN  /\ all \in Seq(Cells) /\ Len(all) = Len(cells) + konsole_w
             /\ \A i \in 1 .. Len(cells) : all[i] = cells[i]
             /\ \A i \in Len(cells) + 1 .. Len(cells) + konsole_w : all[i] = BLANK
<1>1. konsole_w \in Nat BY Sheet
<1>2. EmptyRow \in Seq(Cells) /\ Len(EmptyRow) = konsole_w /\ \A i \in 1 .. konsole_w : EmptyRow[i] = BLANK
  BY <1>1 DEF EmptyRow, Cells
<1> QED BY <1>1, <1>2

\* The window goes to the bottom, or is below it already.
LEMMA BottomKept ==
  ASSUME NEW c, NEW q, NEW row, NEW col, NEW s, NEW where, NEW read,
         Faithful(c, q, row, col), Sighted(c, row, s, where, read)
  PROVE  LET b == ToBottom(c)
         IN  /\ Faithful(b, q, row, col) /\ Above(b, row) = Above(c, row) /\ b.bad = c.bad
             /\ \E t \in Above(b, row) .. Above(b, row) + 1 : Sighted(b, row, t, where, read)
<1> DEFINE above == Above(c, row)
           b == ToBottom(c)
           moved == (Len(c.cells) - c.start - window) \div konsole_w
           rows == IF CanScrollDown(c) THEN moved ELSE 0
           t == IF s < above THEN above ELSE s
<1>1. /\ c \in Consoles /\ c.y \in Int /\ row \in Nat /\ above \in Nat /\ s \in 0 .. above + 1
      /\ Len(c.cells) = Row(above) + Row(konsole_h) /\ c.start = Row(s)
  BY DEF Faithful, Written, Sighted, Consoles
<1>2. b = [c EXCEPT !.start = @ + rows * konsole_w] BY DEF ToBottom
<1> HIDE DEF above, b, rows, moved, t
<1> USE Sheet
<1>a. Row(s) \in Int /\ Row(above) \in Int BY <1>1, RowInt
<1>b. t = IF s < above THEN above ELSE s BY DEF t
<1>3. CanScrollDown(c) = (s < above)
  <2>1. CanScrollDown(c) = (Row(s) + konsole_w <= Row(above))
    BY <1>1, <1>a DEF CanScrollDown
  <2>2. Row(s) + konsole_w = Row(s + 1) BY <1>1, RowNext
  <2>3. (s + 1 <= above) = (Row(s + 1) <= Row(above)) BY <1>1, RowOrder
  <2> QED BY <1>1, <2>1, <2>2, <2>3
<1>4. c.start + rows * konsole_w = Row(t) /\ rows * konsole_w \in Int
  <2>1. CASE s < above
    <3>1. above - s \in Nat BY <1>1, <2>1
    <3>2. Row(above - s) = Row(above) - Row(s) BY <1>1, RowPlus
    <3>3. Len(c.cells) - c.start - window = Row(above - s) BY <1>1, <1>a, <3>2
    <3>4. Row(above - s) \div konsole_w = above - s BY <3>1, RowsCounted
    <3>5. rows = above - s BY <1>3, <2>1, <3>3, <3>4 DEF rows, moved
    <3>6. rows * konsole_w = Row(above - s) BY <3>5 DEF Row
    <3> QED BY <1>1, <1>a, <1>b, <2>1, <3>2, <3>6
  <2>2. CASE ~ (s < above)
    <3>1. rows = 0 BY <1>3, <2>2 DEF rows
    <3>2. rows * konsole_w = 0 BY <3>1
    <3> QED BY <1>1, <1>a, <1>b, <2>2, <3>2
  <2> QED BY <2>1, <2>2
<1>5. Row(t) \in Int BY <1>1, <1>a, <1>b
<1>6. /\ b \in Consoles /\ b.cells = c.cells /\ b.x = c.x /\ b.y = c.y /\ b.bad = c.bad
      /\ b.start = Row(t)
  BY <1>1, <1>2, <1>4, <1>5 DEF Consoles
<1>7. Above(b, row) = above BY <1>6 DEF Above, above
<1>8. Faithful(b, q, row, col) BY <1>6, <1>7 DEF Faithful, Written, above
<1>9. t \in above .. above + 1 BY <1>1, <1>b
<1>10. Sighted(b, row, t, where, read)
  <2>1. /\ t = above + 1 => where = "redraw" /\ above > 0
        /\ where \in {"no", "up", "down", "redraw"}
        /\ where = "up" => \E k \in 1 .. s : read = Row(k)
        /\ where = "down" => \E k \in 0 .. above - 1 : read = Row(k)
    BY <1>1, <1>b DEF Sighted, above
  <2>2. where = "up" => \E k \in 1 .. t : read = Row(k) BY <1>1, <1>b, <2>1
  <2> QED BY <1>1, <1>6, <1>7, <1>9, <2>1, <2>2 DEF Sighted
<1> QED BY <1>6, <1>7, <1>8, <1>9, <1>10 DEF above, b

\* A cursor below the window: the history and the window grow by a row.
LEMMA ScrolledKept ==
  ASSUME NEW c, NEW q, NEW row, NEW col, NEW t \in Above(c, row) .. Above(c, row) + 1, NEW where, NEW read,
         Written(c, q, row, col), Sighted(c, row, t, where, read), ~ c.bad
  PROVE  LET e == ScrolledIfBelow(c)
         IN  ~ e.bad => Faithful(e, q, row, col) /\ \E s \in 0 .. Above(e, row) + 1 : Sighted(e, row, s, where, read)
<1> DEFINE above == Above(c, row)
           e == ScrolledIfBelow(c)
<1>1. /\ c \in Consoles /\ c.x \in 0 .. konsole_w - 1 /\ c.y \in 0 .. konsole_h /\ c.bad = FALSE
      /\ row \in Nat /\ col = c.x /\ above = row - c.y
      /\ above \in Nat /\ t \in above .. above + 1 /\ konsole_h \in Nat \ {0}
      /\ Len(c.cells) = Row(above) + Row(konsole_h) /\ c.start = Row(t) /\ Copied(c.cells, q)
  BY Sheet DEF Written, Sighted, Consoles, Above
<1> HIDE DEF above
<1> USE Sheet
<1>2. CASE c.y < konsole_h
  <2>1. e = c BY <1>1, <1>2 DEF ScrolledIfBelow
  <2>2. Faithful(c, q, row, col) BY <1>2 DEF Faithful
  <2>3. t \in 0 .. above + 1 BY <1>1
  <2> QED BY <2>1, <2>2, <2>3 DEF above
<1>3. CASE ~ (c.y < konsole_h)
  <2> DEFINE all == c.cells \o EmptyRow
             f == [c EXCEPT !.cells = all, !.start = Row(t + 1), !.y = konsole_h - 1]
  <2>1. c.y = konsole_h BY <1>1, <1>3
  <2>2. c.cells \in Seq(Cells) BY <1>1 DEF Consoles
  <2>3. /\ all \in Seq(Cells) /\ Len(all) = Len(c.cells) + konsole_w
        /\ \A i \in 1 .. Len(c.cells) : all[i] = c.cells[i]
        /\ \A i \in Len(c.cells) + 1 .. Len(c.cells) + konsole_w : all[i] = BLANK
    BY <2>2, RowAdded
  <2>4. Row(t + 1) = c.start + konsole_w /\ Row(t + 1) \in Int /\ t \in Int /\ above \in Int
    <3>1. t \in Int /\ t + 1 \in Int /\ above \in Int BY <1>1
    <3>2. Row(t + 1) = Row(t) + konsole_w BY <3>1, RowNext
    <3>3. Row(t + 1) \in Int BY <3>1, RowInt
    <3> QED BY <1>1, <3>1, <3>2, <3>3
  <2>5. e = Redrawn(f)
    <3>1. e = Redrawn([c EXCEPT !.cells = all, !.start = c.start + konsole_w, !.y = konsole_h - 1])
      BY <2>1 DEF ScrolledIfBelow, konsole_scroll_down
    <3> QED BY <2>4, <3>1
  <2> HIDE DEF all
  <2>6. /\ f \in Consoles /\ f.cells = all /\ f.start = Row(t + 1) /\ f.x = c.x /\ f.y = konsole_h - 1
        /\ f.bad = FALSE
    <3>1. /\ c \in Consoles /\ c.bad = FALSE /\ all \in Seq(Cells) /\ Row(t + 1) \in Int
          /\ konsole_h - 1 \in Int
      BY <1>1, <2>3, <2>4
    <3> QED BY ONLY <3>1 DEF Consoles
  <2> HIDE DEF f, e
  <2>a. Row(above + 1) = Row(above) + konsole_w /\ Row(above) \in Int BY <2>4, RowInt, RowNext
  <2>7. Len(all) = Row(above + 1) + Row(konsole_h)
    BY <1>1, <2>3, <2>a
  <2>8. SUFFICES ASSUME ~ e.bad
                 PROVE  Faithful(e, q, row, col) /\ \E s \in 0 .. Above(e, row) + 1 : Sighted(e, row, s, where, read)
    BY DEF e
  <2>9. e.bad = (Row(t + 1) + window > Len(all)) BY <2>5, <2>6 DEF Consoles, Redrawn
  <2>10. e = f BY <2>5, <2>6, <2>8, <2>9 DEF Consoles, Redrawn
  <2>11. t = above
    <3>1. ~ (Row(t + 1) + window > Len(all)) BY <2>8, <2>9
    <3>a. Row(t + 1) \in Int /\ Row(above + 1) \in Int BY <2>4, RowInt
    <3>2. Row(t + 1) <= Row(above + 1) BY <2>7, <3>1, <3>a
    <3>3. (t + 1 <= above + 1) = (Row(t + 1) <= Row(above + 1)) BY <2>4, RowOrder
    <3> QED BY <1>1, <2>4, <3>2, <3>3
  <2>12. Above(e, row) = above + 1 BY <1>1, <2>1, <2>6, <2>10 DEF Above
  <2>13. Copied(all, q)
    <3>1. ASSUME NEW i \in 1 .. MaxCells PROVE q[i] = IF i <= Len(all) THEN all[i] ELSE BLANK
      <4>1. q[i] = IF i <= Len(c.cells) THEN c.cells[i] ELSE BLANK BY <1>1 DEF Copied
      <4>2. Len(c.cells) \in Nat /\ konsole_w \in Nat BY <2>2
      <4>3. i \in Nat OBVIOUS
      <4> QED BY ONLY <2>3, <4>1, <4>2, <4>3
    <3> QED BY <1>1, <3>1 DEF Copied
  <2>14. Faithful(e, q, row, col)
    <3>1. /\ e \in Consoles /\ e.x \in 0 .. konsole_w - 1 /\ e.y = konsole_h - 1 /\ col = e.x
          /\ Len(e.cells) = Row(Above(e, row)) + Row(konsole_h) /\ Copied(e.cells, q)
      BY <1>1, <2>6, <2>7, <2>10, <2>12, <2>13
    <3>2. Above(e, row) \in Nat /\ row \in Nat BY <1>1, <2>12
    <3> QED BY <3>1, <3>2 DEF Faithful, Written
  <2>15. /\ where \in {"no", "up", "down", "redraw"}
         /\ where = "up" => \E k \in 1 .. t : read = Row(k)
         /\ where = "down" => \E k \in 0 .. above - 1 : read = Row(k)
    BY DEF Sighted, above
  <2>16. /\ where = "up" => \E k \in 1 .. t + 1 : read = Row(k)
         /\ where = "down" => \E k \in 0 .. above : read = Row(k)
    BY <1>1, <2>15
  <2>17. Sighted(e, row, t + 1, where, read)
    BY <1>1, <2>6, <2>10, <2>11, <2>12, <2>15, <2>16 DEF Sighted
  <2>18. t + 1 \in 0 .. Above(e, row) + 1 BY <1>1, <2>11, <2>12
  <2> QED BY <2>14, <2>17, <2>18
<1> QED BY <1>2, <1>3

\* A symbol goes to the cell of the paper that the pen is at, or past the end of
\* the history, where the assertion stops it.  j is a column.
LEMMA SetKept ==
  ASSUME NEW c, NEW q, NEW above \in Nat, NEW t \in above .. above + 1, NEW symbol \in Cells,
         NEW j \in 0 .. konsole_w - 1, NEW y \in 0 .. konsole_h - 1,
         c \in Consoles, ~ c.bad, c.x = j, c.y = y, c.start = Row(t),
         t = above + 1 => y = konsole_h - 1,
         Len(c.cells) = Row(above) + Row(konsole_h), Len(c.cells) <= MaxCells, Copied(c.cells, q)
  PROVE  LET e == konsole_set_value(c, symbol)
             i == Row(above + y) + j + 1
         IN  ~ e.bad => /\ e \in Consoles /\ Len(e.cells) = Len(c.cells)
                        /\ e.x = c.x /\ e.y = c.y /\ e.start = c.start
                        /\ Copied(e.cells, [q EXCEPT ![i] = symbol])
<1> USE Sheet
<1> DEFINE i == Row(above + y) + j + 1
           spot == c.start + c.y * konsole_w + c.x + 1
           e == konsole_set_value(c, symbol)
<1>1. /\ y \in Nat /\ y < konsole_h /\ y \in Int /\ above \in Int /\ t \in Int /\ konsole_h \in Int
      /\ j \in Nat /\ j < konsole_w /\ Len(c.cells) \in Nat /\ c.cells \in Seq(Cells) /\ c.bad = FALSE
  BY DEF Consoles
<1>2. spot = Row(t) + Row(y) + j + 1 BY DEF Row
<1>3. /\ Row(t) \in Int /\ Row(above) \in Int /\ Row(y) \in Int /\ Row(y) >= 0 /\ Row(above) >= 0
      /\ Row(above + 1) = Row(above) + konsole_w /\ Row(konsole_h - 1) = Row(konsole_h) - konsole_w
  <2>1. Row(t) \in Int BY <1>1, RowInt
  <2>2. Row(above) \in Int /\ Row(above) >= 0 /\ Row(above + 1) = Row(above) + konsole_w
    BY <1>1, RowInt, RowNext
  <2>3. Row(y) \in Int /\ Row(y) >= 0 BY ONLY <1>1, RowInt
  <2>4. Row(konsole_h - 1) = Row(konsole_h) - konsole_w BY <1>1, RowNext
  <2> QED BY <2>1, <2>2, <2>3, <2>4
<1>4. Row(above + y) = Row(above) + Row(y) BY <1>1, RowPlus
<1>5. Row(y) + konsole_w <= Row(konsole_h) BY <1>1, RowOrder
<1>6. i \in 1 .. Len(c.cells)
  <2>1. i = Row(above) + Row(y) + j + 1 BY <1>4
  <2>2. Len(c.cells) = Row(above) + Row(konsole_h) /\ Row(konsole_h) \in Int OBVIOUS
  <2> HIDE DEF i
  <2>3. /\ Row(above) \in Int /\ Row(above) >= 0 /\ Row(y) \in Int /\ Row(y) >= 0 /\ j \in Nat
        /\ Row(y) + konsole_w <= Row(konsole_h) /\ j < konsole_w /\ konsole_w \in Int
    BY <1>1, <1>3, <1>5
  <2>4. i \in Int /\ i >= 1 /\ i <= Len(c.cells) BY ONLY <2>1, <2>2, <2>3
  <2> QED BY <1>1, <2>4
<1>7. CASE t = above + 1
  <2>1. Row(t) = Row(above) + konsole_w /\ Row(y) = Row(konsole_h) - konsole_w BY <1>3, <1>7
  <2>a. Len(c.cells) = Row(above) + Row(konsole_h) /\ Row(konsole_h) \in Int OBVIOUS
  <2> HIDE DEF spot, e
  <2>b. Row(above) \in Int /\ j \in Nat /\ konsole_w \in Int BY <1>1, <1>3
  <2>2. ~ (spot <= Len(c.cells)) BY ONLY <1>2, <2>1, <2>a, <2>b
  <2>3. e = [c EXCEPT !.bad = TRUE] BY <2>2 DEF konsole_set_value, e, spot
  <2>4. e.bad BY <2>3 DEF Consoles
  <2> QED BY <2>4 DEF e
<1>8. CASE t = above
  <2> HIDE DEF i, spot, e
  <2>1. spot = i BY <1>1, <1>2, <1>3, <1>4, <1>8 DEF i
  <2>2. i \in Nat /\ i <= Len(c.cells) /\ i \in 1 .. MaxCells BY <1>1, <1>6
  <2>3. e = [c EXCEPT !.cells[i] = symbol] BY <2>1, <2>2 DEF konsole_set_value, e, spot
  <2> DEFINE cells == [c.cells EXCEPT ![i] = symbol]
  <2>4. cells \in Seq(Cells) /\ Len(cells) = Len(c.cells) BY <1>1, <1>6
  <2>5. \A k \in 1 .. Len(c.cells) : cells[k] = IF k = i THEN symbol ELSE c.cells[k] BY ONLY <1>1
  <2>6. e = [c EXCEPT !.cells = cells] BY <2>3 DEF Consoles
  <2> HIDE DEF cells
  <2>7. e \in Consoles /\ e.cells = cells /\ e.x = c.x /\ e.y = c.y /\ e.start = c.start
    BY <2>4, <2>6 DEF Consoles
  <2>8. Copied(cells, [q EXCEPT ![i] = symbol])
    <3> DEFINE new == [q EXCEPT ![i] = symbol]
    <3>1. q \in [1 .. MaxCells -> Cells] BY DEF Copied
    <3>2. /\ new \in [1 .. MaxCells -> Cells]
          /\ \A k \in 1 .. MaxCells : new[k] = IF k = i THEN symbol ELSE q[k]
      BY <2>2, <3>1
    <3> HIDE DEF new
    <3>3. ASSUME NEW k \in 1 .. MaxCells
          PROVE  new[k] = IF k <= Len(cells) THEN cells[k] ELSE BLANK
      <4>1. q[k] = IF k <= Len(c.cells) THEN c.cells[k] ELSE BLANK BY DEF Copied
      <4> QED BY <1>1, <2>2, <2>4, <2>5, <3>2, <4>1
    <3> QED BY <3>2, <3>3 DEF Copied, new
  <2> QED BY <2>4, <2>7, <2>8 DEF e, i
<1>9. t = above \/ t = above + 1 OBVIOUS
<1> QED BY <1>7, <1>8, <1>9

\* The cursor moves on or to the next line, behind a change of the cells that
\* keeps their number.
LEMMA MovedKept ==
  ASSUME NEW c, NEW q, NEW row, NEW col, NEW where, NEW read,
         NEW t \in Above(c, row) .. Above(c, row) + 1,
         Faithful(c, q, row, col), Sighted(c, row, t, where, read),
         NEW f \in Consoles, ~ f.bad, Len(f.cells) = Len(c.cells), f.start = c.start,
         f.x \in 0 .. konsole_w - 1, f.y \in {c.y, c.y + 1}, NEW new, Copied(f.cells, new)
  PROVE  LET g == ScrolledIfBelow(f)
             below == row + (f.y - c.y)
         IN  ~ g.bad => /\ Faithful(g, new, below, f.x)
                        /\ \E s \in 0 .. Above(g, below) + 1 : Sighted(g, below, s, where, read)
<1> USE Sheet
<1> DEFINE below == row + (f.y - c.y)
<1>1. /\ c.y \in 0 .. konsole_h - 1 /\ row \in Nat /\ Above(c, row) = row - c.y /\ Above(c, row) \in Nat
      /\ (Above(c, row) > 0 => c.y >= konsole_h - 1)
      /\ Len(c.cells) = Row(Above(c, row)) + Row(konsole_h)
  BY DEF Faithful, Written, Above
<1>a. c.y \in Int /\ c.y >= 0 /\ c.y <= konsole_h - 1 /\ row \in Int /\ row >= 0 /\ konsole_h \in Int
  BY <1>1
<1>b. f.y = c.y \/ f.y = c.y + 1 OBVIOUS
<1>2. below \in Nat /\ Above(f, below) = Above(c, row)
  <2>1. below \in Nat /\ below - f.y = row - c.y BY ONLY <1>a, <1>b
  <2> HIDE DEF below
  <2> QED BY <1>1, <2>1 DEF Above
<1> HIDE DEF below
<1>3. f.y \in 0 .. konsole_h /\ (Above(c, row) > 0 => f.y >= konsole_h - 1)
  BY ONLY <1>1, <1>a, <1>b
<1>4. Written(f, new, below, f.x) BY <1>1, <1>2, <1>3 DEF Written
<1>5. Sighted(f, below, t, where, read) BY <1>2 DEF Sighted
<1>6. t \in Above(f, below) .. Above(f, below) + 1 BY <1>2
<1> QED BY <1>4, <1>5, <1>6, ScrolledKept DEF below

\* Of t as in Sighted, with what is known of the console in view.
LEMMA KeptIs ==
  ASSUME NEW c, NEW q, NEW row, NEW col, NEW where, NEW read,
         NEW t \in Above(c, row) .. Above(c, row) + 1,
         Faithful(c, q, row, col), Sighted(c, row, t, where, read), ~ c.bad
  PROVE  /\ c \in Consoles /\ c.x \in 0 .. konsole_w - 1 /\ c.y \in 0 .. konsole_h - 1 /\ c.bad = FALSE
         /\ row \in Nat /\ col = c.x /\ row = Above(c, row) + c.y /\ Above(c, row) \in Nat
         /\ (t = Above(c, row) + 1 => c.y = konsole_h - 1)
         /\ Len(c.cells) = Row(Above(c, row)) + Row(konsole_h) /\ Copied(c.cells, q) /\ c.start = Row(t)
         /\ t \in 0 .. Above(c, row) + 1
<1>1. c \in Consoles /\ c.bad = FALSE BY DEF Faithful, Written, Consoles
<1>2. /\ c.x \in 0 .. konsole_w - 1 /\ c.y \in 0 .. konsole_h - 1 /\ row \in Nat /\ col = c.x
      /\ Above(c, row) \in Nat /\ (Above(c, row) > 0 => c.y >= konsole_h - 1)
      /\ Len(c.cells) = Row(Above(c, row)) + Row(konsole_h) /\ Copied(c.cells, q)
  BY Sheet DEF Faithful, Written
<1>3. row = Above(c, row) + c.y BY <1>2 DEF Above
<1>4. c.start = Row(t) /\ (t = Above(c, row) + 1 => Above(c, row) > 0) BY DEF Sighted
<1>5. t = Above(c, row) + 1 => c.y = konsole_h - 1 BY <1>2, <1>4, Sheet
<1>6. t \in 0 .. Above(c, row) + 1 BY <1>2
<1> QED BY <1>1, <1>2, <1>3, <1>4, <1>5, <1>6

LEMMA BackspaceKept ==
  ASSUME NEW c, NEW q, NEW row, NEW col, NEW where, NEW read,
         NEW t \in Above(c, row) .. Above(c, row) + 1,
         Faithful(c, q, row, col), Sighted(c, row, t, where, read), ~ c.bad, Len(c.cells) <= MaxCells,
         c.x > 0
  PROVE  LET e == konsole_set_value(Back(c), ERASED)
             new == [q EXCEPT ![row * konsole_w + col] = ERASED]
         IN  ~ e.bad => Faithful(e, new, row, col - 1) /\ Sighted(e, row, t, where, read)
<1> USE Sheet
<1> DEFINE above == Above(c, row)
           f == Back(c)
           e == konsole_set_value(f, ERASED)
           i == Row(above + f.y) + f.x + 1
           new == [q EXCEPT ![row * konsole_w + col] = ERASED]
<1>1. /\ c \in Consoles /\ c.x \in 0 .. konsole_w - 1 /\ c.y \in 0 .. konsole_h - 1 /\ c.bad = FALSE
      /\ row \in Nat /\ col = c.x /\ row = above + c.y /\ above \in Nat
      /\ (t = above + 1 => c.y = konsole_h - 1)
      /\ Len(c.cells) = Row(above) + Row(konsole_h) /\ Copied(c.cells, q) /\ c.start = Row(t)
  BY KeptIs
<1>2. /\ f \in Consoles /\ f.bad = FALSE /\ f.cells = c.cells /\ f.start = c.start /\ f.x = c.x - 1
      /\ f.y = c.y
  <2>1. c.x \in Int /\ c \in Consoles /\ c.bad = FALSE BY <1>1
  <2> QED BY ONLY <2>1 DEF Back, Consoles
<1>3. ERASED \in Cells BY DEF Cells
<1>4. above \in Nat /\ t \in above .. above + 1 BY <1>1
<1> HIDE DEF f, above
<1>5. f.x \in 0 .. konsole_w - 1 /\ f.y \in 0 .. konsole_h - 1 BY <1>1, <1>2
<1>6. ~ e.bad => /\ e \in Consoles /\ Len(e.cells) = Len(c.cells) /\ e.x = f.x /\ e.y = c.y
                 /\ e.start = c.start /\ Copied(e.cells, [q EXCEPT ![i] = ERASED])
  <2>1. /\ ~ f.bad /\ f.start = Row(t) /\ (t = above + 1 => f.y = konsole_h - 1)
        /\ Len(f.cells) = Row(above) + Row(konsole_h) /\ Len(f.cells) <= MaxCells /\ Copied(f.cells, q)
    BY <1>1, <1>2
  <2>2. f \in Consoles BY <1>2
  <2>3. ~ e.bad => /\ e \in Consoles /\ Len(e.cells) = Len(f.cells) /\ e.x = f.x /\ e.y = f.y
                   /\ e.start = f.start /\ Copied(e.cells, [q EXCEPT ![i] = ERASED])
    BY ONLY <1>3, <1>4, <1>5, <2>1, <2>2, SetKept
  <2> HIDE DEF e, i
  <2> QED BY ONLY <1>2, <2>3
<1>7. i = row * konsole_w + col
  <2>1. Row(above + f.y) = row * konsole_w BY <1>1, <1>2 DEF Row
  <2>2. row * konsole_w \in Int BY <1>1
  <2>3. f.x + 1 = col /\ f.x \in Int BY <1>1, <1>2, <1>5
  <2> QED BY <2>1, <2>2, <2>3
<1> HIDE DEF e, i, new
<1>8. SUFFICES ASSUME ~ e.bad PROVE Faithful(e, new, row, col - 1) /\ Sighted(e, row, t, where, read)
  BY DEF e, f, new
<1>9. Above(e, row) = above BY <1>6, <1>8 DEF Above, above
<1>10. Copied(e.cells, new) BY <1>6, <1>7, <1>8 DEF new
<1>11. Faithful(e, new, row, col - 1)
  <2>1. /\ e \in Consoles /\ e.x \in 0 .. konsole_w - 1 /\ e.y = c.y /\ col - 1 = e.x
        /\ Len(e.cells) = Row(above) + Row(konsole_h)
    BY <1>1, <1>2, <1>5, <1>6, <1>8
  <2>2. c.y \in 0 .. konsole_h /\ (above > 0 => c.y >= konsole_h - 1) /\ c.y < konsole_h
    BY DEF Faithful, Written, above
  <2> QED BY <1>1, <1>9, <1>10, <2>1, <2>2 DEF Faithful, Written
<1>12. Sighted(e, row, t, where, read) BY <1>6, <1>8, <1>9 DEF Sighted, above
<1> QED BY <1>11, <1>12

LEMMA SymbolKept ==
  ASSUME NEW c, NEW q, NEW row, NEW col, NEW where, NEW read,
         NEW t \in Above(c, row) .. Above(c, row) + 1,
         Faithful(c, q, row, col), Sighted(c, row, t, where, read), ~ c.bad, Len(c.cells) <= MaxCells,
         NEW ch \in Cells
  PROVE  LET e == Forward(konsole_set_value(c, ch))
             new == [q EXCEPT ![row * konsole_w + col + 1] = ch]
             below == IF col + 1 = konsole_w THEN row + 1 ELSE row
             next == IF col + 1 = konsole_w THEN 0 ELSE col + 1
         IN  ~ e.bad => /\ Faithful(e, new, below, next)
                        /\ \E s \in 0 .. Above(e, below) + 1 : Sighted(e, below, s, where, read)
<1> USE Sheet
<1> DEFINE above == Above(c, row)
           g == konsole_set_value(c, ch)
           x == (g.x + 1) % konsole_w
           y == g.y + (c.x + 1) \div konsole_w
           f == [g EXCEPT !.x = (@ + 1) % konsole_w, !.y = @ + (g.x + 1) \div konsole_w]
           e == Forward(g)
           i == Row(above + c.y) + c.x + 1
           new == [q EXCEPT ![row * konsole_w + col + 1] = ch]
           below == IF col + 1 = konsole_w THEN row + 1 ELSE row
           next == IF col + 1 = konsole_w THEN 0 ELSE col + 1
<1>1. /\ c \in Consoles /\ c.x \in 0 .. konsole_w - 1 /\ c.y \in 0 .. konsole_h - 1 /\ c.bad = FALSE
      /\ row \in Nat /\ col = c.x /\ row = above + c.y /\ above \in Nat
      /\ (t = above + 1 => c.y = konsole_h - 1)
      /\ Len(c.cells) = Row(above) + Row(konsole_h) /\ Copied(c.cells, q) /\ c.start = Row(t)
  BY KeptIs
<1>2. e = ScrolledIfBelow(f) BY DEF Forward
<1>3. above \in Nat /\ t \in above .. above + 1 BY <1>1
<1> HIDE DEF above
<1>4. ~ g.bad => /\ g \in Consoles /\ Len(g.cells) = Len(c.cells) /\ g.x = c.x /\ g.y = c.y
                 /\ g.start = c.start /\ Copied(g.cells, [q EXCEPT ![i] = ch])
  <2>1. ~ c.bad /\ Len(c.cells) <= MaxCells /\ ch \in Cells OBVIOUS
  <2> QED BY ONLY <1>1, <1>3, <2>1, SetKept
<1>5. i = row * konsole_w + col + 1
  <2>1. Row(above + c.y) = row * konsole_w BY <1>1 DEF Row
  <2> QED BY <1>1, <2>1
<1> HIDE DEF i
<1>6. CASE g.bad
  <2>1. g = [c EXCEPT !.bad = TRUE]
    <3>1. g = [c EXCEPT !.bad = TRUE] \/ \E k : g = [c EXCEPT !.cells[k] = ch]
      BY DEF konsole_set_value
    <3>2. \A k : [c EXCEPT !.cells[k] = ch].bad = c.bad BY <1>1 DEF Consoles
    <3> QED BY <1>1, <1>6, <3>1, <3>2
  <2>2. DOMAIN f = {"cells", "start", "x", "y", "bad"} /\ f = [k \in DOMAIN f |-> f[k]] /\ f.bad = TRUE
    BY <1>1, <2>1 DEF Consoles
  <2> HIDE DEF f
  <2>3. e.bad BY <1>2, <2>2 DEF ScrolledIfBelow, konsole_scroll_down, Redrawn
  <2> QED BY <2>3
<1>7. CASE ~ g.bad
  <2> HIDE DEF g, e
  <2>1. g.x + 1 \in 1 .. konsole_w /\ g \in Consoles /\ g.bad = FALSE /\ g.x = c.x /\ g.y = c.y
    BY <1>1, <1>4, <1>7 DEF Consoles
  <2> DEFINE over == IF g.x + 1 = konsole_w THEN 1 ELSE 0
  <2>2. /\ (g.x + 1) % konsole_w = next
        /\ (g.x + 1) \div konsole_w = over
    <3> DEFINE k == g.x + 1
    <3>1. k \in 1 .. konsole_w /\ konsole_w \in Nat \ {0} BY <2>1
    <3>2. next = IF k = konsole_w THEN 0 ELSE k BY <1>1, <2>1
    <3> HIDE DEF k, next
    <3>3. /\ k % konsole_w = IF k = konsole_w THEN 0 ELSE k
          /\ k \div konsole_w = IF k = konsole_w THEN 1 ELSE 0
      BY ONLY <3>1, SMT
    <3> QED BY <3>2, <3>3 DEF k
  <2>3. f = [g EXCEPT !.x = next, !.y = g.y + over]
    BY <2>2
  <2>4. next \in Int /\ over \in {0, 1} /\ g.y \in Int /\ next \in 0 .. konsole_w - 1
    <3>1. /\ c.x \in 0 .. konsole_w - 1 /\ col = c.x /\ konsole_w \in Nat /\ konsole_w > 0
      BY <1>1
    <3>2. g.y \in Int BY <2>1 DEF Consoles
    <3>3. next \in 0 .. konsole_w - 1 BY ONLY <3>1
    <3> QED BY ONLY <3>1, <3>2, <3>3
  <2> HIDE DEF f, next, over
  <2> DEFINE y1 == g.y + over
  <2>b. f = [g EXCEPT !.x = next, !.y = y1] /\ g \in Consoles /\ g.bad = FALSE /\ next \in Int /\ y1 \in Int
    BY <2>1, <2>3, <2>4
  <2>c. y1 = g.y + over OBVIOUS
  <2> HIDE DEF y1
  <2>d. /\ f \in Consoles /\ f.cells = g.cells /\ f.start = g.start /\ f.bad = FALSE
        /\ f.x = next /\ f.y = y1
    BY ONLY <2>b DEF Consoles
  <2>5. /\ f \in Consoles /\ f.cells = g.cells /\ f.start = g.start /\ f.bad = FALSE
        /\ f.x = next /\ f.y = g.y + over
    BY ONLY <2>c, <2>d
  <2>6. /\ f.y \in {c.y, c.y + 1} /\ ~ f.bad /\ Len(f.cells) = Len(c.cells) /\ f.start = c.start
        /\ Copied(f.cells, new)
    <3>1. Copied(g.cells, new) /\ Len(g.cells) = Len(c.cells) /\ g.start = c.start
      BY <1>4, <1>5, <1>7
    <3>2. f.y = c.y + over /\ c.y \in Int /\ over \in {0, 1} BY ONLY <1>1, <2>1, <2>4, <2>5
    <3>3. f.y \in {c.y, c.y + 1} BY ONLY <3>2
    <3> HIDE DEF new
    <3> QED BY ONLY <2>5, <3>1, <3>3
  <2>7. below = row + (f.y - c.y)
    <3>1. f.y - c.y = over BY <1>1, <2>1, <2>4, <2>5
    <3>2. below = row + over BY <1>1, <2>1 DEF over
    <3> QED BY <3>1, <3>2
  <2> HIDE DEF below, new
  <2>8. Above(c, row) = above BY DEF above
  <2>9. f \in Consoles /\ f.x \in 0 .. konsole_w - 1 /\ f.x = next BY <2>4, <2>5
  <2> DEFINE h == ScrolledIfBelow(f)
  <2>a. Faithful(c, q, row, col) /\ Sighted(c, row, t, where, read) /\ t \in Above(c, row) .. Above(c, row) + 1
    OBVIOUS
  <2>10. ~ h.bad => /\ Faithful(h, new, row + (f.y - c.y), f.x)
                    /\ \E s \in 0 .. Above(h, row + (f.y - c.y)) + 1 :
                          Sighted(h, row + (f.y - c.y), s, where, read)
    BY ONLY <2>a, <2>6, <2>9, MovedKept
  <2>11. h = e BY <1>2
  <2> HIDE DEF h
  <2>12. ~ e.bad => /\ Faithful(e, new, below, next)
                    /\ \E s \in 0 .. Above(e, below) + 1 : Sighted(e, below, s, where, read)
    BY ONLY <2>7, <2>9, <2>10, <2>11
  <2> QED BY <2>12 DEF e, g, new, below, next
<1> QED BY <1>6, <1>7

\* What is printed goes on the paper.
LEMMA NewlineKept ==
  ASSUME NEW c, NEW q, NEW row, NEW col, NEW where, NEW read,
         NEW t \in Above(c, row) .. Above(c, row) + 1,
         Faithful(c, q, row, col), Sighted(c, row, t, where, read), ~ c.bad
  PROVE  LET e == ScrolledIfBelow([c EXCEPT !.x = 0, !.y = @ + 1])
         IN  ~ e.bad => /\ Faithful(e, q, row + 1, 0)
                        /\ \E s \in 0 .. Above(e, row + 1) + 1 : Sighted(e, row + 1, s, where, read)
<1> USE Sheet
<1> DEFINE f == [c EXCEPT !.x = 0, !.y = @ + 1]
           g == ScrolledIfBelow(f)
<1>1. c \in Consoles /\ c.bad = FALSE /\ c.y \in Int /\ row \in Nat /\ Copied(c.cells, q)
  BY KeptIs DEF Consoles
<1> DEFINE x1 == 0
           y1 == c.y + 1
<1>2. f = [c EXCEPT !.x = x1, !.y = y1] /\ x1 \in Int /\ y1 \in Int /\ x1 = 0 BY <1>1
<1> HIDE DEF f, x1, y1
<1>3. /\ f \in Consoles /\ f.bad = FALSE /\ f.cells = c.cells /\ f.start = c.start
      /\ f.x = 0 /\ f.y = y1
  BY ONLY <1>1, <1>2 DEF Consoles
<1>4. f.y \in {c.y, c.y + 1} /\ f.x \in 0 .. konsole_w - 1 /\ row + (f.y - c.y) = row + 1
  BY <1>1, <1>3 DEF y1
<1>5. /\ f \in Consoles /\ ~ f.bad /\ Len(f.cells) = Len(c.cells) /\ f.start = c.start
      /\ Copied(f.cells, q)
  BY ONLY <1>1, <1>3
<1>6. Faithful(c, q, row, col) /\ Sighted(c, row, t, where, read) /\ t \in Above(c, row) .. Above(c, row) + 1
  OBVIOUS
<1>7. ~ g.bad => /\ Faithful(g, q, row + (f.y - c.y), f.x)
                 /\ \E s \in 0 .. Above(g, row + (f.y - c.y)) + 1 :
                       Sighted(g, row + (f.y - c.y), s, where, read)
  BY ONLY <1>4, <1>5, <1>6, MovedKept
<1> HIDE DEF g
<1>8. ~ g.bad => /\ Faithful(g, q, row + 1, 0)
                 /\ \E s \in 0 .. Above(g, row + 1) + 1 : Sighted(g, row + 1, s, where, read)
  BY ONLY <1>3, <1>4, <1>7
<1> QED BY <1>8 DEF g, f

\* Everything but a print: the console keeps all but the row of its start.
LEMMA KeptAs ==
  ASSUME NEW c, NEW d, NEW q, NEW row, NEW col, Faithful(c, q, row, col),
         d \in Consoles, d.cells = c.cells, d.x = c.x, d.y = c.y
  PROVE  Faithful(d, q, row, col) /\ Above(d, row) = Above(c, row)
BY DEF Faithful, Written, Above

LEMMA PutchKept ==
  ASSUME ConsoleInv, ~ asserted, NEW ch \in Glyphs \union {"newline", "backspace"}, konsole_putch(ch)
  PROVE  ConsoleInv'
<1> DEFINE row == pen[1]
           col == pen[2]
           b == ToBottom(Now)
           e == Printed(b, ch)
<1> USE Sheet
<1>1. SUFFICES ASSUME ~ asserted'
               PROVE  /\ pen' = <<pen'[1], pen'[2]>> /\ Faithful(Now', paper', pen'[1], pen'[2])
                      /\ \E s \in 0 .. Above(Now', pen'[1]) + 1 : Sighted(Now', pen'[1], s, scrolling', seen')
  BY DEF ConsoleInv, Now
<1>2. PICK s \in 0 .. Above(Now, row) + 1 : Sighted(Now, row, s, scrolling, seen) BY DEF ConsoleInv
<1>3. Faithful(Now, paper, row, col) /\ pen = <<row, col>> BY DEF ConsoleInv
<1>4. Now.cells = konsole_output_history /\ Now.bad = FALSE
  BY <1>3 DEF Now, Faithful, Written, Consoles
<1>5. /\ Faithful(b, paper, row, col) /\ Above(b, row) = Above(Now, row) /\ b.bad = Now.bad
      /\ \E t \in Above(b, row) .. Above(b, row) + 1 : Sighted(b, row, t, scrolling, seen)
  BY <1>2, <1>3, BottomKept
<1>6. PICK t \in Above(b, row) .. Above(b, row) + 1 : Sighted(b, row, t, scrolling, seen) BY <1>5
<1>7. Len(b.cells) <= MaxCells
  <2>1. b.cells = konsole_output_history
    <3>1. Now \in Consoles BY <1>3 DEF Faithful, Written
    <3> DEFINE n == Now.start + (IF CanScrollDown(Now)
                                 THEN (Len(Now.cells) - Now.start - window) \div konsole_w ELSE 0) * konsole_w
    <3>2. b = [Now EXCEPT !.start = n] BY DEF ToBottom
    <3> HIDE DEF n, b
    <3> QED BY ONLY <1>4, <3>1, <3>2 DEF Consoles
  <2>2. Len(konsole_output_history) \in Nat /\ Len(konsole_output_history) + konsole_w <= MaxCells
    BY <1>3, <1>4 DEF Faithful, Written, Consoles, konsole_putch, Room, cells_count
  <2> HIDE DEF b
  <2> QED BY <2>1, <2>2
<1>8. ~ e.bad /\ Becomes(e) /\ OnPaper(ch) /\ scrolling' = scrolling /\ seen' = seen
  BY <1>1 DEF konsole_putch, Becomes
<1>9. ASSUME NEW below, NEW next, pen' = <<below, next>>, Faithful(e, paper', below, next),
             \E k \in 0 .. Above(e, below) + 1 : Sighted(e, below, k, scrolling, seen)
      PROVE  /\ pen' = <<pen'[1], pen'[2]>> /\ Faithful(Now', paper', pen'[1], pen'[2])
             /\ \E k \in 0 .. Above(Now', pen'[1]) + 1 : Sighted(Now', pen'[1], k, scrolling', seen')
  <2>1. e \in Consoles BY <1>9 DEF Faithful, Written
  <2> HIDE DEF e
  <2>2. e = [cells |-> e.cells, start |-> e.start, x |-> e.x, y |-> e.y, bad |-> e.bad]
    BY ONLY <2>1 DEF Consoles
  <2>3. Now' = e BY <1>8, <2>2 DEF Now, Becomes
  <2>4. pen'[1] = below /\ pen'[2] = next BY <1>9
  <2> QED BY ONLY <1>8, <1>9, <2>3, <2>4
<1> HIDE DEF b, e
<1>10. /\ Faithful(b, paper, row, col) /\ Sighted(b, row, t, scrolling, seen) /\ ~ b.bad
       /\ Len(b.cells) <= MaxCells /\ t \in Above(b, row) .. Above(b, row) + 1
  BY <1>4, <1>5, <1>6, <1>7
<1>11. /\ b.x \in Int /\ col = b.x /\ b.x >= 0 BY <1>10 DEF Faithful, Written
<1>12. CASE ch = "newline"
  <2>1. e = ScrolledIfBelow([b EXCEPT !.x = 0, !.y = @ + 1]) BY <1>12 DEF e, Printed
  <2>2. paper' = paper /\ pen' = <<row + 1, 0>> BY <1>8, <1>12 DEF OnPaper
  <2>3. Faithful(e, paper, row + 1, 0) /\ \E k \in 0 .. Above(e, row + 1) + 1 : Sighted(e, row + 1, k, scrolling, seen)
    BY ONLY <1>8, <1>10, <2>1, NewlineKept
  <2>4. Faithful(e, paper', row + 1, 0) BY <2>2, <2>3
  <2> QED BY <1>9, <2>2, <2>3, <2>4
<1>13. CASE ch = "backspace" /\ col > 0
  <2> DEFINE new == [paper EXCEPT ![row * konsole_w + col] = ERASED]
  <2>1. e = konsole_set_value(Back(b), ERASED) BY <1>11, <1>13 DEF e, Printed
  <2>2. paper' = new /\ pen' = <<row, col - 1>> BY <1>8, <1>13 DEF OnPaper
  <2>a. b.x > 0 BY <1>11, <1>13
  <2>3. Faithful(e, new, row, col - 1) /\ Sighted(e, row, t, scrolling, seen)
    BY ONLY <1>8, <1>10, <2>1, <2>a, BackspaceKept
  <2>4. Faithful(e, paper', row, col - 1) BY <2>2, <2>3
  <2>5. t \in 0 .. Above(e, row) + 1 BY <2>3 DEF Sighted
  <2> QED BY <1>9, <2>2, <2>3, <2>4, <2>5
<1>14. CASE ch = "backspace" /\ col = 0
  <2>1. e = b BY <1>11, <1>14 DEF e, Printed
  <2>2. paper' = paper /\ pen' = pen BY <1>8, <1>14 DEF OnPaper
  <2>3. t \in 0 .. Above(b, row) + 1 BY <1>10 DEF Sighted
  <2>4. Faithful(e, paper', row, col) /\ pen' = <<row, col>> BY <1>3, <1>10, <2>1, <2>2
  <2>5. Sighted(e, row, t, scrolling, seen) /\ t \in 0 .. Above(e, row) + 1 BY <1>10, <2>1, <2>3
  <2> QED BY <1>9, <2>4, <2>5
<1>15. CASE ch \notin {"newline", "backspace"}
  <2> DEFINE new == [paper EXCEPT ![row * konsole_w + col + 1] = ch]
             below == IF col + 1 = konsole_w THEN row + 1 ELSE row
             next == IF col + 1 = konsole_w THEN 0 ELSE col + 1
  <2>1. e = Forward(konsole_set_value(b, ch)) BY <1>15 DEF e, Printed
  <2>2. paper' = new /\ pen' = <<below, next>> BY <1>8, <1>15 DEF OnPaper
  <2>3. ch \in Cells BY <1>15 DEF Cells
  <2>4. Faithful(e, new, below, next) /\ \E k \in 0 .. Above(e, below) + 1 : Sighted(e, below, k, scrolling, seen)
    BY ONLY <1>8, <1>10, <2>1, <2>3, SymbolKept
  <2> HIDE DEF new, below, next
  <2>5. Faithful(e, paper', below, next) BY <2>2, <2>4
  <2> QED BY <1>9, <2>2, <2>4, <2>5
<1>16. col > 0 \/ col = 0 BY <1>11
<1> QED BY <1>12, <1>13, <1>14, <1>15, <1>16

\* The console is blank and the window at its top.
LEMMA BlankKept ==
  ASSUME NEW c, NEW read,
         c = [cells |-> Screen, start |-> 0, x |-> 0, y |-> 0, bad |-> FALSE]
  PROVE  /\ Faithful(c, [i \in 1 .. MaxCells |-> BLANK], 0, 0)
         /\ \E s \in 0 .. Above(c, 0) + 1 : Sighted(c, 0, s, "no", read)
<1> USE Sheet
<1>1. window \in Nat /\ BLANK \in Cells BY DEF Cells
<1>2. Screen \in Seq(Cells) /\ Len(Screen) = window /\ \A i \in 1 .. window : Screen[i] = BLANK
  BY <1>1 DEF Screen
<1>3. /\ c \in Consoles /\ c.cells = Screen /\ c.start = 0 /\ c.x = 0 /\ c.y = 0
  BY <1>2 DEF Consoles
<1>4. Above(c, 0) = 0 BY <1>3 DEF Above
<1>5. Copied(Screen, [i \in 1 .. MaxCells |-> BLANK]) BY <1>1, <1>2 DEF Copied
<1>6. /\ c.x \in 0 .. konsole_w - 1 /\ c.y \in 0 .. konsole_h /\ c.y < konsole_h
      /\ Len(c.cells) = Row(0) + Row(konsole_h)
  BY <1>2, <1>3
<1>7. Faithful(c, [i \in 1 .. MaxCells |-> BLANK], 0, 0)
  BY <1>3, <1>4, <1>5, <1>6 DEF Faithful, Written
<1>8. Sighted(c, 0, 0, "no", read) BY <1>3, <1>4 DEF Sighted
<1>9. 0 \in 0 .. Above(c, 0) + 1 BY <1>4
<1> QED BY ONLY <1>7, <1>8, <1>9

LEMMA ConsoleInvInit == ConsoleInit => ConsoleInv
<1> SUFFICES ASSUME ConsoleInit PROVE ConsoleInv OBVIOUS
<1>1. Now = [cells |-> Screen, start |-> 0, x |-> 0, y |-> 0, bad |-> FALSE] BY DEF ConsoleInit, Now
<1>2. /\ pen = <<0, 0>> /\ pen[1] = 0 /\ pen[2] = 0 /\ scrolling = "no"
      /\ paper = [i \in 1 .. MaxCells |-> BLANK]
  BY DEF ConsoleInit
<1> QED BY <1>1, <1>2, BlankKept DEF ConsoleInv

LEMMA ClearKept ==
  ASSUME ConsoleInv, ~ asserted, konsole_clear
  PROVE  ConsoleInv'
<1>1. Now \in Consoles BY DEF ConsoleInv, Faithful, Written
<1>a. asserted = FALSE BY <1>1 DEF Consoles, Now
<1>2. Now' = [cells |-> Screen, start |-> 0, x |-> 0, y |-> 0, bad |-> FALSE]
  BY <1>a DEF konsole_clear, Becomes, Now
<1>3. /\ pen' = <<0, 0>> /\ pen'[1] = 0 /\ pen'[2] = 0 /\ scrolling' = "no"
      /\ paper' = [i \in 1 .. MaxCells |-> BLANK]
  BY DEF konsole_clear
<1>4. /\ Faithful(Now', paper', pen'[1], pen'[2])
      /\ \E s \in 0 .. Above(Now', pen'[1]) + 1 : Sighted(Now', pen'[1], s, scrolling', seen')
  BY ONLY <1>2, <1>3, BlankKept
<1> QED BY <1>3, <1>4 DEF ConsoleInv, Now

\* The scrolls of the terminal, which change where the window is and nothing else.
LEMMA ScrollKept ==
  ASSUME ConsoleInv, ~ asserted,
         \/ konsole_view_scroll_up_test \/ konsole_view_scroll_down_test
         \/ Scroll \/ konsole_redraw_from_history
  PROVE  ConsoleInv'
<1> DEFINE row == pen[1]
           col == pen[2]
           above == Above(Now, row)
<1> USE Sheet
<1>1. SUFFICES ASSUME ~ asserted'
               PROVE  /\ pen' = <<pen'[1], pen'[2]>> /\ Faithful(Now', paper', pen'[1], pen'[2])
                      /\ \E s \in 0 .. Above(Now', pen'[1]) + 1 : Sighted(Now', pen'[1], s, scrolling', seen')
  BY DEF ConsoleInv, Now
<1>2. PICK s \in 0 .. above + 1 : Sighted(Now, row, s, scrolling, seen) BY DEF ConsoleInv
<1>3. Faithful(Now, paper, row, col) /\ pen = <<row, col>> BY DEF ConsoleInv
<1>4. /\ above \in Nat /\ s \in Int /\ s >= 0 /\ start_index = Row(s) /\ Row(s) \in Int /\ Row(above) \in Int
      /\ Len(konsole_output_history) = Row(above) + Row(konsole_h)
      /\ s <= above + 1 /\ (s = above + 1 => scrolling = "redraw" /\ above > 0)
      /\ scrolling = "up" => \E k \in 1 .. s : seen = Row(k)
      /\ scrolling = "down" => \E k \in 0 .. above - 1 : seen = Row(k)
  <2>1. above \in Nat BY <1>3 DEF Faithful, Written
  <2>2. s \in Int /\ s >= 0 BY <1>2, <2>1
  <2>3. Row(s) \in Int /\ Row(above) \in Int BY <2>1, <2>2, RowInt
  <2>4. start_index = Row(s) BY <1>2 DEF Sighted, Now
  <2>5. Len(konsole_output_history) = Row(above) + Row(konsole_h) BY <1>3 DEF Faithful, Written, Now
  <2> QED BY <1>2, <2>1, <2>2, <2>3, <2>4, <2>5 DEF Sighted
<1>5. /\ konsole_output_history' = konsole_output_history /\ konsole_curr_x' = konsole_curr_x
      /\ konsole_curr_y' = konsole_curr_y /\ paper' = paper /\ pen' = pen
  BY DEF konsole_view_scroll_up_test, konsole_view_scroll_down_test, Scroll,
         konsole_redraw_from_history, Unscrolled
<1>6. Now \in Consoles BY <1>3 DEF Faithful, Written
<1> HIDE DEF above
<1>a. ~ asserted' /\ asserted = FALSE /\ asserted' \in BOOLEAN
  <2>1. asserted = FALSE BY <1>6 DEF Consoles, Now
  <2>2. asserted' = asserted \/ asserted' = (asserted \/ start_index + window > Len(konsole_output_history))
    BY <1>6 DEF konsole_view_scroll_up_test, konsole_view_scroll_down_test, Scroll,
         konsole_redraw_from_history, Redrawn, Now
  <2> QED BY <1>1, <2>1, <2>2
<1>7. ASSUME NEW n \in 0 .. above + 1, start_index' = Row(n),
             n = above + 1 => scrolling' = "redraw" /\ above > 0,
             scrolling' \in {"no", "up", "down", "redraw"},
             scrolling' = "up" => \E k \in 1 .. n : seen' = Row(k),
             scrolling' = "down" => \E k \in 0 .. above - 1 : seen' = Row(k)
      PROVE  /\ pen' = <<pen'[1], pen'[2]>> /\ Faithful(Now', paper', pen'[1], pen'[2])
             /\ \E k \in 0 .. Above(Now', pen'[1]) + 1 : Sighted(Now', pen'[1], k, scrolling', seen')
  <2>1. /\ Now'.cells = Now.cells /\ Now'.x = Now.x /\ Now'.y = Now.y
        /\ Now'.start = Row(n)
    BY <1>5, <1>7 DEF Now
  <2>2. Now' \in Consoles
    <3>1. Row(n) \in Int BY <1>4, <1>7, RowInt
    <3> QED BY <1>a, <1>5, <1>6, <1>7, <3>1 DEF Consoles, Now
  <2>3. Faithful(Now', paper, row, col) /\ Above(Now', row) = above
    BY <1>3, <2>1, <2>2, KeptAs DEF above
  <2>4. Sighted(Now', row, n, scrolling', seen') BY <1>7, <2>1, <2>3 DEF Sighted
  <2>5. pen' = <<row, col>> /\ pen'[1] = row /\ pen'[2] = col /\ paper' = paper BY <1>3, <1>5
  <2> QED BY ONLY <1>7, <2>3, <2>4, <2>5
<1>8. CASE konsole_view_scroll_up_test
  <2>1. scrolling = "no" /\ scrolling' = "up" /\ seen' = Row(s) /\ start_index' = Row(s) /\ Row(s) >= konsole_w
    BY <1>4, <1>8 DEF konsole_view_scroll_up_test
  <2>2. (1 <= s) = (Row(1) <= Row(s)) BY <1>4, RowOrder
  <2>3. s \in 1 .. s /\ s \in 0 .. above + 1 /\ s # above + 1 BY <1>4, <2>1, <2>2
  <2>4. \E k \in 1 .. s : seen' = Row(k) BY <2>1, <2>3
  <2> QED BY <1>7, <2>1, <2>3, <2>4
<1>9. CASE konsole_view_scroll_down_test
  <2>1. /\ scrolling = "no" /\ scrolling' = "down" /\ seen' = Row(s) /\ start_index' = Row(s)
        /\ Row(s) + window + konsole_w <= Row(above) + Row(konsole_h)
    BY <1>4, <1>9 DEF konsole_view_scroll_down_test, CanScrollDown, Now
  <2>2. Row(s) + konsole_w <= Row(above) BY <1>4, <2>1
  <2>3. Row(s + 1) = Row(s) + konsole_w BY <1>4, RowNext
  <2>4. (s + 1 <= above) = (Row(s + 1) <= Row(above)) BY <1>4, RowOrder
  <2>5. s \in 0 .. above - 1 /\ s \in 0 .. above + 1 /\ s # above + 1 BY <1>4, <2>2, <2>3, <2>4
  <2>6. \E k \in 0 .. above - 1 : seen' = Row(k) BY <2>1, <2>5
  <2> QED BY <1>7, <2>1, <2>5, <2>6
<1>10. CASE Scroll
  <2>1. scrolling' = "redraw" /\ scrolling \in {"up", "down"} BY <1>10 DEF Scroll
  <2>2. PICK from \in {seen, start_index} :
          start_index' = from + (IF scrolling = "up" THEN - konsole_w ELSE konsole_w)
    BY <1>10 DEF Scroll
  <2>3. CASE scrolling = "up"
    <3>1. PICK k \in 1 .. s : from = Row(k)
      <4>1. PICK j \in 1 .. s : seen = Row(j) BY <1>4, <2>3
      <4>2. s \in 1 .. s BY <1>4, <4>1
      <4> QED BY <1>4, <2>2, <4>1, <4>2
    <3>2. k \in Int /\ k - 1 \in 0 .. above + 1 /\ k - 1 # above + 1 BY <1>4, <3>1
    <3>3. Row(k - 1) = Row(k) - konsole_w /\ Row(k) \in Int BY <3>2, RowNext, RowInt
    <3>4. start_index' = Row(k - 1) BY <2>2, <2>3, <3>1, <3>3
    <3> QED BY <1>7, <2>1, <3>2, <3>4
  <2>4. CASE scrolling = "down"
    <3>1. PICK j \in 0 .. above - 1 : seen = Row(j) BY <1>4, <2>4
    <3>2. above > 0 /\ j \in Int /\ j >= 0 /\ j <= above /\ s <= above BY <1>4, <2>4, <3>1
    <3>3. PICK k \in 0 .. above : from = Row(k) BY <1>4, <2>2, <3>1, <3>2
    <3>4. k \in Int /\ k + 1 \in 0 .. above + 1 BY <1>4, <3>3
    <3>5. Row(k + 1) = Row(k) + konsole_w BY <3>4, RowNext
    <3>6. start_index' = Row(k + 1) BY <2>2, <2>4, <3>3, <3>5
    <3> QED BY <1>7, <2>1, <3>2, <3>4, <3>6
  <2> QED BY <2>1, <2>3, <2>4
<1>11. CASE konsole_redraw_from_history
  <2>1. /\ scrolling' = "no" /\ start_index' = Row(s)
        /\ asserted' = (asserted \/ start_index + window > Len(konsole_output_history))
    BY <1>4, <1>6, <1>11 DEF konsole_redraw_from_history, Redrawn, Now
  <2>a. ~ (Row(s) + Row(konsole_h) > Row(above) + Row(konsole_h)) BY <1>4, <1>a, <2>1
  <2>2. Row(s) <= Row(above) BY <1>4, <2>a
  <2>3. (s <= above) = (Row(s) <= Row(above)) BY <1>4, RowOrder
  <2>4. s \in 0 .. above + 1 /\ s # above + 1 BY <1>4, <2>2, <2>3
  <2> QED BY <1>7, <2>1, <2>4
<1> QED BY <1>8, <1>9, <1>10, <1>11

LEMMA ConsoleInvKept == ConsoleInv /\ [ConsoleNext]_consoleVars => ConsoleInv'
<1> SUFFICES ASSUME ConsoleInv, [ConsoleNext]_consoleVars PROVE ConsoleInv' OBVIOUS
<1>1. CASE ConsoleNext BY <1>1, PutchKept, ClearKept, ScrollKept DEF ConsoleNext
<1>2. CASE UNCHANGED consoleVars
  BY <1>2 DEF consoleVars, ConsoleInv, Now
<1> QED BY <1>1, <1>2

LEMMA ConsoleInvKeepsText == ConsoleInv => TextKept
<1> SUFFICES ASSUME ConsoleInv, ~ asserted PROVE TextKept BY DEF TextKept
<1> DEFINE row == pen[1]
           col == pen[2]
           above == Above(Now, row)
<1> USE Sheet
<1>1. Faithful(Now, paper, row, col) BY DEF ConsoleInv
<1>2. /\ above \in Nat /\ row \in Nat /\ konsole_curr_y \in 0 .. konsole_h /\ col = konsole_curr_x
      /\ above = row - konsole_curr_y /\ Copied(konsole_output_history, paper)
      /\ cells_count = Row(above) + Row(konsole_h)
  BY <1>1 DEF Faithful, Written, Now, Above, cells_count
<1> HIDE DEF above
<1>3. Row(row) = Row(above) + Row(konsole_curr_y) /\ Row(above) \in Int
  <2>1. row = above + konsole_curr_y /\ above \in Int /\ konsole_curr_y \in Int BY <1>2
  <2> QED BY <2>1, RowPlus
<1>4. pen[1] * konsole_w = cells_count - window + konsole_curr_y * konsole_w
  <2>1. pen[1] * konsole_w = Row(row) /\ konsole_curr_y * konsole_w = Row(konsole_curr_y) BY DEF Row
  <2>2. Row(konsole_curr_y) \in Int BY <1>2, RowInt
  <2> QED BY <1>2, <1>3, <2>1, <2>2
<1> QED BY <1>2, <1>4 DEF TextKept, Copied, cells_count

\* konsole_print, konsole_scroll_down and the scrolls of the view: nothing printed
\* is lost or put in a wrong place, whatever the task of the terminal has read of
\* the start of the window before another task printed.
THEOREM TextStaysKept == ConsoleSpec => []TextKept
<1>1. ConsoleInit => ConsoleInv BY ConsoleInvInit
<1>2. ConsoleInv /\ [ConsoleNext]_consoleVars => ConsoleInv' BY ConsoleInvKept
<1>3. ConsoleInv => TextKept BY ConsoleInvKeepsText
<1> QED BY <1>1, <1>2, <1>3, PTL DEF ConsoleSpec
=============================================================================
