--------------------------- MODULE BalancingProofs ---------------------------
(***************************************************************************)
(* What holds of the pools and the requests of Ingress for any services,   *)
(* backend lists, numbers of requests and pools, and any span of the       *)
(* cursor: a request goes where the reconciler said (FreshBackends), and   *)
(* round-robin rotates (Rotates). The inductive invariant is BalancingInv, *)
(* with the types of the variables.                                        *)
(***************************************************************************)
EXTENDS IngressProofs, FiniteSetTheorems

-----------------------------------------------------------------------------
(* Numbers. *)

\* A set of numbers has a least one.
LEMMA LeastOf ==
  ASSUME NEW T \in SUBSET Nat, T # {}
  PROVE  \E x \in T : \A y \in T : x <= y
<1>1. PICK R : IsWellFoundedOn(R, Nat) /\ \A x, y \in Nat : <<x, y>> \in R <=> x < y
  <2>1. \A x, y \in Nat : <<x, y>> \in OpToRel(<, Nat) <=> x < y
    BY DEF OpToRel
  <2> QED  BY <2>1, NatLessThanWellFounded
<1>2. PICK x \in T : \A y \in T : ~(<<y, x>> \in R)
  <2>1. IsWellFoundedOn(R, Nat) /\ T \subseteq Nat
    BY <1>1
  <2> QED  BY <2>1, WFMin
<1>3. \A y \in T : ~(y < x)
  BY <1>1, <1>2
<1>4. \A y \in T : x <= y
  BY <1>3
<1> QED  BY <1>4

LEMMA ModType ==
  ASSUME NEW x \in Nat, NEW n \in Nat, n > 0
  PROVE  x % n \in 0 .. n - 1
OBVIOUS

LEMMA ModByDiv ==
  ASSUME NEW x \in Int, NEW n \in Int, n > 0
  PROVE  x % n = x - n * (x \div n) /\ x \div n \in Int
<1>1. x % n = x - n * (x \div n)
  OBVIOUS
<1>2. x \div n \in Int
  OBVIOUS
<1> QED  BY <1>1, <1>2

\* Division with remainder.
LEMMA DivMod ==
  ASSUME NEW x \in Nat, NEW n \in Nat, n > 0
  PROVE  \E q \in Int, m \in 0 .. n - 1 : m = x % n /\ x = n * q + m
<1>1. x % n = x - n * (x \div n) /\ x \div n \in Int /\ x % n \in Int
  BY ModByDiv
<1> DEFINE q == x \div n
           m == x % n
<1>2. q \in Int /\ m \in Int /\ m = x - n * q
  BY <1>1
<1>3. m = x % n /\ m \in 0 .. n - 1
  BY ModType
<1> HIDE DEF q, m
<1>4. n * q \in Int
  BY <1>2
<1>5. x = n * q + m
  BY <1>2, <1>4
<1> QED  BY <1>2, <1>3, <1>5

\* It has one result.
LEMMA DivModUnique ==
  ASSUME NEW n \in Nat, n > 0, NEW q \in Int, NEW p \in Int,
         NEW r \in 0 .. n - 1, NEW s \in 0 .. n - 1, n * q + r = n * p + s
  PROVE  q = p /\ r = s
<1>1. n * q - n * p = s - r
  OBVIOUS
<1>2. q <= p
  <2> SUFFICES ASSUME q >= p + 1 PROVE FALSE
    OBVIOUS
  <2>1. n * q >= n * (p + 1)
    OBVIOUS
  <2>2. n * (p + 1) = n * p + n
    OBVIOUS
  <2> QED  BY <1>1, <2>1, <2>2
<1>3. p <= q
  <2> SUFFICES ASSUME p >= q + 1 PROVE FALSE
    OBVIOUS
  <2>1. n * p >= n * (q + 1)
    OBVIOUS
  <2>2. n * (q + 1) = n * q + n
    OBVIOUS
  <2> QED  BY <1>1, <2>1, <2>2
<1> QED  BY <1>2, <1>3

\* The next number, modulo n, is the next one or 0.
LEMMA ModNext ==
  ASSUME NEW x \in Nat, NEW n \in Nat, n > 0
  PROVE  (x + 1) % n = IF (x % n) + 1 = n THEN 0 ELSE (x % n) + 1
<1>1. PICK q \in Int, r \in 0 .. n - 1 : r = x % n /\ x = n * q + r
  BY DivMod
<1>2. PICK p \in Int, s \in 0 .. n - 1 : s = (x + 1) % n /\ x + 1 = n * p + s
  <2>1. x + 1 \in Nat
    OBVIOUS
  <2> QED  BY <2>1, DivMod
<1>3. x = n * q + r /\ x + 1 = n * p + s
  BY <1>1, <1>2
<1>4. CASE r + 1 = n
  <2>1. n * (q + 1) = n * q + n /\ n * q \in Int /\ n * p \in Int
    OBVIOUS
  <2>2. n * (q + 1) + 0 = n * p + s
    BY <1>3, <1>4, <2>1
  <2>3. s = 0
    BY <2>2, DivModUnique
  <2> QED  BY <1>1, <1>2, <1>4, <2>3
<1>5. CASE r + 1 # n
  <2>1. n * q + (r + 1) = n * p + s /\ r + 1 \in 0 .. n - 1
    BY <1>3, <1>5
  <2>2. s = r + 1
    BY <2>1, DivModUnique
  <2> QED  BY <1>1, <1>2, <1>5, <2>2
<1> QED  BY <1>4, <1>5

LEMMA IntervalFrom0 ==
  ASSUME NEW n \in Nat
  PROVE  IsFiniteSet(0 .. n - 1) /\ Cardinality(0 .. n - 1) = n
<1>1. n - 1 \in Int /\ 0 \in Int
  OBVIOUS
<1>2. IsFiniteSet(0 .. n - 1) /\ Cardinality(0 .. n - 1) = IF 0 > n - 1 THEN 0 ELSE n - 1 - 0 + 1
  BY <1>1, FS_Interval
<1> QED  BY <1>2

-----------------------------------------------------------------------------
(* The healthy backends of a list, in order. *)

\* How many healthy backends come before place k.
Place(list, k) == Cardinality({j \in HealthyIndices(list) : j < k})

\* A list names each container once.
LEMMA ListOf ==
  ASSUME NEW list \in Lists
  PROVE  /\ list \in Seq(Backend) /\ DOMAIN list = 1 .. Len(list) /\ Len(list) \in Nat
         /\ \A k \in DOMAIN list : list[k] \in Backend /\ list[k].id \in Ids /\ k \in Nat
         /\ \A j, k \in DOMAIN list : list[j].id = list[k].id => j = k
         /\ HealthyIndices(list) \subseteq DOMAIN list
         /\ \A k \in HealthyIndices(list) : list[k].id \in HealthyIn(list)
         /\ \A i \in HealthyIn(list) : \E k \in HealthyIndices(list) : list[k].id = i
         /\ HealthyIn(list) \subseteq Ids
<1>1. list \in Seq(Backend) /\ \A j, k \in DOMAIN list : list[j].id = list[k].id => j = k
  BY IngressAssumption
<1>2. DOMAIN list = 1 .. Len(list) /\ Len(list) \in Nat /\ \A k \in DOMAIN list : list[k] \in Backend
  BY <1>1
<1>3. \A k \in DOMAIN list : list[k].id \in Ids /\ k \in Nat
  BY <1>2 DEF Backend
<1> QED  BY <1>1, <1>2, <1>3 DEF HealthyIndices, HealthyIn

\* Every place among n healthy backends has exactly one.
LEMMA PlacesOf ==
  ASSUME NEW list \in Lists
  PROVE  LET healthy == HealthyIndices(list)
             n == Cardinality(healthy)
         IN  /\ n \in Nat /\ (healthy # {} => n > 0)
             /\ \A k \in healthy : Place(list, k) \in 0 .. n - 1
             /\ \A j, k \in healthy : Place(list, j) = Place(list, k) => j = k
             /\ \A m \in 0 .. n - 1 : \E k \in healthy : Place(list, k) = m
<1> DEFINE healthy == HealthyIndices(list)
           n == Cardinality(healthy)
           Below(k) == {j \in healthy : j < k}
<1>1. IsFiniteSet(healthy) /\ n \in Nat /\ healthy \subseteq Nat /\ (healthy # {} => n > 0)
  <2>1. DOMAIN list = 1 .. Len(list) /\ Len(list) \in Nat /\ healthy \in SUBSET DOMAIN list
    BY ListOf
  <2>2. IsFiniteSet(1 .. Len(list))
    BY <2>1, FS_Interval
  <2> HIDE DEF healthy
  <2>3. IsFiniteSet(healthy)
    BY <2>1, <2>2, FS_Subset
  <2>4. n \in Nat /\ (n = 0 <=> healthy = {})
    BY <2>3, FS_CardinalityType, FS_EmptySet
  <2> QED  BY <2>1, <2>3, <2>4
<1>2. \A k \in healthy : Place(list, k) = Cardinality(Below(k))
  BY DEF Place
<1> HIDE DEF healthy
<1>3. \A k \in healthy : /\ Below(k) \in SUBSET healthy /\ k \notin Below(k)
                         /\ IsFiniteSet(Below(k)) /\ Cardinality(Below(k)) \in Nat
  <2> SUFFICES ASSUME NEW k \in healthy
               PROVE  /\ Below(k) \in SUBSET healthy /\ k \notin Below(k)
                      /\ IsFiniteSet(Below(k)) /\ Cardinality(Below(k)) \in Nat
    OBVIOUS
  <2>1. Below(k) \in SUBSET healthy /\ k \notin Below(k)
    BY <1>1
  <2> HIDE DEF Below
  <2>2. IsFiniteSet(Below(k))
    BY <1>1, <2>1, FS_Subset
  <2> QED  BY <2>1, <2>2, FS_CardinalityType
<1>4. ASSUME NEW j \in healthy, NEW k \in healthy, j < k
      PROVE  Place(list, j) < Place(list, k)
  <2>1. Below(j) \in SUBSET Below(k) /\ j \in Below(k) /\ j \notin Below(j)
    <3>1. \A i \in healthy : i \in Nat
      BY <1>1
    <3>2. \A i \in healthy : i < j => i < k
      BY <1>4, <3>1
    <3> QED  BY <1>4, <3>1, <3>2
  <2> HIDE DEF Below
  <2>2. Cardinality(Below(j)) <= Cardinality(Below(k)) /\ Cardinality(Below(j)) # Cardinality(Below(k))
    BY <1>3, <2>1, FS_Subset
  <2> QED  BY <1>2, <1>3, <2>2
<1>5. \A j, k \in healthy : Place(list, j) = Place(list, k) => j = k
  <2> SUFFICES ASSUME NEW j \in healthy, NEW k \in healthy, Place(list, j) = Place(list, k), j # k
               PROVE  FALSE
    OBVIOUS
  <2>1. j < k \/ k < j
    BY <1>1
  <2>2. Place(list, j) \in Nat /\ Place(list, k) \in Nat
    BY <1>2, <1>3
  <2>3. Place(list, j) < Place(list, k) \/ Place(list, k) < Place(list, j)
    BY <1>4, <2>1
  <2> QED  BY <2>2, <2>3
<1>6. \A k \in healthy : Place(list, k) \in 0 .. n - 1
  <2> SUFFICES ASSUME NEW k \in healthy PROVE Place(list, k) \in 0 .. n - 1
    OBVIOUS
  <2>1. Below(k) \in SUBSET healthy /\ Below(k) # healthy
    BY <1>3
  <2> HIDE DEF Below
  <2>2. Cardinality(Below(k)) <= n /\ Cardinality(Below(k)) # n
    BY <1>1, <2>1, FS_Subset
  <2> QED  BY <1>1, <1>2, <1>3, <2>2
<1>7. \A m \in 0 .. n - 1 : \E k \in healthy : Place(list, k) = m
  <2> DEFINE f == [k \in healthy |-> Place(list, k)]
  <2>1. f \in Injection(healthy, 0 .. n - 1)
    BY <1>5, <1>6 DEF Injection, IsInjective
  <2>2. \A k \in healthy : f[k] = Place(list, k)
    OBVIOUS
  <2> HIDE DEF f
  <2>3. IsFiniteSet(0 .. n - 1) /\ Cardinality(0 .. n - 1) = n
    BY <1>1, IntervalFrom0
  <2>4. f \in Surjection(healthy, 0 .. n - 1)
    BY <2>1, <2>3, FS_Injection
  <2> QED  BY <2>2, <2>4 DEF Surjection
<1> QED  BY <1>1, <1>5, <1>6, <1>7 DEF healthy

\* Nth gives the backend at its place.
LEMMA NthOf ==
  ASSUME NEW list \in Lists, NEW m \in 0 .. Cardinality(HealthyIndices(list)) - 1
  PROVE  Nth(list, m) \in HealthyIndices(list) /\ Place(list, Nth(list, m)) = m
<1> DEFINE Fits(k) == Place(list, k) = m
<1>1. \E k \in HealthyIndices(list) : Fits(k)
  BY PlacesOf
<1>2. Nth(list, m) = CHOOSE k \in HealthyIndices(list) : Fits(k)
  BY DEF Nth, Place
<1> HIDE DEF Fits
<1>3. Nth(list, m) \in HealthyIndices(list) /\ Fits(Nth(list, m))
  BY <1>1, <1>2
<1> QED  BY <1>3 DEF Fits

-----------------------------------------------------------------------------
(* Rotation in one pool. *)

\* Levelled takes away the least of the counts.
LEMMA LevelledBy ==
  ASSUME NEW picks \in [Ids -> Nat], NEW ids \in SUBSET Ids, NEW least \in Nat,
         \E i \in ids : picks[i] = least, \A i \in ids : least <= picks[i]
  PROVE  Levelled(picks, ids) = [i \in Ids |-> IF i \in ids THEN picks[i] - least ELSE 0]
<1> DEFINE Counts == {picks[i] : i \in ids}
           Least(n) == \A i \in ids : n <= picks[i]
<1>1. least \in Counts /\ Least(least)
  OBVIOUS
<1>2. \A n \in Counts : n \in Nat /\ (Least(n) => n = least)
  <2> SUFFICES ASSUME NEW n \in Counts PROVE n \in Nat /\ (Least(n) => n = least)
    OBVIOUS
  <2>1. PICK i \in ids : n = picks[i]
    OBVIOUS
  <2>2. n \in Nat /\ least <= n
    BY <2>1
  <2>3. Least(n) => n <= least
    BY <1>1
  <2> QED  BY <2>2, <2>3
<1>3. (CHOOSE n \in Counts : Least(n)) = least
  <2> HIDE DEF Counts, Least
  <2> QED  BY <1>1, <1>2
<1> QED  BY <1>3 DEF Levelled

\* Round-robin picks the backend that was due longest ago, and moves on.
LEMMA AdvanceRotates ==
  ASSUME NEW p \in Pool, HealthyIndices(p.backends) # {},
         NEW d \in 0 .. Cardinality(HealthyIndices(p.backends)) - 1, InRotation(p, d),
         NEW k, PickFrom(p, "round-robin", k)
  PROVE  /\ Advanced(p, k) \in Pool /\ Advanced(p, k).backends = p.backends
         /\ \E e \in 0 .. Cardinality(HealthyIndices(p.backends)) - 1 : InRotation(Advanced(p, k), e)
<1> DEFINE list == p.backends
           healthy == HealthyIndices(list)
           ids == HealthyIn(list)
           n == Cardinality(healthy)
           c == p.cursor % n
           next == (p.cursor + 1) % CursorSpan
           more == [p.picks EXCEPT ![list[k].id] = @ + 1]
           picks == IF p.cursor + 1 = CursorSpan THEN NewPool(<<>>).picks ELSE Levelled(more, ids)
<1>0. /\ list \in Lists /\ p.cursor \in Nat /\ p.cursor < CursorSpan /\ CursorSpan \in Nat
      /\ CursorSpan > 0 /\ p.picks \in [Ids -> Nat]
  BY IngressAssumption DEF Pool
<1>1. /\ n \in Nat /\ n > 0 /\ d \in 0 .. n - 1
      /\ \A j \in healthy : Place(list, j) \in 0 .. n - 1
      /\ \A j, l \in healthy : Place(list, j) = Place(list, l) => j = l
      /\ \A m \in 0 .. n - 1 : \E j \in healthy : Place(list, j) = m
  BY <1>0, PlacesOf
<1>2. /\ \A j \in healthy : list[j].id \in ids /\ list[j].id \in Ids
      /\ \A j, l \in healthy : list[j].id = list[l].id => j = l
      /\ \A i \in ids : \E j \in healthy : list[j].id = i
      /\ ids \in SUBSET Ids
  BY <1>0, ListOf
<1>3. c \in 0 .. n - 1
  BY <1>0, <1>1, ModType
<1>4. k \in healthy /\ Place(list, k) = c
  BY <1>0, <1>3, NthOf DEF PickFrom
<1>5. \A j \in healthy :
        p.picks[list[j].id] = IF Behind(Place(list, j), c, n) <= d THEN 1 ELSE 0
  BY DEF InRotation, Place
<1>6. Advanced(p, k) = [p EXCEPT !.cursor = next, !.picks = picks]
  BY DEF Advanced
<1>7. \A j \in healthy :
        more[list[j].id] = IF j = k \/ Behind(Place(list, j), c, n) <= d THEN 1 ELSE 0
  <2> SUFFICES ASSUME NEW j \in healthy
               PROVE  more[list[j].id] = IF j = k \/ Behind(Place(list, j), c, n) <= d THEN 1 ELSE 0
    OBVIOUS
  <2>1. CASE j = k
    <3>1. ~(Behind(c, c, n) <= d)
      BY <1>1, <1>3 DEF Behind
    <3>2. p.picks[list[k].id] = 0
      BY <1>4, <1>5, <3>1
    <3> QED  BY <1>0, <1>2, <1>4, <2>1, <3>2
  <2>2. CASE j # k
    <3>1. list[j].id # list[k].id
      BY <1>2, <1>4, <2>2
    <3>2. more[list[j].id] = p.picks[list[j].id]
      BY <1>0, <1>2, <3>1
    <3> QED  BY <1>5, <2>2, <3>2
  <2> QED  BY <2>1, <2>2
<1>8. more \in [Ids -> Nat]
  BY <1>0, <1>2, <1>4
<1> HIDE DEF more
\* The next cursor, and how far the others are behind it.
<1>9. ASSUME p.cursor + 1 # CursorSpan
      PROVE  /\ next = p.cursor + 1
             /\ next % n = IF c + 1 = n THEN 0 ELSE c + 1
  <2>1. next = p.cursor + 1
    <3>1. p.cursor + 1 \in Nat /\ p.cursor + 1 < CursorSpan
      BY <1>0, <1>9
    <3>2. \A x, y \in Nat : x < y => x % y = x
      OBVIOUS
    <3> QED  BY <1>0, <3>1, <3>2
  <2> QED  BY <1>0, <1>1, <2>1, ModNext
<1> DEFINE cc == IF c + 1 = n THEN 0 ELSE c + 1
<1>10. \A j \in healthy :
         /\ j = k => Behind(Place(list, j), cc, n) = 1
         /\ j # k => Behind(Place(list, j), cc, n) = Behind(Place(list, j), c, n) + 1
         /\ j # k => Behind(Place(list, j), c, n) \in 1 .. n - 1
         /\ Behind(Place(list, j), cc, n) \in 1 .. n
  <2> SUFFICES ASSUME NEW j \in healthy
               PROVE  /\ j = k => Behind(Place(list, j), cc, n) = 1
                      /\ j # k => Behind(Place(list, j), cc, n) = Behind(Place(list, j), c, n) + 1
                      /\ j # k => Behind(Place(list, j), c, n) \in 1 .. n - 1
                      /\ Behind(Place(list, j), cc, n) \in 1 .. n
    OBVIOUS
  <2>1. Place(list, j) \in 0 .. n - 1 /\ (j # k => Place(list, j) # c) /\ (j = k => Place(list, j) = c)
    BY <1>1, <1>4
  <2> HIDE DEF c, n
  <2> QED  BY <1>1, <1>3, <2>1 DEF Behind
<1>11. next \in 0 .. CursorSpan - 1
  BY <1>0, ModType
<1> SUFFICES /\ picks \in [Ids -> Nat]
             /\ \E e \in 0 .. n - 1 : \A j \in healthy :
                  picks[list[j].id] = IF Behind(Place(list, j), next % n, n) <= e THEN 1 ELSE 0
  <2> DEFINE a == Advanced(p, k)
  <2>1. ASSUME picks \in [Ids -> Nat]
        PROVE  a \in Pool /\ a.backends = list /\ a.cursor = next /\ a.picks = picks
    <3> HIDE DEF picks, next
    <3> QED  BY <1>6, <1>11, <2>1 DEF Pool
  <2> HIDE DEF a, picks, next
  <2>2. ASSUME picks \in [Ids -> Nat],
               NEW e \in 0 .. n - 1,
               \A j \in healthy :
                 picks[list[j].id] = IF Behind(Place(list, j), next % n, n) <= e THEN 1 ELSE 0
        PROVE  InRotation(a, e)
    BY <2>1, <2>2 DEF InRotation, Place
  <2> QED  BY <2>1, <2>2 DEF a
<1>12. CASE p.cursor + 1 = CursorSpan
  <2>1. picks = [i \in Ids |-> 0]
    BY <1>12 DEF NewPool
  <2>2. next = 0
    <3>1. CursorSpan % CursorSpan = 0
      BY <1>0
    <3> QED  BY <1>12, <3>1
  <2>3. \A j \in healthy : ~(Behind(Place(list, j), 0, n) <= 0)
    BY <1>1 DEF Behind
  <2>4. next % n = 0
    BY <1>1, <2>2
  <2>5. picks \in [Ids -> Nat] /\ 0 \in 0 .. n - 1
    BY <1>1, <2>1
  <2>6. \A j \in healthy :
          picks[list[j].id] = IF Behind(Place(list, j), next % n, n) <= 0 THEN 1 ELSE 0
    BY <1>2, <2>1, <2>3, <2>4
  <2> QED  BY <2>5, <2>6
<1>13. CASE p.cursor + 1 # CursorSpan /\ d = n - 1
  <2>1. \A j \in healthy : more[list[j].id] = 1
    BY <1>7, <1>10, <1>13
  <2>2. \A i \in ids : more[i] = 1
    BY <1>2, <2>1
  <2>3. list[k].id \in ids
    BY <1>2, <1>4
  <2>4. picks = [i \in Ids |-> IF i \in ids THEN more[i] - 1 ELSE 0]
    BY <1>2, <1>8, <1>13, <2>2, <2>3, LevelledBy
  <2>5. \A i \in Ids : picks[i] = 0
    BY <1>2, <2>2, <2>4
  <2>6. next % n = cc
    BY <1>9, <1>13
  <2>7. \A j \in healthy : ~(Behind(Place(list, j), next % n, n) <= 0)
    BY <1>10, <2>6
  <2>8. picks \in [Ids -> Nat] /\ 0 \in 0 .. n - 1
    <3>1. \A i \in Ids : (IF i \in ids THEN more[i] - 1 ELSE 0) \in Nat
      BY <2>2
    <3> QED  BY <1>1, <2>4, <3>1
  <2>9. \A j \in healthy :
          picks[list[j].id] = IF Behind(Place(list, j), next % n, n) <= 0 THEN 1 ELSE 0
    BY <1>2, <2>5, <2>7
  <2> QED  BY <2>8, <2>9
<1>14. CASE p.cursor + 1 # CursorSpan /\ d # n - 1
  <2>1. d + 1 \in 0 .. n - 1 /\ cc \in 0 .. n - 1 /\ cc # c
    BY <1>1, <1>3, <1>14
  <2>2. PICK l \in healthy : Place(list, l) = cc
    BY <1>1, <2>1
  <2>3. l # k /\ ~(Behind(cc, c, n) <= d)
    BY <1>1, <1>3, <1>4, <2>1, <2>2 DEF Behind
  <2>4. more[list[l].id] = 0
    BY <1>7, <2>2, <2>3
  <2>5. \A i \in ids : 0 <= more[i]
    BY <1>2, <1>8
  <2>6. picks = [i \in Ids |-> IF i \in ids THEN more[i] - 0 ELSE 0]
    BY <1>2, <1>8, <1>14, <2>2, <2>4, <2>5, LevelledBy
  <2>7. \A j \in healthy : picks[list[j].id] = more[list[j].id]
    BY <1>2, <1>8, <2>6
  <2>8. next % n = cc
    BY <1>9, <1>14
  <2>9. \A j \in healthy : (j = k \/ Behind(Place(list, j), c, n) <= d)
                             <=> Behind(Place(list, j), next % n, n) <= d + 1
    BY <1>1, <1>10, <2>8
  <2>10. picks \in [Ids -> Nat]
    BY <1>8, <2>6
  <2>11. \A j \in healthy :
           picks[list[j].id] = IF Behind(Place(list, j), next % n, n) <= d + 1 THEN 1 ELSE 0
    BY <1>7, <2>7, <2>9
  <2> QED  BY <2>1, <2>10, <2>11
<1> QED  BY <1>12, <1>13, <1>14

-----------------------------------------------------------------------------
(* The other variables. *)

OtherTypes ==
  /\ running \in BOOLEAN /\ forwarders \subseteq Entry
  /\ budget \in [{"edit", "fault"} -> Nat] /\ released \subseteq Projects \X Hosts

LEMMA FirstOf ==
  ASSUME NEW ps \in SUBSET Projects, ps # {}
  PROVE  First(ps) \in ps
<1> DEFINE Least(p) == \A q \in ps : p <= q
<1>1. ps \in SUBSET Nat
  BY RoutesAssumption
<1>2. \E p \in ps : Least(p)
  BY <1>1, LeastOf
<1>3. First(ps) = CHOOSE p \in ps : Least(p)
  BY DEF First
<1> HIDE DEF Least
<1> QED  BY <1>2, <1>3

LEMMA SpendTyped ==
  ASSUME budget \in [{"edit", "fault"} -> Nat], NEW kind \in {"edit", "fault"}, Spend(kind)
  PROVE  budget' \in [{"edit", "fault"} -> Nat]
<1>1. budget[kind] - 1 \in Nat /\ budget' = [budget EXCEPT ![kind] = budget[kind] - 1]
  BY DEF Spend
<1> QED  BY <1>1

\* Every step keeps their types, and routes lead to services.
LEMMA OthersTyped ==
  ASSUME RoutingInv, OtherTypes, EntriesInv, [Next]_vars
  PROVE  OtherTypes' /\ EntriesInv'
<1> USE DEF OtherTypes, EntriesInv
<1>0. /\ stored \in [Services -> Rows] /\ tick \in Tick /\ tick.projects \in SUBSET Projects
      /\ tick.entries \subseteq Entry
  BY DEF RoutingInv, RowTypes, Tick
<1>1. \A st : Without(st) \subseteq Projects \X Hosts
  BY DEF Without
<1>2. IdleTick.entries = {}
  BY DEF IdleTick
<1>3. CASE Api
  <2>1. UNCHANGED <<tick, ingress>>
    BY <1>3 DEF Api, UpsertBegin, ScaleGet, UpsertCheck, HandlerPut, Delete
  <2>2. budget' \in [{"edit", "fault"} -> Nat]
    BY <1>3, SpendTyped DEF Api, UpsertBegin, ScaleGet, UpsertCheck, HandlerPut, Delete
  <2>3. released' \subseteq Projects \X Hosts
    BY <1>1, <1>3 DEF Api, UpsertBegin, ScaleGet, UpsertCheck, HandlerPut, Delete, PutService
  <2> QED  BY <2>1, <2>2, <2>3 DEF ingress
<1>4. CASE TickBegin
  <2>1. tick'.entries = {}
    BY <1>4 DEF TickBegin, IdleTick
  <2> QED  BY <1>1, <1>4, <2>1 DEF TickBegin, ingress
<1>5. CASE Collect
  <2> DEFINE p == First(tick.projects)
  <2>1. p \in Projects
    BY <1>0, <1>5, FirstOf DEF Collect
  <2>2. \A e \in EntriesOf(stored, In(p)) : e.svc \in Services
    BY DEF EntriesOf, In
  <2>3. \A e \in tick'.entries : e.svc \in Services
    BY <1>0, <1>5, <2>2 DEF Collect, Tick
  <2>4. budget' \in [{"edit", "fault"} -> Nat] /\ released' \subseteq Projects \X Hosts
    BY <1>5, <2>1, SpendTyped DEF Collect
  <2> QED  BY <1>5, <2>3, <2>4 DEF Collect, ingress
<1>6. CASE UpdateRoutes
  <2>1. tick'.entries = {}
    BY <1>6 DEF UpdateRoutes, IdleTick
  <2>2. table' \subseteq table \cup tick.entries
    BY <1>6 DEF UpdateRoutes
  <2>3. forwarders' \subseteq Entry
    <3>1. Forwarders(tick.entries) \subseteq forwarders \cup tick.entries
      BY DEF Forwarders, Forwarded
    <3> QED  BY <1>0, <1>6, <3>1 DEF UpdateRoutes
  <2> QED  BY <1>6, <2>1, <2>2, <2>3 DEF UpdateRoutes
<1>7. CASE ReadProject
  <2>1. tick'.entries = tick.entries
    BY <1>0, <1>7 DEF ReadProject, Tick
  <2>2. budget' \in [{"edit", "fault"} -> Nat]
    BY <1>7, SpendTyped DEF ReadProject
  <2> QED  BY <1>7, <2>1, <2>2 DEF ReadProject, ingress
<1>8. CASE EndProject
  <2>1. tick'.entries = tick.entries
    BY <1>0, <1>8 DEF EndProject, Tick
  <2> QED  BY <1>1, <1>8, <2>1 DEF EndProject, ingress
<1>9. CASE TickEnd
  BY <1>2, <1>9 DEF TickEnd, ingress
<1>10. ASSUME NEW s \in Services, NEW list \in Lists, PushBackends(s, list)
       PROVE  OtherTypes' /\ EntriesInv'
  <2>1. tick'.entries = tick.entries
    BY <1>0, <1>10 DEF PushBackends, Tick
  <2> QED  BY <1>10, <2>1 DEF PushBackends, ingress
<1>11. CASE Run
  BY <1>11 DEF Run
<1>12. CASE Serve \/ UNCHANGED vars
  <2>1. UNCHANGED <<tick, ingress, budget, released>>
    BY <1>12 DEF Serve, Lookup, GetPool, Pick, Answered, vars
  <2> QED  BY <2>1 DEF ingress
<1> QED
  BY <1>3, <1>4, <1>5, <1>6, <1>7, <1>8, <1>9, <1>10, <1>11, <1>12 DEF Next, Reconcile

-----------------------------------------------------------------------------
(* Pools and requests. *)

ServeTypes ==
  /\ registry \in [Services -> Pools \cup {NoPool}] /\ pool \in [Pools -> Pool]
  /\ req \in [Requests -> Request] /\ published \in [Services -> Lists]

\* The part of the invariant that is about them.
ServeInv == ServeTypes /\ OwnerInv /\ PublishedInv /\ FreshInv /\ FreshBackends /\ RotationInv

LEMMA IdleRequestOf ==
  /\ IdleRequest \in Request /\ IdleRequest.pc = "idle" /\ IdleRequest.pool = NoPool
BY DEF IdleRequest, Request, Strategies

LEMMA NewPoolOf ==
  ASSUME NEW list \in Lists
  PROVE  /\ NewPool(list) \in Pool /\ NewPool(list).backends = list /\ NewPool(list).cursor = 0
         /\ NewPool(list).picks = [i \in Ids |-> 0]
BY IngressAssumption DEF NewPool, Pool

\* A pool that was just filled is in rotation, wherever its cursor stands.
LEMMA FilledRotates ==
  ASSUME NEW p \in Pool, p.picks = [i \in Ids |-> 0], HealthyIndices(p.backends) # {}
  PROVE  \E d \in 0 .. Cardinality(HealthyIndices(p.backends)) - 1 : InRotation(p, d)
<1> DEFINE list == p.backends
           healthy == HealthyIndices(list)
           n == Cardinality(healthy)
           c == p.cursor % n
<1>1. list \in Lists /\ p.cursor \in Nat
  BY IngressAssumption DEF Pool
<1>2. n \in Nat /\ n > 0 /\ \A k \in healthy : Place(list, k) \in 0 .. n - 1
  BY <1>1, PlacesOf
<1>3. c \in 0 .. n - 1
  BY <1>1, <1>2, ModType
<1>4. \A k \in healthy : list[k].id \in Ids
  BY <1>1, ListOf
<1>5. \A k \in healthy : ~(Behind(Place(list, k), c, n) <= 0)
  BY <1>2, <1>3 DEF Behind
<1>6. \A k \in healthy :
        p.picks[list[k].id] = IF Behind(Place(list, k), c, n) <= 0 THEN 1 ELSE 0
  BY <1>4, <1>5
<1>7. InRotation(p, 0) /\ 0 \in 0 .. n - 1
  BY <1>2, <1>6 DEF InRotation, Place
<1> QED  BY <1>7

\* What the garbage collector leaves.
LEMMA ReachableOf ==
  ASSUME NEW pools \in [Pools -> Pool], NEW reg, NEW reqs
  PROVE  /\ Reachable(pools, reg, reqs) \in [Pools -> Pool]
         /\ \A o \in Pools :
              /\ InUse(o, reg, reqs) => Reachable(pools, reg, reqs)[o] = pools[o]
              /\ \/ Reachable(pools, reg, reqs)[o] = pools[o]
                 \/ HealthyIndices(Reachable(pools, reg, reqs)[o].backends) = {}
<1>1. NewPool(<<>>) \in Pool /\ NewPool(<<>>).backends = <<>>
  BY NewPoolOf, IngressAssumption
<1>2. HealthyIndices(<<>>) = {}
  BY DEF HealthyIndices
<1> QED  BY <1>1, <1>2 DEF Reachable

\* Steps that leave pools and requests alone.
LEMMA ServeFrame ==
  ASSUME ServeInv, UNCHANGED <<registry, pool, req, published>>
  PROVE  ServeInv'
BY DEF ServeInv, ServeTypes, OwnerInv, PublishedInv, FreshInv, FreshBackends, RotationInv, InRotation

\* What a pool has after a step, for rotation to go on.
Rotating(p) ==
  HealthyIndices(p.backends) # {} =>
    \E d \in 0 .. Cardinality(HealthyIndices(p.backends)) - 1 : InRotation(p, d)

LEMMA RotationOf == (RotationInv <=> \A o \in Pools : Rotating(pool[o]))
                    /\ (RotationInv' <=> \A o \in Pools : Rotating(pool'[o]))
BY DEF RotationInv, Rotating, InRotation

\* A request of the service sees what is published while it runs.
LEMMA PushRequests ==
  ASSUME ServeTypes, NEW s \in Services, NEW list \in Lists, PushBackends(s, list)
  PROVE  /\ req' \in [Requests -> Request]
         /\ \A r \in Requests :
              /\ req'[r].pc = req[r].pc /\ req'[r].svc = req[r].svc /\ req'[r].pool = req[r].pool
              /\ req'[r].to = req[r].to /\ req[r].fresh \subseteq req'[r].fresh
              /\ req[r].svc = s => HealthyIn(list) \subseteq req'[r].fresh
<1>1. HealthyIn(list) \subseteq Ids
  BY ListOf
<1> SUFFICES ASSUME NEW r \in Requests
             PROVE  /\ req'[r] \in Request
                    /\ req'[r].pc = req[r].pc /\ req'[r].svc = req[r].svc
                    /\ req'[r].pool = req[r].pool
                    /\ req'[r].to = req[r].to /\ req[r].fresh \subseteq req'[r].fresh
                    /\ req[r].svc = s => HealthyIn(list) \subseteq req'[r].fresh
  BY DEF PushBackends
<1> DEFINE q == [req[r] EXCEPT !.fresh = @ \cup HealthyIn(list)]
<1>2. req[r] \in Request
  BY DEF ServeTypes
<1>3. /\ q \in Request /\ q.pc = req[r].pc /\ q.svc = req[r].svc /\ q.pool = req[r].pool
      /\ q.to = req[r].to /\ q.fresh = req[r].fresh \cup HealthyIn(list)
  BY <1>1, <1>2 DEF Request
<1>4. req'[r] = IF req[r].svc = s THEN q ELSE req[r]
  BY DEF PushBackends
<1> HIDE DEF q
<1> QED  BY <1>2, <1>3, <1>4

\* UpdateBackends under requests that hold the pool.
LEMMA PushKeeps ==
  ASSUME ServeInv, NEW s \in Services, NEW list \in Lists, PushBackends(s, list)
  PROVE  ServeInv'
<1> USE DEF ServeInv
<1>1. /\ req' \in [Requests -> Request]
      /\ \A r \in Requests :
           /\ req'[r].pc = req[r].pc /\ req'[r].svc = req[r].svc /\ req'[r].pool = req[r].pool
           /\ req'[r].to = req[r].to /\ req[r].fresh \subseteq req'[r].fresh
           /\ req[r].svc = s => HealthyIn(list) \subseteq req'[r].fresh
  BY PushRequests
<1>2. /\ published' \in [Services -> Lists] /\ published'[s] = list
      /\ \A t \in Services : t # s => published'[t] = published[t]
  BY DEF PushBackends, ServeTypes
<1>3. FreshBackends'
  BY <1>1 DEF FreshBackends
<1>4. /\ registry \in [Services -> Pools \cup {NoPool}] /\ pool \in [Pools -> Pool]
      /\ \A r \in Requests : req[r].pool \in Pools \cup {NoPool}
      /\ NoPool \notin Pools
  BY IngressAssumption DEF ServeTypes, Request
<1> DEFINE Holders ==
             \A r \in Requests : req[r].pool # NoPool =>
               \/ pool'[req[r].pool].backends = pool[req[r].pool].backends
               \/ pool'[req[r].pool].backends = list /\ req[r].svc = s
           Good == /\ registry' \in [Services -> Pools \cup {NoPool}] /\ pool' \in [Pools -> Pool]
                   /\ OwnerInv' /\ PublishedInv' /\ Holders
                   /\ \A o \in Pools : Rotating(pool'[o])
<1>5. ASSUME Good PROVE ServeInv'
  <2>1. ServeTypes'
    BY <1>1, <1>2, <1>5 DEF ServeTypes
  <2>2. FreshInv'
    <3> SUFFICES ASSUME NEW r \in Requests, req[r].pc # "idle"
                 PROVE  /\ HealthyIn(published'[req[r].svc]) \subseteq req'[r].fresh
                        /\ req[r].pool # NoPool =>
                             HealthyIn(pool'[req[r].pool].backends) \subseteq req'[r].fresh
      BY <1>1 DEF FreshInv
    <3>1. req[r].svc \in Services
      BY DEF OwnerInv
    <3>2. /\ HealthyIn(published[req[r].svc]) \subseteq req[r].fresh
          /\ req[r].pool # NoPool =>
               HealthyIn(pool[req[r].pool].backends) \subseteq req[r].fresh
      BY DEF FreshInv
    <3> QED  BY <1>1, <1>2, <1>5, <3>1, <3>2
  <2> QED  BY <1>3, <1>5, <2>1, <2>2, RotationOf
<1>6. \A o \in Pools : Rotating(pool[o])
  BY RotationOf
<1>7. CASE list = <<>> /\ registry' = [registry EXCEPT ![s] = NoPool]
           /\ pool' = Reachable(pool, registry', req)
  <2>1. /\ registry' \in [Services -> Pools \cup {NoPool}] /\ registry'[s] = NoPool
        /\ \A t \in Services : t # s => registry'[t] = registry[t]
    BY <1>4, <1>7
  <2>2. /\ pool' \in [Pools -> Pool]
        /\ \A o \in Pools :
             /\ InUse(o, registry', req) => pool'[o] = pool[o]
             /\ pool'[o] = pool[o] \/ HealthyIndices(pool'[o].backends) = {}
    <3>1. \A reg, reqs :
            /\ Reachable(pool, reg, reqs) \in [Pools -> Pool]
            /\ \A o \in Pools :
                 /\ InUse(o, reg, reqs) => Reachable(pool, reg, reqs)[o] = pool[o]
                 /\ \/ Reachable(pool, reg, reqs)[o] = pool[o]
                    \/ HealthyIndices(Reachable(pool, reg, reqs)[o].backends) = {}
      BY <1>4, ReachableOf
    <3> QED  BY <1>7, <3>1
  <2>3. OwnerInv'
    BY <1>1, <2>1 DEF OwnerInv
  <2>4. PublishedInv'
    <3> SUFFICES ASSUME NEW t \in Services, registry'[t] # NoPool
                 PROVE  pool'[registry'[t]].backends = published'[t]
      BY DEF PublishedInv
    <3>1. t # s /\ registry'[t] = registry[t] /\ registry[t] \in Pools
      BY <1>4, <2>1
    <3>2. InUse(registry[t], registry', req)
      BY <3>1 DEF InUse
    <3>3. pool'[registry[t]] = pool[registry[t]]
      BY <2>2, <3>1, <3>2
    <3> QED  BY <1>2, <3>1, <3>3 DEF PublishedInv
  <2>5. Holders
    <3> SUFFICES ASSUME NEW r \in Requests, req[r].pool # NoPool
                 PROVE  pool'[req[r].pool] = pool[req[r].pool]
      OBVIOUS
    <3>1. req[r].pool \in Pools /\ InUse(req[r].pool, registry', req)
      BY <1>4 DEF InUse
    <3> QED  BY <2>2, <3>1
  <2>6. \A o \in Pools : Rotating(pool'[o])
    BY <1>6, <2>2 DEF Rotating
  <2> QED  BY <1>5, <2>1, <2>2, <2>3, <2>4, <2>5, <2>6
<1>8. CASE list # <<>> /\ registry[s] # NoPool /\ UNCHANGED registry
           /\ pool' = [pool EXCEPT ![registry[s]] =
                         [NewPool(list) EXCEPT !.cursor = pool[registry[s]].cursor]]
  <2> DEFINE o == registry[s]
             p == [NewPool(list) EXCEPT !.cursor = pool[o].cursor]
  <2>1. o \in Pools /\ pool[o] \in Pool
    BY <1>4, <1>8
  <2>2. p \in Pool /\ p.backends = list /\ p.picks = [i \in Ids |-> 0]
    BY <2>1, NewPoolOf DEF Pool
  <2>3. Rotating(p)
    <3> HIDE DEF p
    <3> QED  BY <2>2, FilledRotates DEF Rotating
  <2>4. /\ pool' = [pool EXCEPT ![o] = p] /\ registry' = registry
    BY <1>8
  <2> HIDE DEF p
  <2>5. pool' \in [Pools -> Pool] /\ pool'[o] = p /\ \A q \in Pools : q # o => pool'[q] = pool[q]
    BY <1>4, <2>1, <2>2, <2>4
  <2>6. OwnerInv'
    BY <1>1, <2>4 DEF OwnerInv
  <2>7. PublishedInv'
    <3> SUFFICES ASSUME NEW t \in Services, registry[t] # NoPool
                 PROVE  pool'[registry[t]].backends = published'[t]
      BY <2>4 DEF PublishedInv
    <3>1. CASE t = s
      BY <1>2, <2>2, <2>5, <3>1
    <3>2. CASE t # s
      <4>1. registry[t] # o /\ registry[t] \in Pools
        BY <1>4, <3>2 DEF OwnerInv
      <4> QED  BY <1>2, <2>5, <3>2, <4>1 DEF PublishedInv
    <3> QED  BY <3>1, <3>2
  <2>8. Holders
    <3> SUFFICES ASSUME NEW r \in Requests, req[r].pool # NoPool
                 PROVE  \/ pool'[req[r].pool].backends = pool[req[r].pool].backends
                        \/ pool'[req[r].pool].backends = list /\ req[r].svc = s
      OBVIOUS
    <3>1. req[r].pool \in Pools
      BY <1>4
    <3>2. req[r].pool = o => req[r].svc = s
      BY DEF OwnerInv
    <3> QED  BY <2>2, <2>5, <3>1, <3>2
  <2>9. \A q \in Pools : Rotating(pool'[q])
    BY <1>6, <2>3, <2>5
  <2> QED  BY <1>4, <1>5, <2>4, <2>5, <2>6, <2>7, <2>8, <2>9
<1>9. ASSUME registry[s] = NoPool, NEW o \in Pools, ~InUse(o, registry, req),
             pool' = [pool EXCEPT ![o] = NewPool(list)], registry' = [registry EXCEPT ![s] = o]
      PROVE  ServeInv'
  <2>1. /\ registry' \in [Services -> Pools \cup {NoPool}] /\ registry'[s] = o
        /\ \A t \in Services : t # s => registry'[t] = registry[t]
    BY <1>4, <1>9
  <2>2. /\ \A t \in Services : registry[t] # o
        /\ \A r \in Requests : req[r].pool # o
    BY <1>9 DEF InUse
  <2>3. /\ pool' \in [Pools -> Pool] /\ pool'[o] = NewPool(list)
        /\ \A q \in Pools : q # o => pool'[q] = pool[q]
    BY <1>4, <1>9, NewPoolOf
  <2>4. OwnerInv'
    BY <1>1, <2>1, <2>2 DEF OwnerInv
  <2>5. PublishedInv'
    <3> SUFFICES ASSUME NEW t \in Services, registry'[t] # NoPool
                 PROVE  pool'[registry'[t]].backends = published'[t]
      BY DEF PublishedInv
    <3>1. CASE t = s
      BY <1>2, <2>1, <2>3, <3>1, NewPoolOf
    <3>2. CASE t # s
      <4>1. registry'[t] = registry[t] /\ registry[t] # o /\ registry[t] \in Pools
        BY <1>4, <2>1, <2>2, <3>2
      <4> QED  BY <1>2, <2>3, <3>2, <4>1 DEF PublishedInv
    <3> QED  BY <3>1, <3>2
  <2>6. Holders
    BY <1>4, <2>2, <2>3
  <2>7. Rotating(NewPool(list))
    BY NewPoolOf, FilledRotates DEF Rotating
  <2>8. \A q \in Pools : Rotating(pool'[q])
    BY <1>6, <2>3, <2>7
  <2> QED  BY <1>5, <2>1, <2>3, <2>4, <2>5, <2>6, <2>8
<1> QED  BY <1>7, <1>8, <1>9 DEF PushBackends, UpdateBackends

\* One request goes on, and the pools in use keep their backends.
LEMMA RequestGoesOn ==
  ASSUME ServeInv, NEW r \in Requests, NEW q \in Request, req' = [req EXCEPT ![r] = q],
         UNCHANGED <<registry, published>>, pool' \in [Pools -> Pool],
         \A o \in Pools : /\ Rotating(pool'[o])
                          /\ InUse(o, registry, req') => pool'[o].backends = pool[o].backends,
         q.pc # "idle" => q.svc \in Services /\ HealthyIn(published[q.svc]) \subseteq q.fresh,
         q.pc = "pooled" <=> q.pool # NoPool,
         q.pool # NoPool => /\ HealthyIn(pool[q.pool].backends) \subseteq q.fresh
                            /\ \A s \in Services : registry[s] = q.pool => q.svc = s,
         q.pc = "sent" => q.to \in q.fresh
  PROVE  ServeInv'
<1> USE DEF ServeInv
<1>1. /\ req' \in [Requests -> Request] /\ req'[r] = q
      /\ \A x \in Requests : x # r => req'[x] = req[x]
  BY DEF ServeTypes
<1>2. ServeTypes'
  BY <1>1 DEF ServeTypes
<1>3. OwnerInv'
  BY <1>1 DEF OwnerInv
<1>4. /\ \A s \in Services : registry[s] # NoPool => registry[s] \in Pools
      /\ \A x \in Requests : req'[x].pool # NoPool => req'[x].pool \in Pools
  BY <1>1 DEF ServeTypes, Request
<1>5. \A s \in Services : registry[s] # NoPool =>
        pool'[registry[s]].backends = pool[registry[s]].backends
  BY <1>4 DEF InUse
<1>6. \A x \in Requests : req'[x].pool # NoPool =>
        pool'[req'[x].pool].backends = pool[req'[x].pool].backends
  BY <1>4 DEF InUse
<1>7. PublishedInv'
  BY <1>5 DEF PublishedInv
<1>8. FreshInv'
  BY <1>1, <1>6 DEF FreshInv
<1>9. FreshBackends'
  BY <1>1 DEF FreshBackends
<1> QED  BY <1>2, <1>3, <1>7, <1>8, <1>9, RotationOf

LEMMA LookupKeeps ==
  ASSUME ServeInv, table \subseteq Entry, EntriesInv,
         NEW r \in Requests, NEW host \in Hosts, NEW path \in Paths, Lookup(r, host, path)
  PROVE  ServeInv'
<1>1. PICK e \in LookupL7(table, host, path) :
        req' = [req EXCEPT ![r] = [IdleRequest EXCEPT
                  !.pc = "found", !.svc = e.svc, !.lb = e.route.lb,
                  !.fresh = HealthyIn(published[e.svc])]]
  BY DEF Lookup
<1>2. e \in table
  BY DEF LookupL7, Matching
<1>3. e.svc \in Services /\ e.route.lb \in Strategies
  BY <1>2 DEF EntriesInv, Entry, Route
<1>4. HealthyIn(published[e.svc]) \subseteq Ids
  BY <1>3, ListOf DEF ServeInv, ServeTypes
<1> DEFINE q == [IdleRequest EXCEPT !.pc = "found", !.svc = e.svc, !.lb = e.route.lb,
                                    !.fresh = HealthyIn(published[e.svc])]
<1>5. /\ q \in Request /\ q.pc = "found" /\ q.svc = e.svc /\ q.pool = NoPool
      /\ q.fresh = HealthyIn(published[e.svc])
  BY <1>3, <1>4, IdleRequestOf DEF Request
<1>6. req' = [req EXCEPT ![r] = q]
  BY <1>1
<1> HIDE DEF q
<1>7. UNCHANGED <<registry, published, pool>>
  BY DEF Lookup
<1>8. pool' \in [Pools -> Pool] /\ \A o \in Pools : Rotating(pool'[o]) /\ pool'[o] = pool[o]
  BY <1>7, RotationOf DEF ServeInv, ServeTypes
<1> QED  BY <1>3, <1>5, <1>6, <1>7, <1>8, RequestGoesOn

\* A request ends, whatever becomes of its pool.
LEMMA RequestEnds ==
  ASSUME ServeInv, NEW r \in Requests, req' = [req EXCEPT ![r] = IdleRequest],
         UNCHANGED <<registry, published>>,
         pool' = pool \/ pool' = Reachable(pool, registry, req')
  PROVE  ServeInv'
<1>1. pool \in [Pools -> Pool] /\ \A o \in Pools : Rotating(pool[o])
  BY RotationOf DEF ServeInv, ServeTypes
<1>2. \A reg, reqs :
        /\ Reachable(pool, reg, reqs) \in [Pools -> Pool]
        /\ \A o \in Pools :
             /\ InUse(o, reg, reqs) => Reachable(pool, reg, reqs)[o] = pool[o]
             /\ \/ Reachable(pool, reg, reqs)[o] = pool[o]
                \/ HealthyIndices(Reachable(pool, reg, reqs)[o].backends) = {}
  BY <1>1, ReachableOf
<1>3. /\ pool' \in [Pools -> Pool]
      /\ \A o \in Pools : /\ Rotating(pool'[o])
                          /\ InUse(o, registry, req') => pool'[o].backends = pool[o].backends
  <2>1. CASE pool' = pool
    BY <1>1, <2>1
  <2>2. CASE pool' = Reachable(pool, registry, req')
    <3>1. /\ pool' \in [Pools -> Pool]
          /\ \A o \in Pools :
               /\ InUse(o, registry, req') => pool'[o] = pool[o]
               /\ pool'[o] = pool[o] \/ HealthyIndices(pool'[o].backends) = {}
      BY <1>2, <2>2
    <3> QED  BY <1>1, <3>1 DEF Rotating
  <2> QED  BY <2>1, <2>2
<1> QED  BY <1>3, IdleRequestOf, RequestGoesOn

LEMMA GetPoolKeeps ==
  ASSUME ServeInv, NEW r \in Requests, GetPool(r)
  PROVE  ServeInv'
<1> DEFINE s == req[r].svc
           q == [req[r] EXCEPT !.pc = "pooled", !.pool = registry[s]]
<1>1. UNCHANGED <<registry, published, pool>> /\ req[r].pc = "found"
  BY DEF GetPool
<1>2. CASE registry[s] = NoPool
  <2>1. req' = [req EXCEPT ![r] = IdleRequest]
    BY <1>2 DEF GetPool
  <2> QED  BY <1>1, <2>1, RequestEnds
<1>3. CASE registry[s] # NoPool
  <2>1. req' = [req EXCEPT ![r] = q]
    BY <1>3 DEF GetPool
  <2>2. s \in Services /\ req[r] \in Request /\ registry[s] \in Pools
    BY <1>1, <1>3 DEF ServeInv, OwnerInv, ServeTypes
  <2>3. /\ q \in Request /\ q.pc = "pooled" /\ q.svc = s /\ q.pool = registry[s]
        /\ q.fresh = req[r].fresh
    BY <2>2 DEF Request
  <2> HIDE DEF q
  <2>4. HealthyIn(published[s]) \subseteq q.fresh
    BY <1>1, <2>3 DEF ServeInv, FreshInv
  <2>5. pool[registry[s]].backends = published[s]
    BY <1>3, <2>2 DEF ServeInv, PublishedInv
  <2>6. \A t \in Services : registry[t] = registry[s] => s = t
    BY <1>3, <2>2 DEF ServeInv, OwnerInv
  <2>7. pool' \in [Pools -> Pool] /\ \A o \in Pools : Rotating(pool'[o]) /\ pool'[o] = pool[o]
    BY <1>1, RotationOf DEF ServeInv, ServeTypes
  <2> QED  BY <1>1, <1>3, <2>1, <2>2, <2>3, <2>4, <2>5, <2>6, <2>7, RequestGoesOn
<1> QED  BY <1>2, <1>3

LEMMA PickKeeps ==
  ASSUME ServeInv, NEW r \in Requests, Pick(r)
  PROVE  ServeInv'
<1> DEFINE o == req[r].pool
           list == pool[o].backends
<1>1. UNCHANGED <<registry, published>> /\ req[r].pc = "pooled"
  BY DEF Pick
<1>2. /\ req \in [Requests -> Request] /\ req[r] \in Request /\ o \in Pools /\ o # NoPool
      /\ pool \in [Pools -> Pool] /\ pool[o] \in Pool /\ list \in Lists
  BY <1>1 DEF ServeInv, ServeTypes, OwnerInv, Request, Pool
<1>3. CASE req' = [req EXCEPT ![r] = IdleRequest] /\ pool' = Reachable(pool, registry, req')
  BY <1>1, <1>3, RequestEnds
<1>4. ASSUME NEW k \in DOMAIN list, HealthyIndices(list) # {}, PickFrom(pool[o], req[r].lb, k),
             req' = [req EXCEPT ![r].pc = "sent", ![r].to = list[k].id, ![r].pool = NoPool],
             pool' = Reachable(
               IF req[r].lb = "round-robin" THEN [pool EXCEPT ![o] = Advanced(@, k)] ELSE pool,
               registry, req')
      PROVE  ServeInv'
  <2> DEFINE q == [req[r] EXCEPT !.pc = "sent", !.to = list[k].id, !.pool = NoPool]
             next == IF req[r].lb = "round-robin" THEN [pool EXCEPT ![o] = Advanced(@, k)] ELSE pool
  <2>1. req' = [req EXCEPT ![r] = q]
    BY <1>2, <1>4
  <2>2. list[k].id \in Ids /\ k \in HealthyIndices(list) /\ list[k].id \in HealthyIn(list)
    BY <1>2, <1>4, ListOf DEF PickFrom
  <2>3. /\ q \in Request /\ q.pc = "sent" /\ q.svc = req[r].svc /\ q.pool = NoPool
        /\ q.to = list[k].id /\ q.fresh = req[r].fresh
    BY <1>2, <2>2 DEF Request
  <2>4. /\ next \in [Pools -> Pool]
        /\ \A x \in Pools : Rotating(next[x]) /\ next[x].backends = pool[x].backends
    <3>0. \A x \in Pools : Rotating(pool[x])
      BY RotationOf DEF ServeInv
    <3>1. CASE req[r].lb # "round-robin"
      BY <1>2, <3>0, <3>1
    <3>2. CASE req[r].lb = "round-robin"
      <4> DEFINE a == Advanced(pool[o], k)
      <4>1. PICK d \in 0 .. Cardinality(HealthyIndices(list)) - 1 : InRotation(pool[o], d)
        BY <1>2, <1>4, <3>0 DEF Rotating
      <4>2. /\ a \in Pool /\ a.backends = list
            /\ \E e \in 0 .. Cardinality(HealthyIndices(list)) - 1 : InRotation(a, e)
        BY <1>2, <1>4, <3>2, <4>1, AdvanceRotates
      <4>3. next = [pool EXCEPT ![o] = a]
        BY <3>2
      <4> HIDE DEF a, next
      <4>4. Rotating(a)
        BY <4>2 DEF Rotating
      <4> QED  BY <1>2, <3>0, <4>2, <4>3, <4>4
    <3> QED  BY <3>1, <3>2
  <2>5. pool' = Reachable(next, registry, req')
    BY <1>4
  <2> HIDE DEF q, next
  <2>6. \A reg, reqs :
          /\ Reachable(next, reg, reqs) \in [Pools -> Pool]
          /\ \A x \in Pools :
               /\ InUse(x, reg, reqs) => Reachable(next, reg, reqs)[x] = next[x]
               /\ \/ Reachable(next, reg, reqs)[x] = next[x]
                  \/ HealthyIndices(Reachable(next, reg, reqs)[x].backends) = {}
    BY <2>4, ReachableOf
  <2>7. /\ pool' \in [Pools -> Pool]
        /\ \A x \in Pools : /\ Rotating(pool'[x])
                            /\ InUse(x, registry, req') => pool'[x].backends = pool[x].backends
    BY <2>4, <2>5, <2>6 DEF Rotating
  <2>8. /\ req[r].svc \in Services /\ HealthyIn(published[req[r].svc]) \subseteq req[r].fresh
        /\ HealthyIn(list) \subseteq req[r].fresh
    BY <1>1, <1>2 DEF ServeInv, OwnerInv, FreshInv
  <2> QED  BY <1>1, <2>1, <2>2, <2>3, <2>7, <2>8, RequestGoesOn
<1> QED  BY <1>3, <1>4 DEF Pick

LEMMA ServeKeeps ==
  ASSUME RoutingInv, EntriesInv, ServeInv, [Next]_vars
  PROVE  ServeInv'
<1>1. ASSUME UNCHANGED <<registry, pool, req, published>> PROVE ServeInv'
  BY <1>1, ServeFrame
<1>2. CASE Api
  BY <1>1, <1>2 DEF Api, UpsertBegin, ScaleGet, UpsertCheck, HandlerPut, Delete
<1>3. CASE TickBegin \/ Collect \/ UpdateRoutes \/ ReadProject \/ EndProject \/ TickEnd
  BY <1>1, <1>3 DEF TickBegin, Collect, UpdateRoutes, ReadProject, EndProject, TickEnd
<1>4. CASE \E s \in Services, list \in Lists : PushBackends(s, list)
  BY <1>4, PushKeeps
<1>5. CASE Run \/ UNCHANGED vars
  BY <1>1, <1>5 DEF Run, vars
<1>6. CASE Serve
  <2>1. table \subseteq Entry
    BY DEF RoutingInv, RowTypes
  <2>2. ASSUME NEW r \in Requests, Answered(r) PROVE ServeInv'
    BY <2>2, RequestEnds DEF Answered
  <2> QED  BY <1>6, <2>1, <2>2, LookupKeeps, GetPoolKeeps, PickKeeps DEF Serve
<1> QED  BY <1>2, <1>3, <1>4, <1>5, <1>6 DEF Next, Reconcile

-----------------------------------------------------------------------------
(* The invariant, and what follows from it. *)

LEMMA ServeInit == Init => OtherTypes /\ EntriesInv /\ ServeInv
<1> SUFFICES ASSUME Init PROVE OtherTypes /\ EntriesInv /\ ServeInv
  OBVIOUS
<1>1. OtherTypes /\ EntriesInv
  BY IngressAssumption DEF Init, OtherTypes, EntriesInv, IdleTick
<1>2. NewPool(<<>>) \in Pool /\ NewPool(<<>>).backends = <<>> /\ <<>> \in Lists
  BY NewPoolOf, IngressAssumption
<1>3. ServeTypes
  BY <1>2, IdleRequestOf DEF Init, ServeTypes
<1>4. /\ \A s \in Services : registry[s] = NoPool
      /\ \A r \in Requests : req[r] = IdleRequest
      /\ \A o \in Pools : pool[o] = NewPool(<<>>)
  BY DEF Init
<1>5. OwnerInv /\ PublishedInv
  BY <1>4, IdleRequestOf DEF OwnerInv, PublishedInv
<1>6. FreshInv /\ FreshBackends
  BY <1>4, IdleRequestOf DEF FreshInv, FreshBackends
<1>7. RotationInv
  <2>1. HealthyIndices(<<>>) = {}
    BY DEF HealthyIndices
  <2> QED  BY <1>2, <1>4, <2>1 DEF RotationInv
<1> QED  BY <1>1, <1>3, <1>5, <1>6, <1>7 DEF ServeInv

LEMMA ServeInvariant == Spec => [](RoutingInv /\ OtherTypes /\ EntriesInv /\ ServeInv)
<1>1. Init => RoutingInv /\ OtherTypes /\ EntriesInv /\ ServeInv
  BY RoutingInit, ServeInit
<1>2. RoutingInv /\ OtherTypes /\ EntriesInv /\ ServeInv /\ [Next]_vars
        => (RoutingInv /\ OtherTypes /\ EntriesInv /\ ServeInv)'
  BY RoutingStep, OthersTyped, ServeKeeps
<1> QED  BY <1>1, <1>2, PTL DEF Spec

\* Every variable of the routing layer keeps a value of its kind, whatever the
\* handlers, the reconciler and the requests do.
THEOREM TypeCorrect == Spec => []TypeOK
<1>1. RoutingInv /\ OtherTypes /\ ServeInv => TypeOK
  BY DEF RoutingInv, RowTypes, OtherTypes, ServeInv, ServeTypes, TypeOK
<1> QED  BY <1>1, ServeInvariant, PTL

\* ServeHTTP sends a request to a container that was published healthy for its
\* service, last before it came or while it ran, although UpdateBackends may
\* forget, remake and refill the pool between pools.Get and Pick.
THEOREM RequestsGoWhereTold == Spec => []FreshBackends
<1>1. ServeInv => FreshBackends
  BY DEF ServeInv
<1> QED  BY <1>1, ServeInvariant, PTL

\* The round-robin of BackendPool.Pick is a strict rotation between two updates
\* of the pool or two wraps of its cursor, for any number of healthy backends.
THEOREM RoundRobinRotates == Spec => []Rotates
<1>1. ServeInv => Rotates
  <2> SUFFICES ASSUME ServeInv, NEW o \in Pools, NEW i \in Ids, NEW j \in Ids,
                      i \in HealthyIn(pool[o].backends), j \in HealthyIn(pool[o].backends)
               PROVE  pool[o].picks[i] <= pool[o].picks[j] + 1
    BY DEF Rotates
  <2> DEFINE list == pool[o].backends
  <2>1. list \in Lists
    BY DEF ServeInv, ServeTypes, Pool
  <2>2. /\ \E k \in HealthyIndices(list) : list[k].id = i
        /\ \E k \in HealthyIndices(list) : list[k].id = j
    BY <2>1, ListOf
  <2>3. PICK d \in 0 .. Cardinality(HealthyIndices(list)) - 1 : InRotation(pool[o], d)
    BY <2>2 DEF ServeInv, RotationInv
  <2>4. \A k \in HealthyIndices(list) : pool[o].picks[list[k].id] \in {0, 1}
    BY <2>3 DEF InRotation
  <2>5. pool[o].picks[i] \in {0, 1} /\ pool[o].picks[j] \in {0, 1}
    BY <2>2, <2>4
  <2> QED  BY <2>5
<1> QED  BY <1>1, ServeInvariant, PTL

\* The inductive invariant of the runs, which the proof carries.
THEOREM BalancingHolds == Spec => []BalancingInv
<1>1. EntriesInv /\ ServeInv => BalancingInv
  BY DEF ServeInv, BalancingInv
<1> QED  BY <1>1, ServeInvariant, PTL
=============================================================================
