--------------------------- MODULE FiniteNumbers ----------------------------
(***************************************************************************)
(* Smallest and greatest numbers of a set, which the proofs about CHOOSE   *)
(* need: an expression that chooses one means something only if there is   *)
(* one.  And what the sequences of Listing hold: the members of a finite   *)
(* set, each in one place.                                                 *)
(***************************************************************************)
EXTENDS Listing, FiniteSetTheorems, TLAPS

\* A nonempty set of natural numbers has a smallest member.
LEMMA LeastNumber ==
    ASSUME NEW S, S \subseteq Nat, S # {}
    PROVE  \E m \in S : \A n \in S : m <= n
  <1>1. PICK m \in S : \A n \in S : ~ (<<n, m>> \in OpToRel(<, Nat))
    BY WFMin, NatLessThanWellFounded, Zenon
  <1>2. \A n \in S : n \in Nat /\ m \in Nat
    OBVIOUS
  <1>3. \A n \in S : ~ (n < m)
    BY <1>1, <1>2, Zenon DEF OpToRel
  <1> QED
    BY <1>2, <1>3

\* One of the members of a nonempty set has the greatest of numbers that are bounded.
LEMMA GreatestOf ==
    ASSUME NEW S, S # {}, NEW f, NEW bound \in Nat, \A x \in S : f[x] \in Nat /\ f[x] <= bound
    PROVE  \E x \in S : \A y \in S : f[y] <= f[x]
  <1> DEFINE Below == {bound - f[x] : x \in S}
  <1>1. Below \subseteq Nat /\ Below # {}
    OBVIOUS
  <1>2. PICK m \in Below : \A n \in Below : m <= n
    <2> HIDE DEF Below
    <2> QED
      BY <1>1, LeastNumber
  <1>3. PICK x \in S : m = bound - f[x]
    BY <1>2
  <1>4. ASSUME NEW y \in S
        PROVE  f[y] <= f[x]
    <2>1. bound - f[y] \in Below
      OBVIOUS
    <2>2. bound - f[x] <= bound - f[y]
      BY <1>2, <1>3, <2>1
    <2> QED
      BY <2>2
  <1> QED
    BY <1>4

-----------------------------------------------------------------------------
(* Listings.                                                               *)

\* A strict total order of a set.
OrderOf(R, S) ==
    /\ \A x \in S : <<x, x>> \notin R
    /\ \A x, y, z \in S : <<x, y>> \in R /\ <<y, z>> \in R => <<x, z>> \in R
    /\ \A x, y \in S : x # y => <<x, y>> \in R \/ <<y, x>> \in R

\* What comes before an item.
Earlier(S, R, x) == {y \in S : <<y, x>> \in R}

\* What comes before an item is less than all, and more for a later one.
LEMMA EarlierGrows ==
    ASSUME NEW S, IsFiniteSet(S), NEW R, OrderOf(R, S)
    PROVE  /\ \A x \in S : /\ Cardinality(Earlier(S, R, x)) \in Nat
                          /\ Cardinality(Earlier(S, R, x)) < Cardinality(S)
           /\ \A x, y \in S : <<x, y>> \in R =>
                Cardinality(Earlier(S, R, x)) < Cardinality(Earlier(S, R, y))
  <1>1. ASSUME NEW x \in S
        PROVE  /\ IsFiniteSet(Earlier(S, R, x)) /\ Cardinality(Earlier(S, R, x)) \in Nat
               /\ x \notin Earlier(S, R, x) /\ Earlier(S, R, x) \subseteq S
    <2>1. Earlier(S, R, x) \subseteq S /\ x \notin Earlier(S, R, x)
      BY DEF Earlier, OrderOf
    <2>2. IsFiniteSet(Earlier(S, R, x))
      BY <2>1, FS_Subset
    <2> QED
      BY <2>1, <2>2, FS_CardinalityType
  <1>2. ASSUME NEW x \in S, NEW T, IsFiniteSet(T), T \subseteq S, x \in T,
               Earlier(S, R, x) \subseteq T
        PROVE  Cardinality(Earlier(S, R, x)) < Cardinality(T)
    <2>1. Cardinality(Earlier(S, R, x)) <= Cardinality(T)
      BY <1>2, FS_Subset
    <2>2. Cardinality(Earlier(S, R, x)) # Cardinality(T)
      BY <1>1, <1>2, FS_Subset
    <2>3. Cardinality(T) \in Nat
      BY <1>2, FS_CardinalityType
    <2> QED
      BY <1>1, <2>1, <2>2, <2>3
  <1>3. ASSUME NEW x \in S
        PROVE  Cardinality(Earlier(S, R, x)) < Cardinality(S)
    BY <1>1, <1>2
  <1>4. ASSUME NEW x \in S, NEW y \in S, <<x, y>> \in R
        PROVE  Cardinality(Earlier(S, R, x)) < Cardinality(Earlier(S, R, y))
    <2>1. x \in Earlier(S, R, y) /\ Earlier(S, R, x) \subseteq Earlier(S, R, y)
      BY <1>4 DEF Earlier, OrderOf
    <2> QED
      BY <1>1, <1>2, <2>1
  <1> QED
    BY <1>1, <1>3, <1>4

\* Every member of the set is in one place of the sequence, after those that come before
\* it.
InPlaces(S, R, order) ==
    /\ order \in Seq(S) /\ Len(order) = Cardinality(S)
    /\ Cardinality(S) \in Nat /\ DOMAIN order = 1..Cardinality(S)
    /\ \A k \in 1..Cardinality(S) :
         order[k] \in S /\ Cardinality(Earlier(S, R, order[k])) = k - 1
    /\ \A j, k \in 1..Cardinality(S) : j < k <=> <<order[j], order[k]>> \in R
    /\ \A x \in S : \E k \in 1..Cardinality(S) : order[k] = x

\* That is what InOrder makes of a finite set.
LEMMA Placed ==
    ASSUME NEW S, IsFiniteSet(S), NEW R, OrderOf(R, S)
    PROVE  InPlaces(S, R, InOrder(S, R))
  <1> DEFINE n == Cardinality(S)
             place == [x \in S |-> Cardinality(Earlier(S, R, x)) + 1]
  <1>1. n \in Nat
    BY FS_CardinalityType
  <1>2. place \in Injection(S, 1..n)
    <2>1. \A x \in S : place[x] = Cardinality(Earlier(S, R, x)) + 1
      OBVIOUS
    <2>2. \A x \in S : place[x] \in 1..n
      BY <1>1, <2>1, EarlierGrows
    <2>3. ASSUME NEW x \in S, NEW y \in S, x # y
          PROVE  place[x] # place[y]
      <3>1. <<x, y>> \in R \/ <<y, x>> \in R
        BY <2>3 DEF OrderOf
      <3>2. /\ Cardinality(Earlier(S, R, x)) \in Nat /\ Cardinality(Earlier(S, R, y)) \in Nat
            /\ Cardinality(Earlier(S, R, x)) # Cardinality(Earlier(S, R, y))
        BY <3>1, EarlierGrows
      <3> QED
        BY <2>1, <3>2
    <2>4. place \in [S -> 1..n]
      BY <2>2
    <2> HIDE DEF place
    <2> QED
      BY <2>3, <2>4 DEF Injection, IsInjective
  <1>3. \A k \in 1..n : \E x \in S : place[x] = k
    <2>1. IsFiniteSet(1..n) /\ Cardinality(1..n) = n
      BY <1>1, FS_Interval
    <2> HIDE DEF place
    <2>2. place \in Surjection(S, 1..n)
      <3> HIDE DEF n
      <3>1. Cardinality(S) = Cardinality(1..n)
        BY <2>1 DEF n
      <3> QED
        BY <1>2, <2>1, <3>1, FS_Injection
    <2> QED
      BY <2>2 DEF Surjection
  <1>4. ASSUME NEW k \in 1..n
        PROVE  InOrder(S, R)[k] \in S /\ Cardinality(Earlier(S, R, InOrder(S, R)[k])) = k - 1
    <2>1. PICK x \in S : place[x] = k
      BY <1>3
    <2>2. Cardinality(Earlier(S, R, x)) = k - 1
      BY <2>1, EarlierGrows
    <2>3. \E y \in S : Cardinality({z \in S : <<z, y>> \in R}) = k - 1
      BY <2>2 DEF Earlier
    <2>4. InOrder(S, R)[k] = CHOOSE y \in S : Cardinality({z \in S : <<z, y>> \in R}) = k - 1
      BY DEF InOrder
    <2> QED
      BY <2>3, <2>4 DEF Earlier
  <1>5. DOMAIN InOrder(S, R) = 1..n /\ InOrder(S, R) \in [1..n -> S]
    <2>1. DOMAIN InOrder(S, R) = 1..n
      BY DEF InOrder
    <2>2. \A k \in 1..n :
             (CHOOSE x \in S : Cardinality({y \in S : <<y, x>> \in R}) = k - 1) \in S
      BY <1>4 DEF InOrder
    <2> QED
      BY <2>1, <2>2 DEF InOrder
  <1>6. InOrder(S, R) \in Seq(S) /\ Len(InOrder(S, R)) = n
    BY <1>1, <1>5
  <1>7. ASSUME NEW j \in 1..n, NEW k \in 1..n
        PROVE  j < k <=> <<InOrder(S, R)[j], InOrder(S, R)[k]>> \in R
    <2>1. PICK x \in S : x = InOrder(S, R)[j] /\ Cardinality(Earlier(S, R, x)) = j - 1
      BY <1>4
    <2>2. PICK y \in S : y = InOrder(S, R)[k] /\ Cardinality(Earlier(S, R, y)) = k - 1
      BY <1>4
    <2>3. <<x, y>> \in R => j < k
      BY <1>1, <2>1, <2>2, EarlierGrows
    <2>4. <<y, x>> \in R => k < j
      BY <1>1, <2>1, <2>2, EarlierGrows
    <2>5. x = y => j = k
      BY <1>1, <2>1, <2>2
    <2>6. x = y \/ <<x, y>> \in R \/ <<y, x>> \in R
      BY DEF OrderOf
    <2> QED
      BY <1>1, <2>1, <2>2, <2>3, <2>4, <2>5, <2>6
  <1>8. ASSUME NEW x \in S
        PROVE  \E k \in 1..n : InOrder(S, R)[k] = x
    <2>1. Cardinality(Earlier(S, R, x)) \in Nat /\ Cardinality(Earlier(S, R, x)) < n
      BY EarlierGrows
    <2>2. PICK k \in 1..n : k = Cardinality(Earlier(S, R, x)) + 1
      BY <1>1, <2>1
    <2>3. PICK y \in S : y = InOrder(S, R)[k] /\ Cardinality(Earlier(S, R, y)) = k - 1
      BY <1>4
    <2>4. Cardinality(Earlier(S, R, y)) = Cardinality(Earlier(S, R, x))
      BY <2>1, <2>2, <2>3
    <2>5. ~(<<x, y>> \in R) /\ ~(<<y, x>> \in R)
      BY <2>1, <2>4, EarlierGrows
    <2>6. x = y
      BY <2>5 DEF OrderOf
    <2> QED
      BY <2>3, <2>6
  <1> QED
    BY <1>1, <1>4, <1>5, <1>6, <1>7, <1>8 DEF InPlaces

\* Sets that a function takes one to the other, different members to different ones, have
\* as many members.
LEMMA SameNumber ==
    ASSUME NEW S, IsFiniteSet(S), NEW T, NEW f, \A x \in S : f[x] \in T,
           \A x, y \in S : f[x] = f[y] => x = y,
           \A t \in T : \E x \in S : f[x] = t
    PROVE  IsFiniteSet(T) /\ Cardinality(T) = Cardinality(S) /\ Cardinality(S) \in Nat
  <1>1. PICK g \in [S -> T] : g = [x \in S |-> f[x]]
    OBVIOUS
  <1>2. \A x \in S : g[x] = f[x]
    BY <1>1
  <1>3. g \in Bijection(S, T)
    BY <1>2 DEF Bijection, Injection, Surjection, IsInjective
  <1>4. ExistsBijection(S, T)
    BY <1>3 DEF ExistsBijection
  <1> QED
    BY <1>4, FS_Bijection, FS_CardinalityType

\* The numbers of a set that are below one.
Smaller(S, x) == {j \in S : j < x}

\* Numbers are in places that grow with them.
LEMMA Increasing ==
    ASSUME NEW S, S \subseteq Nat, IsFiniteSet(S)
    PROVE  /\ Ascending(S) \in Seq(S) /\ Len(Ascending(S)) = Cardinality(S)
           /\ Cardinality(S) \in Nat /\ DOMAIN Ascending(S) = 1..Cardinality(S)
           /\ \A k \in 1..Cardinality(S) :
                /\ Ascending(S)[k] \in S
                /\ Cardinality(Smaller(S, Ascending(S)[k])) = k - 1
           /\ \A j, k \in 1..Cardinality(S) : j < k <=> Ascending(S)[j] < Ascending(S)[k]
           /\ \A x \in S : \E k \in 1..Cardinality(S) : Ascending(S)[k] = x
  <1>1. PICK R : R = {p \in S \X S : p[1] < p[2]}
    OBVIOUS
  <1>2. \A x, y \in S : <<x, y>> \in R <=> x < y
    BY <1>1
  <1>3. OrderOf(R, S)
    <2>1. \A x, y \in S : x \in Nat /\ y \in Nat
      OBVIOUS
    <2> QED
      BY <1>2, <2>1 DEF OrderOf
  <1>4. Ascending(S) = InOrder(S, R)
    BY <1>1 DEF Ascending
  <1>5. \A x \in S : Earlier(S, R, x) = Smaller(S, x)
    BY <1>2 DEF Earlier, Smaller
  <1>6. PICK o : o = Ascending(S)
    OBVIOUS
  <1>7. /\ o \in Seq(S) /\ Len(o) = Cardinality(S)
        /\ Cardinality(S) \in Nat /\ DOMAIN o = 1..Cardinality(S)
        /\ \A k \in 1..Cardinality(S) :
             /\ o[k] \in S
             /\ Cardinality(Earlier(S, R, o[k])) = k - 1
        /\ \A j, k \in 1..Cardinality(S) : j < k <=> <<o[j], o[k]>> \in R
        /\ \A x \in S : \E k \in 1..Cardinality(S) : o[k] = x
    <2>1. InPlaces(S, R, o)
      BY <1>3, <1>4, <1>6, Placed
    <2> QED
      BY <2>1 DEF InPlaces
  <1>8. \A k \in 1..Cardinality(S) : Cardinality(Smaller(S, o[k])) = k - 1
    BY <1>5, <1>7
  <1>9. \A j, k \in 1..Cardinality(S) : j < k <=> o[j] < o[k]
    BY <1>2, <1>7
  <1> QED
    BY <1>6, <1>7, <1>8, <1>9

\* Finitely many numbers have a greatest one.
LEMMA GreatestNumber ==
    ASSUME NEW S, S \subseteq Nat, IsFiniteSet(S), S # {}
    PROVE  \E m \in S : \A x \in S : x <= m
  <1>1. PICK o, n : o = Ascending(S) /\ n = Cardinality(S)
    OBVIOUS
  <1>2. /\ n \in Nat /\ \A k \in 1..n : o[k] \in S
        /\ \A j, k \in 1..n : j < k <=> o[j] < o[k]
        /\ \A x \in S : \E k \in 1..n : o[k] = x
    BY <1>1, Increasing
  <1>3. n \in 1..n
    <2>1. PICK x \in S : TRUE
      OBVIOUS
    <2>2. PICK k \in 1..n : o[k] = x
      BY <1>2
    <2>3. n \in Nat /\ k \in 1..n
      BY <1>2, <2>2
    <2> QED
      BY <2>3
  <1>4. ASSUME NEW x \in S
        PROVE  x <= o[n]
    <2>1. PICK k \in 1..n : o[k] = x
      BY <1>2
    <2>2. x \in Nat /\ o[n] \in Nat /\ (k = n \/ k < n)
      <3>1. n \in Nat /\ k \in 1..n
        BY <1>2, <2>1
      <3>2. k = n \/ k < n
        BY <3>1
      <3> QED
        BY <1>2, <1>3, <3>2
    <2> QED
      BY <1>2, <1>3, <2>1, <2>2
  <1> QED
    BY <1>2, <1>3, <1>4

\* Finitely many places have a greatest number in them.
LEMMA GreatestImage ==
    ASSUME NEW S, IsFiniteSet(S), S # {}, NEW f, \A x \in S : f[x] \in Nat
    PROVE  \E x \in S : \A y \in S : f[y] <= f[x]
  <1>1. PICK T : T = {f[x] : x \in S}
    OBVIOUS
  <1>2. T \subseteq Nat /\ T # {} /\ (\A x \in S : f[x] \in T) /\ \A t \in T : \E x \in S : f[x] = t
    BY <1>1
  <1>3. PICK g : g = [x \in S |-> f[x]]
    OBVIOUS
  <1>4. g \in Surjection(S, T)
    BY <1>2, <1>3 DEF Surjection
  <1>5. IsFiniteSet(T)
    BY <1>4, FS_Surjection
  <1>6. PICK m \in T : \A t \in T : t <= m
    BY <1>2, <1>5, GreatestNumber
  <1>7. PICK x \in S : f[x] = m
    BY <1>2, <1>6
  <1> QED
    BY <1>2, <1>6, <1>7

\* The places of a sequence are numbers, finitely many of them.
LEMMA PlacesOf ==
    ASSUME NEW T, NEW s \in Seq(T), NEW P, P \subseteq DOMAIN s
    PROVE  /\ P \subseteq Nat /\ IsFiniteSet(P) /\ Len(s) \in Nat /\ DOMAIN s = 1..Len(s)
           /\ \A i \in P : i \in 1..Len(s) /\ s[i] \in T
  <1>1. Len(s) \in Nat /\ DOMAIN s = 1..Len(s) /\ \A i \in DOMAIN s : s[i] \in T
    OBVIOUS
  <1>2. IsFiniteSet(1..Len(s))
    BY <1>1, FS_Interval
  <1>3. IsFiniteSet(P)
    BY <1>1, <1>2, FS_Subset
  <1> QED
    BY <1>1, <1>3

\* What is picked are the items in the places given, in their order.
LEMMA PickedItems ==
    ASSUME NEW T, NEW s \in Seq(T), NEW P, P \subseteq DOMAIN s
    PROVE  /\ Picked(s, P) \in Seq(T) /\ Len(Picked(s, P)) = Cardinality(P)
           /\ Cardinality(P) \in Nat /\ DOMAIN Picked(s, P) = 1..Cardinality(P)
           /\ \A k \in 1..Cardinality(P) :
                Ascending(P)[k] \in P /\ Picked(s, P)[k] = s[Ascending(P)[k]]
           /\ \A i \in P : \E k \in 1..Cardinality(P) : Picked(s, P)[k] = s[i]
  <1>1. P \subseteq Nat /\ IsFiniteSet(P) /\ \A i \in P : s[i] \in T
    BY PlacesOf
  <1>2. PICK o : o = Ascending(P)
    OBVIOUS
  <1>3. PICK n \in Nat : n = Cardinality(P)
    BY <1>1, FS_CardinalityType
  <1>4. /\ DOMAIN o = 1..n /\ \A k \in 1..n : o[k] \in P
        /\ \A i \in P : \E k \in 1..n : o[k] = i
    BY <1>1, <1>2, <1>3, Increasing
  <1>5. PICK p : p = [k \in DOMAIN o |-> s[o[k]]]
    OBVIOUS
  <1>6. Picked(s, P) = p
    BY <1>2, <1>5 DEF Picked
  <1>7. DOMAIN p = 1..n /\ \A k \in 1..n : p[k] = s[o[k]] /\ p[k] \in T
    BY <1>1, <1>4, <1>5
  <1>8. p \in [1..n -> T]
    BY <1>4, <1>5, <1>7
  <1>9. p \in Seq(T) /\ Len(p) = n
    BY <1>3, <1>8
  <1>10. ASSUME NEW i \in P
         PROVE  \E k \in 1..n : p[k] = s[i]
    BY <1>4, <1>7
  <1> QED
    BY <1>2, <1>3, <1>4, <1>6, <1>7, <1>9, <1>10

\* Sequences joined hold the items of all, and nothing else.
LEMMA JoinedItems ==
    ASSUME NEW T, NEW seqs \in Seq(Seq(T))
    PROVE  /\ Joined(seqs) \in Seq(T)
           /\ \A k \in DOMAIN Joined(seqs) : \E n \in DOMAIN seqs : \E i \in DOMAIN seqs[n] :
                Joined(seqs)[k] = seqs[n][i]
           /\ \A n \in DOMAIN seqs : \A i \in DOMAIN seqs[n] : \E k \in DOMAIN Joined(seqs) :
                Joined(seqs)[k] = seqs[n][i]
  <1>1. PICK part : part = [n \in DOMAIN seqs |-> {n} \X DOMAIN seqs[n]]
    OBVIOUS
  <1>2. PICK places : places = UNION {{n} \X DOMAIN seqs[n] : n \in DOMAIN seqs}
    OBVIOUS
  <1>3. /\ DOMAIN seqs \subseteq Nat /\ IsFiniteSet(DOMAIN seqs)
        /\ \A n \in DOMAIN seqs : seqs[n] \in Seq(T)
    BY PlacesOf
  <1>4. \A n \in DOMAIN seqs :
            /\ DOMAIN seqs[n] \subseteq Nat /\ IsFiniteSet(DOMAIN seqs[n])
            /\ \A i \in DOMAIN seqs[n] : seqs[n][i] \in T
    BY <1>3, PlacesOf
  <1>5. IsFiniteSet(places)
    <2>1. PICK S : S = {{n} \X DOMAIN seqs[n] : n \in DOMAIN seqs}
      OBVIOUS
    <2>2. \A n \in DOMAIN seqs : IsFiniteSet({n} \X DOMAIN seqs[n])
      <3> SUFFICES ASSUME NEW n \in DOMAIN seqs PROVE IsFiniteSet({n} \X DOMAIN seqs[n])
        OBVIOUS
      <3>1. IsFiniteSet({n}) /\ IsFiniteSet(DOMAIN seqs[n])
        BY <1>4, FS_Singleton
      <3> QED
        BY <3>1, FS_Product
    <2>3. part \in Surjection(DOMAIN seqs, S)
      <3>1. part \in [DOMAIN seqs -> S]
        BY <1>1, <2>1
      <3>2. \A t \in S : \E n \in DOMAIN seqs : part[n] = t
        BY <1>1, <2>1
      <3> QED
        BY <3>1, <3>2 DEF Surjection
    <2>4. IsFiniteSet(S)
      BY <1>3, <2>3, FS_Surjection
    <2>5. \A t \in S : IsFiniteSet(t)
      BY <2>1, <2>2
    <2> QED
      BY <1>2, <2>1, <2>4, <2>5, FS_UNION
  <1>6. PICK R : R = {p \in places \X places : \/ p[1][1] < p[2][1]
                                               \/ p[1][1] = p[2][1] /\ p[1][2] < p[2][2]}
    OBVIOUS
  <1>7. \A x \in places : /\ x[1] \in DOMAIN seqs /\ x[2] \in DOMAIN seqs[x[1]]
                          /\ x[1] \in Nat /\ x[2] \in Nat /\ x = <<x[1], x[2]>>
    BY <1>2, <1>3, <1>4
  <1>8. \A x, y \in places :
           <<x, y>> \in R <=> x[1] < y[1] \/ (x[1] = y[1] /\ x[2] < y[2])
    BY <1>6
  <1>9. OrderOf(R, places)
    <2>1. PICK f : f = [x \in places |-> x[1]]
      OBVIOUS
    <2>2. PICK g : g = [x \in places |-> x[2]]
      OBVIOUS
    <2>3. \A x \in places : f[x] \in Nat /\ g[x] \in Nat
      BY <1>7, <2>1, <2>2
    <2>4. \A x, y \in places : <<x, y>> \in R <=> f[x] < f[y] \/ (f[x] = f[y] /\ g[x] < g[y])
      BY <1>8, <2>1, <2>2
    <2>5. \A x, y \in places : f[x] = f[y] /\ g[x] = g[y] => x = y
      <3>1. \A x \in places : x = <<f[x], g[x]>>
        BY <1>7, <2>1, <2>2
      <3> QED
        BY <3>1
    <2>6. ASSUME NEW x \in places
          PROVE  <<x, x>> \notin R
      <3>1. f[x] \in Nat /\ g[x] \in Nat
        BY <2>3
      <3> QED
        BY <2>4, <3>1
    <2>7. ASSUME NEW x \in places, NEW y \in places, NEW z \in places,
                 <<x, y>> \in R, <<y, z>> \in R
          PROVE  <<x, z>> \in R
      <3>1. /\ f[x] \in Nat /\ g[x] \in Nat /\ f[y] \in Nat /\ g[y] \in Nat
            /\ f[z] \in Nat /\ g[z] \in Nat
        BY <2>3
      <3>2. /\ f[x] < f[y] \/ (f[x] = f[y] /\ g[x] < g[y])
            /\ f[y] < f[z] \/ (f[y] = f[z] /\ g[y] < g[z])
        BY <2>4, <2>7
      <3>3. f[x] < f[z] \/ (f[x] = f[z] /\ g[x] < g[z])
        BY <3>1, <3>2
      <3> QED
        BY <2>4, <3>3
    <2>8. ASSUME NEW x \in places, NEW y \in places, x # y
          PROVE  <<x, y>> \in R \/ <<y, x>> \in R
      <3>1. f[x] \in Nat /\ g[x] \in Nat /\ f[y] \in Nat /\ g[y] \in Nat
        BY <2>3
      <3>2. f[x] # f[y] \/ g[x] # g[y]
        BY <2>5, <2>8
      <3> QED
        BY <2>4, <3>1, <3>2
    <2> QED
      BY <2>6, <2>7, <2>8 DEF OrderOf
  <1>10. PICK o : o = InOrder(places, R)
    OBVIOUS
  <1>11. PICK m \in Nat : m = Cardinality(places)
    BY <1>5, FS_CardinalityType
  <1>12. /\ DOMAIN o = 1..m /\ \A k \in 1..m : o[k] \in places
         /\ \A x \in places : \E k \in 1..m : o[k] = x
    <2>1. InPlaces(places, R, o)
      BY <1>5, <1>9, <1>10, Placed
    <2> QED
      BY <1>11, <2>1 DEF InPlaces
  <1>13. PICK j : j = [k \in DOMAIN o |-> seqs[o[k][1]][o[k][2]]]
    OBVIOUS
  <1>14. Joined(seqs) = j
    BY <1>2, <1>6, <1>10, <1>13 DEF Joined
  <1>15. \A k \in 1..m : j[k] = seqs[o[k][1]][o[k][2]] /\ j[k] \in T
    BY <1>4, <1>7, <1>12, <1>13
  <1>16. j \in [1..m -> T]
    BY <1>12, <1>13, <1>15
  <1>17. j \in Seq(T) /\ DOMAIN j = 1..m
    BY <1>11, <1>16
  <1>18. ASSUME NEW k \in DOMAIN j
         PROVE  \E n \in DOMAIN seqs : \E i \in DOMAIN seqs[n] : j[k] = seqs[n][i]
    BY <1>7, <1>12, <1>15, <1>17
  <1>19. ASSUME NEW n \in DOMAIN seqs, NEW i \in DOMAIN seqs[n]
         PROVE  \E k \in DOMAIN j : j[k] = seqs[n][i]
    <2>1. <<n, i>> \in places
      BY <1>2
    <2>2. PICK k \in 1..m : o[k] = <<n, i>>
      BY <1>12, <2>1
    <2>3. j[k] = seqs[n][i]
      BY <1>15, <2>2
    <2> QED
      BY <1>17, <2>3
  <1> QED
    BY <1>14, <1>17, <1>18, <1>19
=============================================================================
