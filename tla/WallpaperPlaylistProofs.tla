------------------------ MODULE WallpaperPlaylistProofs ------------------------
(***************************************************************************)
(* The order of the sleep pictures keeps its shape, a trim takes the       *)
(* oldest, and a paused rotation keeps its picture, for every set of       *)
(* pictures and any limits.  The inductive invariant joins what the order  *)
(* file, the folders and APP_STATE must be for one another: the cursor at  *)
(* the beginning of an entry (OrderInv), a file to choose wherever one is  *)
(* chosen (PickInv), and a reference that finds the picture on the screen  *)
(* (ScreenInv).                                                            *)
(***************************************************************************)
EXTENDS WallpaperPlaylist, FiniteSetTheorems, SequenceTheorems, TLAPS

-----------------------------------------------------------------------------
(* Naturals in their order.                                                *)

\* The members of S below i, and the number i has among them.
Below(S, i) == {j \in S : j < i}
Rank(S) == [i \in S |-> Cardinality(Below(S, i)) + 1]

\* Counting what lies below numbers a finite set through from 1, in its order.
LEMMA Ranks ==
    ASSUME NEW S \in SUBSET Nat, IsFiniteSet(S)
    PROVE  /\ \A i \in S : Cardinality(Below(S, i)) \in Nat
           /\ \A i, j \in S : i < j => Cardinality(Below(S, i)) < Cardinality(Below(S, j))
           /\ \A i \in S : Cardinality(Below(S, i)) < Cardinality(S)
           /\ \A k \in 1 .. Cardinality(S) :
                \E i \in S : Cardinality(Below(S, i)) = k - 1
<1>1. Cardinality(S) \in Nat
      BY FS_CardinalityType
<1>2. \A i : IsFiniteSet(Below(S, i)) /\ Cardinality(Below(S, i)) \in Nat
  <2>1. \A i : Below(S, i) \subseteq S
        BY DEF Below
  <2> QED BY <2>1, FS_Subset, FS_CardinalityType
<1>3. ASSUME NEW i \in S, NEW U \in SUBSET S, IsFiniteSet(U), Below(S, i) \cup {i} \subseteq U
      PROVE  Cardinality(Below(S, i)) < Cardinality(U)
  <2>1. i \notin Below(S, i)
        BY DEF Below
  <2>2. Cardinality(Below(S, i) \cup {i}) = Cardinality(Below(S, i)) + 1
        BY <1>2, <2>1, FS_AddElement
  <2>3. Cardinality(Below(S, i) \cup {i}) <= Cardinality(U)
        BY <1>3, FS_Subset
  <2>4. Cardinality(U) \in Nat
        BY <1>3, FS_CardinalityType
  <2> QED BY <1>2, <2>2, <2>3, <2>4
<1>4. ASSUME NEW i \in S, NEW j \in S, i < j
      PROVE  Cardinality(Below(S, i)) < Cardinality(Below(S, j))
  <2>1. \A k \in S : k \in Nat
        OBVIOUS
  <2>2. \A x, y \in S : x \in Below(S, y) <=> x < y
        BY DEF Below
  <2>3. Below(S, i) \subseteq S /\ Below(S, j) \subseteq S
        BY DEF Below
  <2>4. ASSUME NEW x \in Below(S, i) PROVE x \in Below(S, j)
    <3>1. x \in S /\ x < i
          BY <2>2, <2>3
    <3>2. x \in Nat /\ i \in Nat /\ j \in Nat
          BY <2>1, <3>1
    <3>3. x < j
          BY <1>4, <3>1, <3>2
    <3> QED BY <2>2, <3>1, <3>3
  <2>5. i \in Below(S, j)
        BY <1>4, <2>2
  <2>6. Below(S, i) \cup {i} \subseteq Below(S, j)
        BY <2>4, <2>5
  <2> QED BY <1>2, <1>3, <2>3, <2>6
<1>5. ASSUME NEW i \in S
      PROVE  Cardinality(Below(S, i)) < Cardinality(S)
  <2>1. Below(S, i) \cup {i} \subseteq S
        BY DEF Below
  <2> QED BY <1>3, <2>1
<1>6. Rank(S) \in Injection(S, 1 .. Cardinality(S))
  <2>1. Rank(S) \in [S -> 1 .. Cardinality(S)]
        BY <1>1, <1>2, <1>5 DEF Rank
  <2>2. ASSUME NEW i \in S, NEW j \in S, Rank(S)[i] = Rank(S)[j], i # j
        PROVE  FALSE
    <3>1. Cardinality(Below(S, i)) = Cardinality(Below(S, j))
          BY <1>2, <2>2 DEF Rank
    <3>2. i < j \/ j < i
          BY <2>2
    <3> QED BY <1>2, <1>4, <3>1, <3>2
  <2> QED BY <2>1, <2>2, Zenon DEF Injection, IsInjective
<1>7. Rank(S) \in Surjection(S, 1 .. Cardinality(S))
  <2>1. IsFiniteSet(1 .. Cardinality(S))
        BY <1>1, FS_Interval
  <2>2. Cardinality(1 .. Cardinality(S)) = Cardinality(S)
        BY <1>1, FS_Interval
  <2> QED BY <1>6, <2>1, <2>2, FS_Injection
<1>8. ASSUME NEW k \in 1 .. Cardinality(S)
      PROVE  \E i \in S : Cardinality(Below(S, i)) = k - 1
  <2>1. PICK i \in S : Rank(S)[i] = k
        BY <1>7 DEF Surjection
  <2>2. Cardinality(Below(S, i)) + 1 = k
        BY <2>1 DEF Rank
  <2> QED BY <1>2, <2>2
<1> QED BY <1>2, <1>4, <1>5, <1>8

\* A nonempty set of naturals has a least element, and Min returns it.
LEMMA MinOfNats ==
    ASSUME NEW S \in SUBSET Nat, S # {}
    PROVE  Min(S) \in S /\ \A y \in S : Min(S) <= y
<1>1. PICK x \in S : TRUE
      OBVIOUS
<1> DEFINE U == S \cap (0 .. x)
<1>2. U \in SUBSET Nat /\ IsFiniteSet(U)
  <2>1. IsFiniteSet(0 .. x)
        BY <1>1, FS_Interval
  <2> QED BY <2>1, FS_Subset
<1>3. x \in U /\ \A y \in S : y \notin U => x < y
      BY <1>1
<1>4. \A y \in U : y \in S /\ y <= x
      OBVIOUS
<1> HIDE DEF U
<1>5. Cardinality(U) \in Nat /\ Cardinality(U) # 0
      BY <1>2, <1>3, FS_CardinalityType, FS_EmptySet
<1>6. PICK i \in U : Cardinality(Below(U, i)) = 1 - 1
  <2>1. 1 \in 1 .. Cardinality(U)
        BY <1>5
  <2> QED BY <1>2, <2>1, Ranks
<1>7. IsFiniteSet(Below(U, i)) /\ Cardinality(Below(U, i)) = 0
  <2>1. Below(U, i) \subseteq U
        BY DEF Below
  <2> QED BY <1>2, <1>6, <2>1, FS_Subset
<1>8. Below(U, i) = {}
      BY <1>7, FS_EmptySet
<1>9. \A y \in S : i <= y
  <2>1. \A y \in U : i <= y
        BY <1>2, <1>8 DEF Below
  <2> QED BY <1>2, <1>3, <1>4, <2>1
<1> QED BY <1>4, <1>9, Zenon DEF Min

-----------------------------------------------------------------------------
(* Sequences and the sets of their elements.                               *)

\* A set of positions in a sequence is finite.
LEMMA SubsetOfInterval ==
    ASSUME NEW n \in Nat, NEW S \in SUBSET (1 .. n)
    PROVE  IsFiniteSet(S) /\ Cardinality(S) \in Nat
<1>1. IsFiniteSet(1 .. n)
      BY FS_Interval
<1>2. IsFiniteSet(S)
      BY <1>1, FS_Subset
<1> QED BY <1>2, FS_CardinalityType

\* The elements of a sequence are as many as it is long, if it repeats none.
LEMMA ToSetCounts ==
    ASSUME NEW T, NEW s \in Seq(T)
    PROVE  /\ ToSet(s) \subseteq T /\ IsFiniteSet(ToSet(s))
           /\ Cardinality(ToSet(s)) \in Nat
           /\ IsInjective(s) => Cardinality(ToSet(s)) = Len(s)
<1>1. s \in [1 .. Len(s) -> T] /\ Len(s) \in Nat /\ DOMAIN s = 1 .. Len(s)
      OBVIOUS
<1>2. IsFiniteSet(1 .. Len(s)) /\ Cardinality(1 .. Len(s)) = Len(s)
  <2>1. 1 \in Int /\ Len(s) \in Int
        BY <1>1
  <2>2. /\ IsFiniteSet(1 .. Len(s))
        /\ Cardinality(1 .. Len(s)) = IF 1 > Len(s) THEN 0 ELSE Len(s) - 1 + 1
        BY <2>1, FS_Interval
  <2> QED BY <1>1, <2>2
<1>3. s \in Surjection(1 .. Len(s), ToSet(s))
      BY <1>1 DEF Surjection, ToSet
<1>4. /\ IsFiniteSet(ToSet(s))
      /\ Cardinality(ToSet(s)) = Cardinality(1 .. Len(s))
           <=> s \in Injection(1 .. Len(s), ToSet(s))
      BY <1>2, <1>3, FS_Surjection
<1>5. IsInjective(s) => s \in Injection(1 .. Len(s), ToSet(s))
      BY <1>1, <1>3 DEF Injection, Surjection
<1>6. ToSet(s) \subseteq T
      BY <1>1 DEF ToSet
<1> QED BY <1>2, <1>4, <1>5, <1>6, FS_CardinalityType

\* Entry k of those to keep stood at place[k].
KeptFrom(names, S, n, place) ==
    /\ place \in [1 .. n -> DOMAIN names]
    /\ Kept(names, S) = [k \in 1 .. n |-> names[place[k]]]
    /\ \A k, m \in 1 .. n : k < m => place[k] < place[m]
    /\ \A i \in DOMAIN names : names[i] \in S <=> \E k \in 1 .. n : i = place[k]

\* Kept takes the elements of S from their places, in their order.
LEMMA KeptIndex ==
    ASSUME NEW T, NEW names \in Seq(T), NEW S
    PROVE  \E n \in Nat : \E place : KeptFrom(names, S, n, place)
<1> DEFINE at == {i \in DOMAIN names : names[i] \in S}
           n == Cardinality(at)
           place == [k \in 1 .. n |-> CHOOSE i \in at : Cardinality(Below(at, i)) = k - 1]
<1>1. DOMAIN names = 1 .. Len(names) /\ Len(names) \in Nat
      OBVIOUS
<1>2. at \in SUBSET (1 .. Len(names))
      BY <1>1
<1>3. at \in SUBSET Nat /\ IsFiniteSet(at) /\ n \in Nat
  <2>1. at \in SUBSET Nat
        BY <1>1
  <2> HIDE DEF at
  <2>2. IsFiniteSet(at) /\ Cardinality(at) \in Nat
        BY <1>1, <1>2, SubsetOfInterval
  <2> QED BY <2>1, <2>2
<1>4. Kept(names, S) = [k \in 1 .. n |-> names[place[k]]]
  <2>1. \A k \in 1 .. n : place[k] = CHOOSE i \in at : Cardinality(Below(at, i)) = k - 1
        OBVIOUS
  <2> QED BY <2>1 DEF Kept, Below
<1>5. \A i \in DOMAIN names : i \in at <=> names[i] \in S
      OBVIOUS
<1>6. at \subseteq DOMAIN names
      OBVIOUS
<1> HIDE DEF at
<1>7. \A k \in 1 .. n : place[k] \in at /\ Cardinality(Below(at, place[k])) = k - 1
  <2>1. SUFFICES ASSUME NEW k \in 1 .. n
                 PROVE  place[k] \in at /\ Cardinality(Below(at, place[k])) = k - 1
        OBVIOUS
  <2>2. \E i \in at : Cardinality(Below(at, i)) = k - 1
        BY <1>3, Ranks
  <2> QED BY <2>2
<1>8. place \in [1 .. n -> DOMAIN names]
  <2>1. place = [k \in 1 .. n |-> place[k]]
        OBVIOUS
  <2> HIDE DEF place, n
  <2> QED BY <1>6, <1>7, <2>1
<1> HIDE DEF place
<1>9. ASSUME NEW k \in 1 .. n, NEW m \in 1 .. n, k < m
      PROVE  place[k] < place[m]
  <2>1. place[k] \in at /\ place[m] \in at
        BY <1>7
  <2>2. Cardinality(Below(at, place[k])) < Cardinality(Below(at, place[m]))
        BY <1>3, <1>7, <1>9
  <2>3. ~(place[m] < place[k]) /\ place[k] # place[m]
    <3>1. /\ Cardinality(Below(at, place[k])) \in Nat
          /\ Cardinality(Below(at, place[m])) \in Nat
          BY <1>3, <2>1, Ranks
    <3>2. place[m] < place[k] =>
              Cardinality(Below(at, place[m])) < Cardinality(Below(at, place[k]))
          BY <1>3, <2>1, Ranks
    <3> QED BY <2>2, <3>1, <3>2
  <2>4. place[k] \in Nat /\ place[m] \in Nat
        BY <1>3, <2>1
  <2> QED BY <2>3, <2>4
<1>10. ASSUME NEW i \in at
       PROVE  \E k \in 1 .. n : i = place[k]
  <2> DEFINE k == Cardinality(Below(at, i)) + 1
  <2>1. Cardinality(Below(at, i)) \in Nat /\ Cardinality(Below(at, i)) < n
        BY <1>3, <1>10, Ranks
  <2>2. k \in 1 .. n
        BY <1>3, <2>1
  <2>3. place[k] \in at /\ Cardinality(Below(at, place[k])) = Cardinality(Below(at, i))
        BY <1>7, <2>1, <2>2
  <2> HIDE DEF k
  <2>4. ~(i < place[k]) /\ ~(place[k] < i)
    <3>1. \A x, y \in at : x < y => Cardinality(Below(at, x)) < Cardinality(Below(at, y))
          BY <1>3, Ranks
    <3> QED BY <1>10, <2>1, <2>3, <3>1
  <2>5. i \in Nat /\ place[k] \in Nat
        BY <1>3, <1>10, <2>3
  <2> QED BY <2>2, <2>4, <2>5
<1>11. \A i \in DOMAIN names : names[i] \in S <=> \E k \in 1 .. n : i = place[k]
  <2> HIDE DEF n
  <2> QED BY <1>5, <1>7, <1>10
<1>12. KeptFrom(names, S, n, place)
  <2> HIDE DEF n
  <2> QED BY <1>4, <1>8, <1>9, <1>11 DEF KeptFrom
<1> QED BY <1>3, <1>12

\* Kept leaves a sequence whose elements are the ones to keep.
LEMMA KeptSet ==
    ASSUME NEW T, NEW names \in Seq(T), NEW S
    PROVE  /\ Kept(names, S) \in Seq(T)
           /\ ToSet(Kept(names, S)) = ToSet(names) \cap S
           /\ IsInjective(names) => IsInjective(Kept(names, S))
<1>1. PICK n \in Nat : \E place : KeptFrom(names, S, n, place)
      BY KeptIndex
<1>2. PICK place : KeptFrom(names, S, n, place)
      BY <1>1
<1>3. /\ place \in [1 .. n -> DOMAIN names]
      /\ Kept(names, S) = [k \in 1 .. n |-> names[place[k]]]
      /\ \A k, m \in 1 .. n : k < m => place[k] < place[m]
      /\ \A i \in DOMAIN names : names[i] \in S <=> \E k \in 1 .. n : i = place[k]
      BY <1>2 DEF KeptFrom
<1>4. DOMAIN names = 1 .. Len(names) /\ \A i \in DOMAIN names : names[i] \in T
      OBVIOUS
<1>5. Kept(names, S) \in Seq(T)
      BY <1>3, <1>4
<1>6. DOMAIN Kept(names, S) = 1 .. n
      BY <1>3
<1>7. ToSet(Kept(names, S)) = ToSet(names) \cap S
  <2>1. ASSUME NEW x \in ToSet(Kept(names, S)) PROVE x \in ToSet(names) \cap S
    <3>1. PICK k \in 1 .. n : x = names[place[k]]
          BY <1>3, <1>6, <2>1 DEF ToSet
    <3>2. place[k] \in DOMAIN names /\ names[place[k]] \in S
          BY <1>3
    <3> QED BY <3>1, <3>2 DEF ToSet
  <2>2. ASSUME NEW x \in ToSet(names) \cap S PROVE x \in ToSet(Kept(names, S))
    <3>1. PICK i \in DOMAIN names : x = names[i]
          BY <2>2 DEF ToSet
    <3>2. PICK k \in 1 .. n : i = place[k]
          BY <1>3, <2>2, <3>1
    <3>3. Kept(names, S)[k] = x
          BY <1>3, <3>1, <3>2
    <3> QED BY <1>6, <3>3 DEF ToSet
  <2> QED BY <2>1, <2>2
<1>8. ASSUME IsInjective(names), NEW k \in 1 .. n, NEW m \in 1 .. n,
             Kept(names, S)[k] = Kept(names, S)[m]
      PROVE  k = m
  <2>1. place[k] = place[m] /\ place[k] \in Nat
        BY <1>3, <1>4, <1>8 DEF IsInjective
  <2> QED BY <1>3, <2>1
<1> QED BY <1>5, <1>6, <1>7, <1>8 DEF IsInjective

\* The same for what is left without some.
LEMMA WithoutSet ==
    ASSUME NEW T, NEW names \in Seq(T), NEW S
    PROVE  /\ Without(names, S) \in Seq(T)
           /\ ToSet(Without(names, S)) = ToSet(names) \ S
           /\ IsInjective(names) => IsInjective(Without(names, S))
<1>1. /\ Without(names, S) \in Seq(T)
      /\ ToSet(Without(names, S)) = ToSet(names) \cap (ToSet(names) \ S)
      /\ IsInjective(names) => IsInjective(Without(names, S))
      BY KeptSet DEF Without
<1> QED BY <1>1

-----------------------------------------------------------------------------
(* The order and its cursor.                                               *)

\* An entry begins further on than every entry before it.
LEMMA StartGrows ==
    ASSUME NEW names, NEW i \in Nat \ {0}, NEW j \in Nat \ {0}
    PROVE  /\ Start(names, i) \in Nat
           /\ i < j => Start(names, i) < Start(names, j)
<1> DEFINE F(k) == {m \in 1 .. (k - 1) : names[m].fav}
<1>1. \A k \in Nat \ {0} : IsFiniteSet(F(k)) /\ Cardinality(F(k)) \in Nat
  <2>1. SUFFICES ASSUME NEW k \in Nat \ {0}
                 PROVE  IsFiniteSet(F(k)) /\ Cardinality(F(k)) \in Nat
        OBVIOUS
  <2>2. k - 1 \in Nat /\ F(k) \in SUBSET (1 .. (k - 1))
        OBVIOUS
  <2> QED BY <2>2, SubsetOfInterval
<1>2. ASSUME i < j PROVE Cardinality(F(i)) <= Cardinality(F(j))
  <2>1. F(i) \subseteq F(j)
        BY <1>2
  <2> QED BY <1>1, <2>1, FS_Subset
<1>3. /\ Start(names, i) = (i - 1) + Cardinality(F(i))
      /\ Start(names, j) = (j - 1) + Cardinality(F(j))
      BY DEF Start
<1> HIDE DEF F
<1> QED BY <1>1, <1>2, <1>3

\* The first entry begins at offset 0.
LEMMA StartOfFirst ==
    ASSUME NEW names
    PROVE  Start(names, 1) = 0
<1>1. {j \in 1 .. (1 - 1) : names[j].fav} = {}
      OBVIOUS
<1> QED BY <1>1, FS_EmptySet DEF Start

\* An order repeats no name, and its cursor stands where an entry begins.
IsOrder(b) ==
    /\ b = [names |-> b.names, cursor |-> b.cursor]
    /\ b.names \in Seq(Names) /\ IsInjective(b.names)
    /\ \E i \in 1 .. (Len(b.names) + 1) : b.cursor = Start(b.names, i)

\* The entry an order's cursor stands on begins where the cursor stands.
LEMMA CursorFindsEntry ==
    ASSUME NEW b, IsOrder(b)
    PROVE  /\ EntryAt(b) \in 1 .. (Len(b.names) + 1)
           /\ b.cursor = Start(b.names, EntryAt(b))
<1>1. b.names \in Seq(Names) /\ Len(b.names) \in Nat
      BY DEF IsOrder
<1>2. PICK i \in 1 .. (Len(b.names) + 1) : b.cursor = Start(b.names, i)
      BY DEF IsOrder
<1> DEFINE In(k) == /\ Start(b.names, k) <= b.cursor
                    /\ k <= Len(b.names) => b.cursor < Start(b.names, k + 1)
           e == EntryAt(b)
<1>3. \A k \in 1 .. (Len(b.names) + 1) :
        k \in Nat \ {0} /\ k + 1 \in Nat \ {0} /\ Start(b.names, k) \in Nat
      BY <1>1, StartGrows
<1>4. i \in Nat \ {0} /\ i + 1 \in Nat \ {0} /\ i < i + 1
      BY <1>3
<1>5. Start(b.names, i) < Start(b.names, i + 1) /\ Start(b.names, i) \in Nat
      BY <1>4, StartGrows
<1>6. In(i)
      BY <1>2, <1>5
<1>7. e = CHOOSE k \in 1 .. (Len(b.names) + 1) : In(k)
      BY DEF EntryAt
<1> HIDE DEF e
<1>8. e \in 1 .. (Len(b.names) + 1) /\ In(e)
      BY <1>6, <1>7
<1>9. ~(e < i)
  <2>1. ASSUME e < i PROVE FALSE
    <3>1. e <= Len(b.names) /\ e + 1 <= i
          BY <1>1, <1>3, <1>4, <1>8, <2>1
    <3>2. b.cursor < Start(b.names, e + 1)
          BY <1>8, <3>1
    <3>3. Start(b.names, e + 1) <= Start(b.names, i)
      <4>1. CASE e + 1 = i
            BY <1>5, <4>1
      <4>2. CASE e + 1 < i
            BY <1>3, <1>4, <1>8, <4>2, StartGrows
      <4> QED BY <1>3, <1>4, <1>8, <3>1, <4>1, <4>2
    <3>4. Start(b.names, e + 1) \in Nat
          BY <1>3, <1>8, StartGrows
    <3> QED BY <1>2, <1>5, <3>2, <3>3, <3>4
  <2> QED BY <2>1
<1>10. ~(i < e)
  <2>1. ASSUME i < e PROVE FALSE
    <3>1. Start(b.names, i) < Start(b.names, e) /\ Start(b.names, e) \in Nat
          BY <1>3, <1>4, <1>8, <2>1, StartGrows
    <3>2. Start(b.names, e) <= Start(b.names, i)
          BY <1>2, <1>8
    <3> QED BY <1>5, <3>1, <3>2
  <2> QED BY <2>1
<1>11. e = i
      BY <1>3, <1>4, <1>8, <1>9, <1>10
<1> QED BY <1>2, <1>11 DEF e

\* Names without repetition and the beginning of an entry make an order.
LEMMA OrderAt ==
    ASSUME NEW names \in Seq(Names), IsInjective(names),
           NEW i \in 1 .. (Len(names) + 1)
    PROVE  IsOrder([names |-> names, cursor |-> Start(names, i)])
BY DEF IsOrder

\* A cursor of 0 fits any names.
LEMMA OrderFromStart ==
    ASSUME NEW names \in Seq(Names), IsInjective(names)
    PROVE  IsOrder([names |-> names, cursor |-> 0])
<1>1. Len(names) \in Nat /\ 1 \in 1 .. (Len(names) + 1)
      OBVIOUS
<1> QED BY <1>1, OrderAt, StartOfFirst

\* No names at all make an order.
LEMMA EmptiedIsOrder == IsOrder(Emptied)
<1>1. <<>> \in Seq(Names) /\ IsInjective(<<>>)
      BY DEF IsInjective
<1> QED BY <1>1, OrderFromStart DEF Emptied

\* An order is not the mark of a playlist that was not loaded.
LEMMA OrderIsLoaded ==
    ASSUME NEW b, IsOrder(b)
    PROVE  b # NotLoaded
<1>1. b.cursor \in Nat
  <2>1. Len(b.names) \in Nat
        BY DEF IsOrder
  <2>2. PICK i \in 1 .. (Len(b.names) + 1) : b.cursor = Start(b.names, i)
        BY DEF IsOrder
  <2> QED BY <2>1, <2>2, StartGrows
<1> QED BY <1>1 DEF NotLoaded

\* advance() wraps around within the list.
LEMMA RemainderBelow ==
    ASSUME NEW m \in Nat, NEW n \in Nat, n # 0
    PROVE  m % n \in 0 .. (n - 1)
OBVIOUS

\* A turn of advance() looks at an entry, and leaves an order behind it.
LEMMA TurnOfOrder ==
    ASSUME NEW b, IsOrder(b), b.names # <<>>, NEW k \in Nat
    PROVE  /\ Turn(b, k) \in 1 .. Len(b.names)
           /\ IsOrder(Passed(b, k))
           /\ IsOrder([b EXCEPT !.cursor = 0])
<1>1. /\ b.names \in Seq(Names) /\ IsInjective(b.names)
      /\ b = [names |-> b.names, cursor |-> b.cursor]
      BY DEF IsOrder
<1>2. Len(b.names) \in Nat /\ Len(b.names) # 0
      BY <1>1
<1>3. EntryAt(b) \in 1 .. (Len(b.names) + 1)
      BY CursorFindsEntry
<1> DEFINE m == EntryAt(b) - 1 + k
<1>4. m \in Nat
      BY <1>2, <1>3
<1>5. Turn(b, k) = (m % Len(b.names)) + 1
      BY DEF Turn
<1> HIDE DEF m
<1>6. m % Len(b.names) \in 0 .. (Len(b.names) - 1)
      BY <1>2, <1>4, RemainderBelow
<1>7. Turn(b, k) \in 1 .. Len(b.names)
      BY <1>2, <1>5, <1>6
<1>8. Turn(b, k) + 1 \in 1 .. (Len(b.names) + 1)
      BY <1>2, <1>7
<1>9. Passed(b, k) = [names |-> b.names, cursor |-> Start(b.names, Turn(b, k) + 1)]
      BY <1>1 DEF Passed
<1>10. [b EXCEPT !.cursor = 0] = [names |-> b.names, cursor |-> 0]
      BY <1>1
<1> QED BY <1>1, <1>7, <1>8, <1>9, <1>10, OrderAt, OrderFromStart

-----------------------------------------------------------------------------
(* Orders that are built and changed.                                      *)

\* The names of RenameInBuffer.
CopyRenamed(names, batch, mayGrow) ==
    [i \in DOMAIN names |->
        IF Counterpart(names[i]) \in batch /\ (mayGrow \/ names[i].fav)
          THEN Counterpart(names[i]) ELSE names[i]]

\* The two names of a picture are different, and each the other's counterpart.
LEMMA CounterpartOfName ==
    ASSUME NEW n \in Names
    PROVE  /\ Counterpart(n) \in Names /\ Counterpart(n).img = n.img
           /\ Counterpart(n) # n /\ Counterpart(Counterpart(n)) = n
BY DEF Names, Counterpart

\* Renaming entries after files the order does not know brings no name in twice.
LEMMA RenamedOrder ==
    ASSUME NEW b, IsOrder(b), NEW batch \in SUBSET Names,
           batch \cap ToSet(b.names) = {}, NEW mayGrow \in BOOLEAN
    PROVE  /\ IsOrder(RenameInBuffer(b, batch, mayGrow))
           /\ DOMAIN RenameInBuffer(b, batch, mayGrow).names = DOMAIN b.names
           /\ \A i \in DOMAIN b.names :
                RenameInBuffer(b, batch, mayGrow).names[i] \in batch \cup {b.names[i]}
<1> DEFINE new == CopyRenamed(b.names, batch, mayGrow)
<1>1. b.names \in Seq(Names) /\ IsInjective(b.names) /\ Len(b.names) \in Nat
      BY DEF IsOrder
<1>2. /\ DOMAIN b.names = 1 .. Len(b.names)
      /\ \A i \in DOMAIN b.names : b.names[i] \in Names /\ b.names[i] \in ToSet(b.names)
      BY <1>1 DEF ToSet
<1>3. DOMAIN new = DOMAIN b.names
      BY DEF CopyRenamed
<1>4. \A i \in DOMAIN b.names :
        \/ new[i] = Counterpart(b.names[i]) /\ new[i] \in batch
        \/ new[i] = b.names[i]
      BY DEF CopyRenamed
<1> HIDE DEF new
<1>5. new \in Seq(Names) /\ Len(new) = Len(b.names)
  <2>1. \A i \in 1 .. Len(b.names) : new[i] \in Names
        BY <1>2, <1>4
  <2>2. new = [i \in 1 .. Len(b.names) |-> new[i]]
        BY <1>2, <1>3 DEF new, CopyRenamed
  <2>3. new \in [1 .. Len(b.names) -> Names]
        BY <2>1, <2>2
  <2> QED BY <1>1, <2>3
<1>6. ASSUME NEW i \in DOMAIN b.names, NEW j \in DOMAIN b.names, new[i] = new[j]
      PROVE  i = j
  <2>1. CASE new[i] = b.names[i] /\ new[j] = b.names[j]
        BY <1>1, <1>6, <2>1 DEF IsInjective
  <2>2. CASE new[i] = Counterpart(b.names[i]) /\ new[j] = Counterpart(b.names[j])
    <3>1. b.names[i] = b.names[j]
      <4>1. Counterpart(b.names[i]) = Counterpart(b.names[j])
            BY <1>6, <2>2
      <4> QED BY <1>2, <4>1, CounterpartOfName
    <3> QED BY <1>1, <3>1 DEF IsInjective
  <2>3. ~(new[i] \in batch /\ new[j] = b.names[j])
        BY <1>2, <1>6
  <2>4. ~(new[j] \in batch /\ new[i] = b.names[i])
        BY <1>2, <1>6
  <2> QED BY <1>4, <2>1, <2>2, <2>3, <2>4
<1>7. IsInjective(new)
      BY <1>3, <1>6 DEF IsInjective
<1>8. RenameInBuffer(b, batch, mayGrow) = [names |-> new, cursor |-> Start(new, EntryAt(b))]
      BY DEF RenameInBuffer, new, CopyRenamed
<1>9. EntryAt(b) \in 1 .. (Len(new) + 1)
      BY <1>5, CursorFindsEntry
<1>10. RenameInBuffer(b, batch, mayGrow).names = new
      BY <1>8
<1> QED BY <1>3, <1>4, <1>5, <1>7, <1>8, <1>9, <1>10, OrderAt

\* Names in front of others, without a name in common.
LEMMA Spliced ==
    ASSUME NEW front \in Seq(Names), NEW back \in Seq(Names),
           IsInjective(front), IsInjective(back), ToSet(front) \cap ToSet(back) = {}
    PROVE  /\ front \o back \in Seq(Names) /\ IsInjective(front \o back)
           /\ Len(front \o back) = Len(front) + Len(back)
           /\ ToSet(front \o back) = ToSet(front) \cup ToSet(back)
<1> DEFINE all == front \o back
           m == Len(front)
           n == Len(back)
<1>1. m \in Nat /\ n \in Nat /\ DOMAIN front = 1 .. m /\ DOMAIN back = 1 .. n
      OBVIOUS
<1>2. all \in Seq(Names) /\ Len(all) = m + n /\ DOMAIN all = 1 .. (m + n)
      OBVIOUS
<1>3. \A i \in 1 .. (m + n) : all[i] = IF i <= m THEN front[i] ELSE back[i - m]
      OBVIOUS
<1> HIDE DEF all, m, n
<1>4. \A i \in 1 .. m : all[i] = front[i] /\ front[i] \in ToSet(front)
      BY <1>1, <1>3 DEF ToSet
<1>5. \A i \in 1 .. (m + n) : ~(i <= m) =>
        i - m \in 1 .. n /\ all[i] = back[i - m] /\ back[i - m] \in ToSet(back)
      BY <1>1, <1>3 DEF ToSet
<1>6. ASSUME NEW i \in 1 .. (m + n), NEW j \in 1 .. (m + n), all[i] = all[j]
      PROVE  i = j
  <2>1. CASE i <= m /\ j <= m
    <3>1. i \in 1 .. m /\ j \in 1 .. m
          BY <1>1, <2>1
    <3>2. front[i] = front[j]
          BY <1>4, <1>6, <3>1
    <3> QED BY <1>1, <3>1, <3>2 DEF IsInjective
  <2>2. CASE ~(i <= m) /\ ~(j <= m)
    <3>1. i - m \in 1 .. n /\ j - m \in 1 .. n /\ back[i - m] = back[j - m]
          BY <1>5, <1>6, <2>2
    <3>2. i - m = j - m
          BY <1>1, <3>1 DEF IsInjective
    <3> QED BY <1>1, <3>2
  <2>3. ~(i <= m /\ ~(j <= m)) /\ ~(~(i <= m) /\ j <= m)
    <3>1. \A k \in 1 .. (m + n) : k <= m => k \in 1 .. m
          BY <1>1
    <3> QED BY <1>4, <1>5, <1>6, <3>1
  <2> QED BY <2>1, <2>2, <2>3
<1>7. IsInjective(all)
      BY <1>2, <1>6 DEF IsInjective
<1>8. ToSet(all) = ToSet(front) \cup ToSet(back)
  <2>1. ASSUME NEW x \in ToSet(all) PROVE x \in ToSet(front) \cup ToSet(back)
    <3>1. PICK i \in 1 .. (m + n) : x = all[i]
          BY <1>2, <2>1 DEF ToSet
    <3>2. i <= m => i \in 1 .. m
          BY <1>1
    <3> QED BY <1>4, <1>5, <3>1, <3>2
  <2>2. ASSUME NEW x \in ToSet(front) PROVE x \in ToSet(all)
    <3>1. PICK i \in 1 .. m : x = front[i]
          BY <1>1, <2>2 DEF ToSet
    <3>2. i \in 1 .. (m + n) /\ all[i] = x
          BY <1>1, <1>4, <3>1
    <3> QED BY <1>2, <3>2 DEF ToSet
  <2>3. ASSUME NEW x \in ToSet(back) PROVE x \in ToSet(all)
    <3>1. PICK i \in 1 .. n : x = back[i]
          BY <1>1, <2>3 DEF ToSet
    <3>2. i + m \in 1 .. (m + n) /\ ~(i + m <= m) /\ (i + m) - m = i
          BY <1>1
    <3>3. all[i + m] = x
          BY <1>5, <3>1, <3>2
    <3> QED BY <1>2, <3>2, <3>3 DEF ToSet
  <2> QED BY <2>1, <2>2, <2>3
<1>9. all = front \o back /\ m = Len(front) /\ n = Len(back)
      BY DEF all, m, n
<1> QED BY <1>2, <1>7, <1>8, <1>9

\* The order of a folder's files.
LEMMA LapsAreOrders ==
    ASSUME NEW files \in Seq(Names), IsInjective(files), NEW b \in Laps(files)
    PROVE  IsOrder(b)
<1>1. PICK listed : b = [names |-> Kept(files, listed), cursor |-> 0]
      BY DEF Laps
<1>2. Kept(files, listed) \in Seq(Names) /\ IsInjective(Kept(files, listed))
      BY KeptSet
<1> QED BY <1>1, <1>2, OrderFromStart

\* A rebuild of a folder with files finds some: the cap is at least 1.
LEMMA LapIsNotEmpty ==
    ASSUME NEW files \in Seq(Names), files # <<>>, NEW b \in Laps(files)
    PROVE  b.names # <<>>
<1>1. PICK listed \in kSubset(Min({Cap, Len(files)}), ToSet(files)) :
        b = [names |-> Kept(files, listed), cursor |-> 0]
      BY DEF Laps
<1>2. Cap \in Nat \ {0}
      BY LimitsAssumption
<1>3. Len(files) \in Nat \ {0}
      OBVIOUS
<1>4. Min({Cap, Len(files)}) # 0
      BY <1>2, <1>3, MinOfNats
<1>5. listed \subseteq ToSet(files) /\ Cardinality(listed) # 0
      BY <1>4 DEF kSubset
<1>6. listed # {}
      BY <1>5, FS_EmptySet
<1>7. ToSet(Kept(files, listed)) # {}
      BY <1>5, <1>6, KeptSet
<1>8. Kept(files, listed) # <<>>
      BY <1>7 DEF ToSet
<1> QED BY <1>1, <1>8

\* A shuffled order with the picture shown last in front.
LEMMA ShownFirstOrder ==
    ASSUME NEW listed \in SUBSET Names, IsFiniteSet(listed),
           NEW order \in SetToSeqs(listed)
    PROVE  /\ ShownFirst(order) \in Seq(Names) /\ IsInjective(ShownFirst(order))
           /\ Len(order) > 1 => Len(ShownFirst(order)) > 0
<1>1. Cardinality(listed) \in Nat
      BY FS_CardinalityType
<1>2. /\ order \in [1 .. Cardinality(listed) -> listed]
      /\ \A i, j \in 1 .. Cardinality(listed) : i # j => order[i] # order[j]
      BY DEF SetToSeqs
<1>3. order \in Seq(Names)
      BY <1>1, <1>2
<1>4. IsInjective(order)
      BY <1>2 DEF IsInjective
<1>5. CASE ~(lastShown \in ToSet(order) /\ Len(order) > 1)
  <2>1. ShownFirst(order) = order
        BY <1>5 DEF ShownFirst
  <2> QED BY <1>3, <1>4, <2>1
<1>6. CASE lastShown \in ToSet(order) /\ Len(order) > 1
  <2> DEFINE rest == Without(order, {lastShown})
             shown == <<lastShown>>
  <2>1. lastShown \in Names
        BY <1>3, <1>6, ToSetCounts
  <2>2. rest \in Seq(Names) /\ IsInjective(rest) /\ lastShown \notin ToSet(rest)
        BY <1>3, <1>4, WithoutSet
  <2>3. /\ shown \in Seq(Names) /\ IsInjective(shown) /\ Len(shown) = 1
        /\ ToSet(shown) = {lastShown}
        BY <2>1 DEF IsInjective, ToSet
  <2>4. ShownFirst(order) = shown \o rest
        BY <1>6 DEF ShownFirst
  <2> HIDE DEF rest, shown
  <2>5. Len(rest) \in Nat
        BY <2>2
  <2> QED BY <2>2, <2>3, <2>4, <2>5, Spliced
<1> QED BY <1>5, <1>6

-----------------------------------------------------------------------------
(* The folder.                                                             *)

\* In a folder with files there is one to choose by name.
LEMMA DirectIsPresent ==
    ASSUME NEW after, folder \in Seq(Names), folder # <<>>
    PROVE  Direct(after) \in Present
<1>1. Present \subseteq Names /\ Present # {}
  <2>1. Present \subseteq Names
        BY ToSetCounts DEF Present
  <2>2. 1 \in DOMAIN folder
        OBVIOUS
  <2> QED BY <2>1, <2>2 DEF Present, ToSet
<1> DEFINE later == {n \in Present : after # NoName /\ Before(after, n)}
           from == IF later # {} THEN later ELSE Present
           imgs == {n.img : n \in from}
           m == Min(imgs)
           first == IF [img |-> m, fav |-> FALSE] \in from
                      THEN [img |-> m, fav |-> FALSE] ELSE [img |-> m, fav |-> TRUE]
<1>2. from \in SUBSET Present /\ from # {}
      BY <1>1
<1>3. Direct(after) = CHOOSE n \in from : \A k \in from \ {n} : Before(n, k)
      BY DEF Direct
<1> HIDE DEF from
<1>4. \A n \in from : /\ n \in Names /\ n = [img |-> n.img, fav |-> n.fav]
                      /\ n.img \in Nat /\ n.fav \in BOOLEAN /\ n.img \in imgs
  <2>1. SUFFICES ASSUME NEW n \in from
                 PROVE  /\ n \in Names /\ n = [img |-> n.img, fav |-> n.fav]
                        /\ n.img \in Nat /\ n.fav \in BOOLEAN /\ n.img \in imgs
        OBVIOUS
  <2>2. n \in Names
        BY <1>1, <1>2
  <2>3. n = [img |-> n.img, fav |-> n.fav] /\ n.img \in Images /\ n.fav \in BOOLEAN
        BY <2>2 DEF Names
  <2>4. n.img \in Nat
        BY <2>3, ImagesAssumption
  <2> QED BY <2>2, <2>3, <2>4
<1>5. imgs \in SUBSET Nat /\ imgs # {}
      BY <1>2, <1>4
<1>6. m \in imgs /\ m \in Nat /\ \A k \in imgs : m <= k
      BY <1>5, MinOfNats
<1>7. PICK n \in from : n.img = m
      BY <1>6
<1> HIDE DEF imgs, m
<1>8. first \in from
  <2>1. n = [img |-> m, fav |-> n.fav] /\ n.fav \in BOOLEAN
        BY <1>4, <1>7
  <2> QED BY <1>7, <2>1
<1>9. first.img = m /\ first.fav = ([img |-> m, fav |-> FALSE] \notin from)
      OBVIOUS
<1>10. ASSUME NEW k \in from \ {first}
       PROVE  Before(first, k)
  <2>1. k = [img |-> k.img, fav |-> k.fav] /\ k.img \in Nat /\ k.fav \in BOOLEAN /\ m <= k.img
        BY <1>4, <1>6
  <2>2. CASE m < k.img
        BY <1>9, <2>2 DEF Before
  <2>3. CASE m = k.img
    <3>1. k = [img |-> m, fav |-> k.fav]
          BY <2>1, <2>3
    <3>2. ~first.fav /\ k.fav
          BY <1>9, <1>10, <2>1, <3>1
    <3> QED BY <1>9, <2>3, <3>2 DEF Before
  <2> QED BY <1>6, <2>1, <2>2, <2>3
<1> HIDE DEF first
<1>11. Direct(after) \in from
       BY <1>3, <1>8, <1>10, Zenon
<1> QED BY <1>2, <1>11

\* Leaving out nothing leaves the listing as it was.
LEMMA WithoutNone ==
    ASSUME NEW T, NEW names \in Seq(T)
    PROVE  Without(names, {}) = names
<1> DEFINE S == ToSet(names) \ {}
           at == {i \in DOMAIN names : names[i] \in S}
           n == Len(names)
<1>1. n \in Nat /\ DOMAIN names = 1 .. n /\ names = [k \in 1 .. n |-> names[k]]
      OBVIOUS
<1>2. at = 1 .. n
      BY <1>1 DEF ToSet
<1>3. Without(names, {}) = [k \in 1 .. Cardinality(at) |->
        names[CHOOSE i \in at : Cardinality({j \in at : j < i}) = k - 1]]
      BY DEF Without, Kept
<1> HIDE DEF at, n
<1>4. \A m \in Nat : Cardinality(1 .. m) = m
      BY FS_Interval
<1>5. \A i \in 1 .. n : {j \in 1 .. n : j < i} = 1 .. (i - 1) /\ i - 1 \in Nat
      BY <1>1
<1>6. ASSUME NEW k \in 1 .. n
      PROVE  (CHOOSE i \in 1 .. n : Cardinality({j \in 1 .. n : j < i}) = k - 1) = k
  <2>1. \A i \in 1 .. n : Cardinality({j \in 1 .. n : j < i}) = i - 1
        BY <1>4, <1>5
  <2>2. \A i \in 1 .. n : Cardinality({j \in 1 .. n : j < i}) = k - 1 <=> i = k
        BY <1>1, <2>1
  <2> QED BY <2>2
<1>7. Without(names, {}) = [k \in 1 .. n |->
        names[CHOOSE i \in 1 .. n : Cardinality({j \in 1 .. n : j < i}) = k - 1]]
      BY <1>1, <1>2, <1>3, <1>4
<1>8. Without(names, {}) = [k \in 1 .. n |-> names[k]]
      BY <1>6, <1>7
<1> QED BY <1>1, <1>8

\* What stands in the tail of a sequence.
LEMMA SuffixSet ==
    ASSUME NEW T, NEW s \in Seq(T), NEW k \in 0 .. Len(s)
    PROVE  ToSet(SubSeq(s, k + 1, Len(s))) = {s[i] : i \in (k + 1) .. Len(s)}
<1> DEFINE n == Len(s)
           tail == SubSeq(s, k + 1, n)
<1>1. n \in Nat /\ k \in Nat /\ k <= n
      OBVIOUS
<1>2. DOMAIN tail = 1 .. (n - k) /\ \A i \in 1 .. (n - k) : tail[i] = s[i + k]
      BY <1>1
<1> HIDE DEF tail, n
<1>3. \A i \in 1 .. (n - k) : i + k \in (k + 1) .. n
      BY <1>1
<1>4. \A i \in (k + 1) .. n : i - k \in 1 .. (n - k) /\ (i - k) + k = i
      BY <1>1
<1>5. ToSet(tail) = {s[i] : i \in (k + 1) .. n}
  <2>1. ASSUME NEW x \in ToSet(tail) PROVE x \in {s[i] : i \in (k + 1) .. n}
    <3>1. PICK i \in 1 .. (n - k) : x = tail[i]
          BY <1>2, <2>1 DEF ToSet
    <3> QED BY <1>2, <1>3, <3>1
  <2>2. ASSUME NEW x \in {s[i] : i \in (k + 1) .. n} PROVE x \in ToSet(tail)
    <3>1. PICK i \in (k + 1) .. n : x = s[i]
          BY <2>2
    <3>2. i - k \in 1 .. (n - k) /\ tail[i - k] = x
          BY <1>2, <1>4, <3>1
    <3> QED BY <1>2, <3>2 DEF ToSet
  <2> QED BY <2>1, <2>2
<1> QED BY <1>5 DEF tail, n

\* The files in /sleep have different names, as those in "/sleep pause" have.
FolderInv ==
    /\ folder \in Seq(Names) /\ IsInjective(folder)
    /\ pauseDir \subseteq Names

\* The files that are no favourites.
Plain == Kept(folder, {n \in Present : ~n.fav})

\* How many of the plain files a trim leaves, the newest ones.
Spared ==
    IF Len(folder) - Len(Plain) >= Cap THEN 0
      ELSE Len(Plain) - Min({Len(folder) - Cap, Len(Plain)})

\* The plain files, and how many they are.
LEMMA PlainFiles ==
    ASSUME FolderInv
    PROVE  /\ Plain \in Seq(Names) /\ IsInjective(Plain)
           /\ ToSet(Plain) = {n \in Present : ~n.fav}
           /\ Len(Plain) \in Nat /\ Len(folder) \in Nat
           /\ Cardinality(Present) = Len(folder) /\ IsFiniteSet(Present)
           /\ Cardinality({n \in Present : ~n.fav}) = Len(Plain)
           /\ Len(Plain) <= Len(folder)
<1>1. folder \in Seq(Names) /\ IsInjective(folder)
      BY DEF FolderInv
<1>2. Plain \in Seq(Names) /\ IsInjective(Plain) /\ ToSet(Plain) = {n \in Present : ~n.fav}
  <2>1. ToSet(folder) \cap {n \in Present : ~n.fav} = {n \in Present : ~n.fav}
        BY DEF Present
  <2> QED BY <1>1, <2>1, KeptSet DEF Plain
<1>3. /\ Cardinality(Present) = Len(folder) /\ IsFiniteSet(Present)
      /\ Cardinality(Present) \in Nat
      BY <1>1, ToSetCounts DEF Present
<1>4. Cardinality({n \in Present : ~n.fav}) = Len(Plain)
      BY <1>2, ToSetCounts
<1>5. Cardinality({n \in Present : ~n.fav}) <= Cardinality(Present)
      BY <1>3, FS_Subset
<1> QED BY <1>1, <1>2, <1>3, <1>4, <1>5

\* The trim takes the tail of the plain files; of a folder without favourites it
\* spares some.
LEMMA SparedCounts ==
    ASSUME FolderInv, Len(folder) > Cap
    PROVE  /\ Spared \in 0 .. Len(Plain)
           /\ Trimmed = {Plain[k] : k \in (Spared + 1) .. Len(Plain)}
           /\ Len(Plain) = Len(folder) => Spared > 0
<1>1. Len(Plain) \in Nat /\ Len(folder) \in Nat /\ Len(Plain) <= Len(folder)
      BY PlainFiles
<1>2. Cap \in Nat \ {0}
      BY LimitsAssumption
<1>3. Len(folder) - Cap \in Nat
      BY <1>1, <1>2
<1> DEFINE over == Min({Len(folder) - Cap, Len(Plain)})
<1>4. /\ over \in {Len(folder) - Cap, Len(Plain)}
      /\ over <= Len(Plain) /\ over <= Len(folder) - Cap
      BY <1>1, <1>3, MinOfNats
<1>5. Spared = IF Len(folder) - Len(Plain) >= Cap THEN 0 ELSE Len(Plain) - over
      BY DEF Spared
<1> HIDE DEF over
<1>6. Spared \in 0 .. Len(Plain)
      BY <1>1, <1>2, <1>3, <1>4, <1>5
<1>7. Len(Plain) = Len(folder) => Spared > 0
      BY <1>1, <1>2, <1>3, <1>4, <1>5
<1>8. Trimmed = ToSet(SubSeq(Plain, Spared + 1, Len(Plain)))
      BY DEF Trimmed, Plain, Spared
<1> QED BY <1>6, <1>7, <1>8, PlainFiles, SuffixSet

\* A trim takes no favourite, and leaves a file in the folder.
LEMMA TrimLeavesSome ==
    ASSUME FolderInv, Len(folder) > Cap
    PROVE  /\ Trimmed \subseteq {n \in Present : ~n.fav}
           /\ Present \ Trimmed # {}
<1>1. /\ Spared \in 0 .. Len(Plain)
      /\ Trimmed = {Plain[k] : k \in (Spared + 1) .. Len(Plain)}
      /\ Len(Plain) = Len(folder) => Spared > 0
      BY SparedCounts
<1>2. /\ Plain \in Seq(Names) /\ IsInjective(Plain)
      /\ ToSet(Plain) = {n \in Present : ~n.fav}
      /\ Len(Plain) \in Nat
      BY PlainFiles
<1>3. DOMAIN Plain = 1 .. Len(Plain) /\ \A k \in 1 .. Len(Plain) : Plain[k] \in ToSet(Plain)
      BY <1>2 DEF ToSet
<1>4. \A k \in (Spared + 1) .. Len(Plain) : Spared = 0 \/ k # 1
      BY <1>1, <1>2
<1>5. \A k \in (Spared + 1) .. Len(Plain) : k \in 1 .. Len(Plain)
      BY <1>1, <1>2
<1>6. Trimmed \subseteq {n \in Present : ~n.fav}
      BY <1>1, <1>2, <1>3, <1>5
<1>7. CASE \E n \in Present : n.fav
      BY <1>6, <1>7
<1>8. CASE ~\E n \in Present : n.fav
  <2>1. {n \in Present : ~n.fav} = Present
        BY <1>8
  <2>2. Len(Plain) = Len(folder)
        BY <2>1, PlainFiles
  <2>3. Spared > 0 /\ 1 \in 1 .. Len(Plain)
        BY <1>1, <1>2, <2>2
  <2>4. Plain[1] \notin Trimmed
    <3>1. \A k \in (Spared + 1) .. Len(Plain) : Plain[k] # Plain[1]
          BY <1>2, <1>3, <1>4, <1>5, <2>3 DEF IsInjective
    <3> QED BY <1>1, <3>1
  <2>5. Plain[1] \in Present
        BY <1>2, <1>3, <2>3
  <2> QED BY <1>6, <2>4, <2>5
<1> QED BY <1>6, <1>7, <1>8

\* A plain file behind one that is taken is taken too.
LEMMA TrimTakesOldest ==
    ASSUME FolderInv, Len(folder) > Cap,
           NEW i \in DOMAIN folder, NEW j \in DOMAIN folder, i < j,
           folder[i] \in Trimmed, ~folder[j].fav
    PROVE  folder[j] \in Trimmed
<1> DEFINE S == {n \in Present : ~n.fav}
<1>1. folder \in Seq(Names) /\ IsInjective(folder)
      BY DEF FolderInv
<1>2. /\ Spared \in 0 .. Len(Plain)
      /\ Trimmed = {Plain[k] : k \in (Spared + 1) .. Len(Plain)}
      BY SparedCounts
<1>3. PICK n \in Nat : \E place : KeptFrom(folder, S, n, place)
      BY <1>1, KeptIndex
<1>4. PICK place : KeptFrom(folder, S, n, place)
      BY <1>3
<1>5. folder[i] \in S /\ folder[j] \in S
  <2>1. folder[i] \in Present /\ folder[j] \in Present
        BY DEF Present, ToSet
  <2>2. folder[i] \in S
        BY TrimLeavesSome
  <2> QED BY <2>1, <2>2
<1> HIDE DEF S
<1>6. /\ place \in [1 .. n -> DOMAIN folder]
      /\ Plain = [k \in 1 .. n |-> folder[place[k]]]
      /\ \A k, m \in 1 .. n : k < m => place[k] < place[m]
      /\ \A l \in DOMAIN folder : folder[l] \in S <=> \E k \in 1 .. n : l = place[k]
      BY <1>4 DEF KeptFrom, Plain, S
<1>7. Len(Plain) = n /\ n \in Nat
      BY <1>3, <1>6
<1>8. PICK k \in (Spared + 1) .. Len(Plain) : folder[i] = Plain[k]
      BY <1>2
<1>9. k \in 1 .. n /\ Spared \in Nat /\ Spared + 1 <= k
      BY <1>2, <1>7, <1>8
<1>10. i = place[k]
      BY <1>1, <1>6, <1>8, <1>9 DEF IsInjective
<1>11. PICK m \in 1 .. n : j = place[m]
      BY <1>5, <1>6
<1>12. i \in Nat /\ j \in Nat
      BY <1>1
<1>13. ~(m < k) /\ m # k
      BY <1>6, <1>9, <1>10, <1>11, <1>12
<1>14. m \in (Spared + 1) .. Len(Plain)
      BY <1>7, <1>9, <1>13
<1>15. folder[j] = Plain[m]
      BY <1>6, <1>11
<1> QED BY <1>2, <1>14, <1>15

-----------------------------------------------------------------------------
(* The inductive invariant.                                                *)

\* What each variable may hold.
FieldsInv ==
    /\ lastShown \in Names \cup {NoName}
    /\ rendered \in [dir : {"sleep", "pause"}, name : Names] \cup {NoPath}
    /\ paused \in BOOLEAN /\ dirty \in BOOLEAN
    /\ pc \in {"awake", "reconcile", "pick", "draw", "asleep"}
    /\ attempt \in 0 .. Retries /\ edits \in 0 .. MaxEdits

\* The order on the card, and the one in memory once it is loaded.
OrderInv == IsOrder(disk) /\ (ram # NotLoaded => IsOrder(ram))

\* The way to sleep takes the playlist only when there is a file, and draws one
\* that is there.
PickInv ==
    /\ pc \in {"reconcile", "pick", "draw"} /\ heap # "low" => folder # <<>>
    /\ pc = "draw" => pick.name \in Present

\* What is on the screen is the picture that lastSleepWallpaperPath finds.
ScreenInv ==
    onScreen # NoImage =>
        RenderedExists /\ rendered.name.img = onScreen /\ onScreen \notin Corrupt

IInv == FolderInv /\ FieldsInv /\ OrderInv /\ PickInv /\ ScreenInv

-----------------------------------------------------------------------------
(* Files that come, go and change their names.                             *)

\* A new name in front leaves all names different.
LEMMA AddedFile ==
    ASSUME FolderInv, NEW n \in Names \ Present, folder' = <<n>> \o folder
    PROVE  /\ folder' \in Seq(Names) /\ IsInjective(folder')
           /\ Present' = Present \cup {n}
<1> DEFINE one == <<n>>
<1>1. one \in Seq(Names) /\ IsInjective(one) /\ ToSet(one) = {n}
      BY DEF IsInjective, ToSet
<1>2. folder \in Seq(Names) /\ IsInjective(folder) /\ n \notin ToSet(folder)
      BY DEF FolderInv, Present
<1> HIDE DEF one
<1>3. folder' = one \o folder
      BY DEF one
<1>4. ToSet(one) \cap ToSet(folder) = {}
      BY <1>1, <1>2
<1>5. /\ one \o folder \in Seq(Names) /\ IsInjective(one \o folder)
      /\ ToSet(one \o folder) = ToSet(one) \cup ToSet(folder)
      BY <1>1, <1>2, <1>4, Spliced
<1>6. Present' = ToSet(one) \cup Present
      BY <1>3, <1>5 DEF Present
<1> QED BY <1>1, <1>3, <1>5, <1>6

\* Files that go leave all names different.
LEMMA LeftFiles ==
    ASSUME FolderInv, NEW S, folder' = Without(folder, S)
    PROVE  /\ folder' \in Seq(Names) /\ IsInjective(folder')
           /\ Present' = Present \ S
<1>1. folder \in Seq(Names) /\ IsInjective(folder)
      BY DEF FolderInv
<1> QED BY <1>1, WithoutSet DEF Present

\* A file renamed to a free name leaves all names different.
LEMMA RenamedFile ==
    ASSUME FolderInv, NEW n \in Present, NEW to \in Names \ Present,
           folder' = [i \in DOMAIN folder |-> IF folder[i] = n THEN to ELSE folder[i]]
    PROVE  /\ folder' \in Seq(Names) /\ IsInjective(folder')
           /\ Present' = (Present \ {n}) \cup {to}
<1>1. /\ folder \in Seq(Names) /\ IsInjective(folder) /\ Len(folder) \in Nat
      /\ DOMAIN folder = 1 .. Len(folder)
      BY DEF FolderInv
<1>2. \A i \in DOMAIN folder : folder[i] \in Names /\ folder[i] \in Present
      BY <1>1 DEF Present, ToSet
<1>3. /\ DOMAIN folder' = DOMAIN folder
      /\ \A i \in DOMAIN folder : folder'[i] = IF folder[i] = n THEN to ELSE folder[i]
      OBVIOUS
<1>4. folder' \in Seq(Names)
  <2>1. \A i \in 1 .. Len(folder) : folder'[i] \in Names
        BY <1>1, <1>2, <1>3
  <2>2. folder' = [i \in 1 .. Len(folder) |-> folder'[i]]
        BY <1>1
  <2>3. folder' \in [1 .. Len(folder) -> Names]
        BY <2>1, <2>2
  <2> QED BY <1>1, <2>3
<1>5. IsInjective(folder')
      BY <1>1, <1>2, <1>3 DEF IsInjective
<1>6. PICK k \in DOMAIN folder : folder[k] = n
      BY DEF Present, ToSet
<1>7. Present' = (Present \ {n}) \cup {to}
  <2>1. ASSUME NEW x \in Present' PROVE x \in (Present \ {n}) \cup {to}
    <3>1. PICK i \in DOMAIN folder : x = folder'[i]
          BY <1>3, <2>1 DEF Present, ToSet
    <3> QED BY <1>2, <1>3, <3>1
  <2>2. ASSUME NEW x \in Present \ {n} PROVE x \in Present'
    <3>1. PICK i \in DOMAIN folder : x = folder[i]
          BY <2>2 DEF Present, ToSet
    <3>2. folder'[i] = x
          BY <1>3, <2>2, <3>1
    <3> QED BY <1>3, <3>2 DEF Present, ToSet
  <2>3. to \in Present'
    <3>1. folder'[k] = to
          BY <1>3, <1>6
    <3> QED BY <1>3, <1>6, <3>1 DEF Present, ToSet
  <2> QED BY <2>1, <2>2, <2>3
<1> QED BY <1>4, <1>5, <1>7

\* What lies in /sleep has a name.
LEMMA PresentAreNames ==
    ASSUME FolderInv
    PROVE  Present \subseteq Names
BY ToSetCounts DEF FolderInv, Present

\* A reference to a folder is a path into it.
LEMMA RenderedParts ==
    ASSUME FieldsInv
    PROVE  rendered.dir \in {"sleep", "pause"} =>
             rendered = Path(rendered.dir, rendered.name) /\ rendered.name \in Names
BY DEF FieldsInv, Path, NoPath

\* Files that move to "/sleep pause" take the reference along.
LEMMA MovedToPause ==
    ASSUME FolderInv, FieldsInv, ScreenInv, NEW S \in SUBSET Present, MoveToPause(S)
    PROVE  /\ FolderInv' /\ Present' = Present \ S
           /\ lastShown' \in Names \cup {NoName}
           /\ rendered' \in [dir : {"sleep", "pause"}, name : Names] \cup {NoPath}
           /\ onScreen' = onScreen => ScreenInv'
<1>1. S \subseteq Names
      BY PresentAreNames
<1>2. folder' = Without(folder, S) /\ pauseDir' = pauseDir \cup S
      BY DEF MoveToPause
<1>3. FolderInv' /\ Present' = Present \ S
      BY <1>1, <1>2, LeftFiles DEF FolderInv
<1>4. lastShown' \in Names \cup {NoName}
      BY DEF MoveToPause, FieldsInv
<1>5. CASE rendered.dir = "sleep" /\ rendered.name \in S
  <2>1. rendered' = Path("pause", rendered.name)
        BY <1>5, RenderedParts DEF MoveToPause, FollowRendered
  <2>2. rendered'.dir = "pause" /\ rendered'.name = rendered.name
        BY <2>1 DEF Path
  <2>3. rendered' \in [dir : {"sleep", "pause"}, name : Names]
        BY <1>1, <1>5, <2>1 DEF Path
  <2>4. rendered'.name \in pauseDir'
        BY <1>2, <1>5, <2>2
  <2>5. onScreen' = onScreen => ScreenInv'
        BY <2>2, <2>4 DEF ScreenInv, RenderedExists
  <2> QED BY <1>3, <1>4, <2>3, <2>5
<1>6. CASE ~(rendered.dir = "sleep" /\ rendered.name \in S)
  <2>1. rendered' = rendered
        BY <1>6 DEF MoveToPause
  <2>2. RenderedExists => RenderedExists'
        BY <1>2, <1>3, <1>6, <2>1 DEF RenderedExists
  <2>3. onScreen' = onScreen => ScreenInv'
        BY <2>1, <2>2 DEF ScreenInv
  <2> QED BY <1>3, <1>4, <2>1, <2>3 DEF FieldsInv
<1> QED BY <1>5, <1>6

-----------------------------------------------------------------------------
(* Between two sleeps.                                                     *)

\* An edit happens between two sleeps, where the choice of a picture is open.
LEMMA EditStep ==
    ASSUME IInv, Edit
    PROVE  /\ PickInv' /\ attempt' \in 0 .. Retries /\ edits' \in 0 .. MaxEdits
           /\ pc' = pc
<1>1. edits \in 0 .. MaxEdits /\ MaxEdits \in Nat
      BY LimitsAssumption DEF IInv, FieldsInv
<1>2. edits' \in 0 .. MaxEdits
      BY <1>1 DEF Edit
<1>3. pc' = "awake" /\ pc = "awake" /\ attempt' = attempt
      BY DEF Edit, local
<1>4. PickInv'
      BY <1>3 DEF PickInv
<1> QED BY <1>2, <1>3, <1>4 DEF IInv, FieldsInv

\* The order stays one while neither copy of it changes.
LEMMA UnchangedOrder ==
    ASSUME IInv, UNCHANGED <<disk, ram>>
    PROVE  OrderInv'
BY DEF IInv, OrderInv, IsOrder, NotLoaded

\* One lemma per action: each keeps every part of the invariant.
LEMMA AddFileStep ==
    ASSUME IInv, NEW n \in Names, AddFile(n)
    PROVE  IInv'
<1> USE DEF IInv
<1>1. Edit /\ n \in Names \ Present /\ folder' = <<n>> \o folder
      BY DEF AddFile
<1>2. UNCHANGED <<pauseDir, lastShown, rendered, paused, disk, ram, onScreen>> /\ dirty' = TRUE
      BY DEF AddFile, appState
<1>3. FolderInv' /\ Present' = Present \cup {n}
      BY <1>1, <1>2, AddedFile DEF FolderInv
<1>4. FieldsInv'
      BY <1>1, <1>2, EditStep DEF FieldsInv
<1>5. ScreenInv'
      BY <1>2, <1>3 DEF ScreenInv, RenderedExists
<1> QED BY <1>1, <1>2, <1>3, <1>4, <1>5, EditStep, UnchangedOrder

\* The picture on the screen is forgotten with its file.
LEMMA RemoveFileStep ==
    ASSUME IInv, NEW n \in Names, RemoveFile(n)
    PROVE  IInv'
<1> USE DEF IInv
<1>1. Edit /\ folder' = Without(folder, {n})
      BY DEF RemoveFile
<1>2. UNCHANGED <<pauseDir, lastShown, rendered, paused, disk, ram, dirty>>
      BY DEF RemoveFile, appState, playlist
<1>3. FolderInv' /\ Present' = Present \ {n}
      BY <1>1, <1>2, LeftFiles DEF FolderInv
<1>4. FieldsInv'
      BY <1>1, <1>2, EditStep DEF FieldsInv
<1>5. ScreenInv'
  <2>1. CASE rendered = Path("sleep", n)
        BY <2>1 DEF RemoveFile, ScreenInv
  <2>2. CASE rendered # Path("sleep", n)
    <3>1. onScreen' = onScreen
          BY <2>2 DEF RemoveFile
    <3>2. RenderedExists => RenderedExists'
          BY <1>2, <1>3, <2>2, RenderedParts DEF RenderedExists
    <3> QED BY <1>2, <3>1, <3>2 DEF ScreenInv
  <2> QED BY <2>1, <2>2
<1> QED BY <1>1, <1>2, <1>3, <1>4, <1>5, EditStep, UnchangedOrder

\* A favourite's new name is free, and the reference follows it.
LEMMA ToggleFavouriteStep ==
    ASSUME IInv, NEW n \in Names, ToggleFavourite(n)
    PROVE  IInv'
<1> USE DEF IInv
<1> DEFINE to == Counterpart(n)
<1>1. /\ Edit /\ n \in Present /\ to \in Names \ Present
      /\ folder' = [i \in DOMAIN folder |-> IF folder[i] = n THEN to ELSE folder[i]]
      /\ to.img = n.img
      BY CounterpartOfName DEF ToggleFavourite
<1>2. /\ UNCHANGED <<pauseDir, paused, disk, ram, dirty, onScreen>>
      /\ rendered' = FollowRendered(Path("sleep", n), Path("sleep", to))
      /\ lastShown' = IF lastShown = n THEN to ELSE lastShown
      BY DEF ToggleFavourite, playlist
<1> HIDE DEF to
<1>3. FolderInv' /\ Present' = (Present \ {n}) \cup {to}
      BY <1>1, <1>2, RenamedFile DEF FolderInv
<1>4. CASE rendered = Path("sleep", n)
  <2>1. rendered' = Path("sleep", to)
        BY <1>2, <1>4 DEF FollowRendered
  <2>2. rendered'.dir = "sleep" /\ rendered'.name = to /\ rendered.name = n
        BY <1>4, <2>1 DEF Path
  <2>3. rendered' \in [dir : {"sleep", "pause"}, name : Names]
        BY <1>1, <2>1 DEF Path
  <2>4. FieldsInv'
        BY <1>1, <1>2, <2>3, EditStep DEF FieldsInv
  <2>5. ScreenInv'
        BY <1>1, <1>2, <1>3, <2>2 DEF ScreenInv, RenderedExists
  <2> QED BY <1>1, <1>2, <1>3, <2>4, <2>5, EditStep, UnchangedOrder
<1>5. CASE rendered # Path("sleep", n)
  <2>1. rendered' = rendered
        BY <1>2, <1>5 DEF FollowRendered
  <2>2. FieldsInv'
        BY <1>1, <1>2, <2>1, EditStep DEF FieldsInv
  <2>3. RenderedExists => RenderedExists'
        BY <1>2, <1>3, <1>5, <2>1, RenderedParts DEF RenderedExists
  <2>4. ScreenInv'
        BY <1>2, <2>1, <2>3 DEF ScreenInv
  <2> QED BY <1>1, <1>2, <1>3, <2>2, <2>4, EditStep, UnchangedOrder
<1> QED BY <1>4, <1>5

\* The same in "/sleep pause".
LEMMA ToggleInPauseStep ==
    ASSUME IInv, ToggleInPause
    PROVE  IInv'
<1> USE DEF IInv
<1> DEFINE n == rendered.name
           to == Counterpart(n)
<1>1. /\ Edit /\ rendered.dir = "pause" /\ n \in pauseDir
      /\ pauseDir' = (pauseDir \ {n}) \cup {to}
      BY DEF ToggleInPause
<1>2. /\ UNCHANGED <<folder, lastShown, paused, disk, ram, dirty, onScreen>>
      /\ rendered' = FollowRendered(rendered, Path("pause", to))
      BY DEF ToggleInPause, playlist, history
<1>3. n \in Names /\ to \in Names /\ to.img = n.img
      BY <1>1, CounterpartOfName DEF FolderInv
<1>4. rendered' = Path("pause", to)
      BY <1>2 DEF FollowRendered
<1>5. rendered'.dir = "pause" /\ rendered'.name = to /\ rendered.name = n
      BY <1>4 DEF Path
<1> HIDE DEF to, n
<1>6. FolderInv'
      BY <1>1, <1>2, <1>3 DEF FolderInv
<1>7. rendered' \in [dir : {"sleep", "pause"}, name : Names]
      BY <1>3, <1>4 DEF Path
<1>8. FieldsInv'
      BY <1>1, <1>2, <1>7, EditStep DEF FieldsInv
<1>9. ScreenInv'
      BY <1>1, <1>2, <1>3, <1>5 DEF ScreenInv, RenderedExists
<1> QED BY <1>1, <1>2, <1>6, <1>8, <1>9, EditStep, UnchangedOrder

\* The picture on the screen is found in "/sleep pause" from then on.
LEMMA TriageMovePauseStep ==
    ASSUME IInv, TriageMovePause
    PROVE  IInv'
<1> USE DEF IInv
<1> DEFINE n == rendered.name
<1>1. /\ Edit /\ rendered.dir = "sleep" /\ n \in Present
      /\ folder' = Without(folder, {n}) /\ pauseDir' = pauseDir \cup {n}
      BY DEF TriageMovePause
<1>2. /\ UNCHANGED <<disk, ram, dirty, onScreen>> /\ paused' = FALSE
      /\ lastShown' = IF lastShown = n THEN NoName ELSE lastShown
      /\ rendered' = FollowRendered(rendered, Path("pause", n))
      BY <1>1, RenderedParts DEF TriageMovePause, playlist, history
<1>3. n \in Names
      BY <1>1, PresentAreNames
<1>4. rendered' = Path("pause", n)
      BY <1>2 DEF FollowRendered
<1>5. rendered'.dir = "pause" /\ rendered'.name = n /\ rendered.name = n
      BY <1>4 DEF Path
<1> HIDE DEF n
<1>6. FolderInv'
      BY <1>1, <1>3, LeftFiles DEF FolderInv
<1>7. rendered' \in [dir : {"sleep", "pause"}, name : Names]
      BY <1>3, <1>4 DEF Path
<1>8. FieldsInv'
      BY <1>1, <1>2, <1>7, EditStep DEF FieldsInv
<1>9. ScreenInv'
      BY <1>1, <1>2, <1>5 DEF ScreenInv, RenderedExists
<1> QED BY <1>1, <1>2, <1>6, <1>8, <1>9, EditStep, UnchangedOrder

\* A deleted picture leaves no reference behind.
LEMMA TriageDeleteStep ==
    ASSUME IInv, TriageDelete
    PROVE  IInv'
<1> USE DEF IInv
<1>1. /\ Edit /\ UNCHANGED <<disk, ram, dirty>>
      /\ rendered' = NoPath /\ paused' = FALSE /\ onScreen' = NoImage
      BY DEF TriageDelete, playlist
<1>2. FolderInv' /\ lastShown' \in Names \cup {NoName}
  <2>1. CASE rendered.dir = "sleep"
    <3>1. folder' = Without(folder, {rendered.name}) /\ pauseDir' = pauseDir
          BY <2>1 DEF TriageDelete
    <3>2. lastShown' = IF lastShown = rendered.name THEN NoName ELSE lastShown
          BY <2>1 DEF TriageDelete
    <3> QED BY <3>1, <3>2, LeftFiles DEF FolderInv, FieldsInv
  <2>2. CASE rendered.dir # "sleep"
    <3>1. UNCHANGED <<folder, lastShown>> /\ pauseDir' = pauseDir \ {rendered.name}
          BY <2>2 DEF TriageDelete
    <3> QED BY <3>1 DEF FolderInv, FieldsInv
  <2> QED BY <2>1, <2>2
<1>3. FieldsInv'
      BY <1>1, <1>2, EditStep DEF FieldsInv
<1>4. ScreenInv'
      BY <1>1 DEF ScreenInv
<1> QED BY <1>1, <1>2, <1>3, <1>4, EditStep, UnchangedOrder

\* Pausing changes nothing else.
LEMMA TogglePauseStep ==
    ASSUME IInv, TogglePause
    PROVE  IInv'
<1> USE DEF IInv
<1>1. /\ Edit /\ UNCHANGED <<folder, pauseDir, lastShown, rendered, disk, ram, dirty, onScreen>>
      /\ paused' = ~paused
      BY DEF TogglePause, folders, playlist, history
<1>2. FolderInv'
      BY <1>1 DEF FolderInv
<1>3. FieldsInv'
      BY <1>1, EditStep DEF FieldsInv
<1>4. ScreenInv'
      BY <1>1 DEF ScreenInv, RenderedExists, Present
<1> QED BY <1>1, <1>2, <1>3, <1>4, EditStep, UnchangedOrder

\* A picture on the screen that is moved is followed.
LEMMA MoveRandomToPauseStep ==
    ASSUME IInv, NEW S \in SUBSET Present, MoveRandomToPause(S)
    PROVE  IInv'
<1> USE DEF IInv
<1>1. /\ Edit /\ UNCHANGED <<paused, disk, ram, onScreen>>
      /\ MoveToPause(Movable(S)) /\ Movable(S) \in SUBSET Present
      /\ dirty' = (dirty \/ Movable(S) # {})
      BY DEF MoveRandomToPause, Movable, history
<1>2. /\ FolderInv' /\ lastShown' \in Names \cup {NoName} /\ ScreenInv'
      /\ rendered' \in [dir : {"sleep", "pause"}, name : Names] \cup {NoPath}
      BY <1>1, MovedToPause
<1>3. dirty' \in BOOLEAN
      BY <1>1 DEF FieldsInv
<1>4. FieldsInv'
      BY <1>1, <1>2, <1>3, EditStep DEF FieldsInv
<1> QED BY <1>1, <1>2, <1>4, EditStep, UnchangedOrder

\* Every outcome of a reshuffle leaves an order, on the card and in memory.
LEMMA ReshuffleStep ==
    ASSUME IInv, NEW fits \in BOOLEAN, Reshuffle(fits)
    PROVE  IInv'
<1> USE DEF IInv
<1>1. /\ Edit
      /\ UNCHANGED <<folder, pauseDir, lastShown, rendered, paused, dirty, onScreen>>
      BY DEF Reshuffle, folders, appState
<1>2. PICK listed \in SUBSET Present : \E order \in SetToSeqs(listed) :
        LET names == ShownFirst(order)
            b == [names |-> names,
                  cursor |-> IF lastShown \in listed /\ Len(order) > 1
                               THEN Start(names, 2) ELSE 0]
        IN IF folder = <<>>
             THEN disk' = Emptied /\ ram' = IF ram = NotLoaded THEN ram ELSE Emptied
             ELSE IF fits THEN disk' = b /\ ram' = b
                          ELSE disk' = disk /\ ram' = Emptied
      BY DEF Reshuffle, kSubset
<1>3. PICK order \in SetToSeqs(listed) :
        LET names == ShownFirst(order)
            b == [names |-> names,
                  cursor |-> IF lastShown \in listed /\ Len(order) > 1
                               THEN Start(names, 2) ELSE 0]
        IN IF folder = <<>>
             THEN disk' = Emptied /\ ram' = IF ram = NotLoaded THEN ram ELSE Emptied
             ELSE IF fits THEN disk' = b /\ ram' = b
                          ELSE disk' = disk /\ ram' = Emptied
      BY <1>2
<1> DEFINE names == ShownFirst(order)
           b == [names |-> names,
                 cursor |-> IF lastShown \in listed /\ Len(order) > 1
                              THEN Start(names, 2) ELSE 0]
<1>4. \/ disk' = Emptied /\ ram' = ram /\ ram = NotLoaded
      \/ disk' = Emptied /\ ram' = Emptied
      \/ disk' = b /\ ram' = b
      \/ disk' = disk /\ ram' = Emptied
      BY <1>3
<1>5. listed \in SUBSET Names /\ IsFiniteSet(listed)
  <2>1. IsFiniteSet(Present)
        BY PlainFiles
  <2> QED BY <2>1, FS_Subset, PresentAreNames
<1>6. /\ names \in Seq(Names) /\ IsInjective(names)
      /\ Len(order) > 1 => Len(names) > 0
      BY <1>5, ShownFirstOrder
<1> HIDE DEF names
<1>7. IsOrder(b)
  <2>1. CASE lastShown \in listed /\ Len(order) > 1
    <3>1. 2 \in 1 .. (Len(names) + 1)
          BY <1>6, <2>1
    <3> QED BY <1>6, <2>1, <3>1, OrderAt
  <2>2. CASE ~(lastShown \in listed /\ Len(order) > 1)
        BY <1>6, <2>2, OrderFromStart
  <2> QED BY <2>1, <2>2
<1> HIDE DEF b
<1>8. OrderInv'
  <2>1. IsOrder(disk') /\ (ram' # NotLoaded => IsOrder(ram'))
        BY <1>4, <1>7, EmptiedIsOrder DEF OrderInv
  <2> QED BY <2>1 DEF OrderInv, IsOrder, NotLoaded
<1>9. FolderInv' /\ FieldsInv' /\ ScreenInv'
      BY <1>1, EditStep DEF FolderInv, FieldsInv, ScreenInv, RenderedExists, Present
<1> QED BY <1>1, <1>8, <1>9, EditStep

-----------------------------------------------------------------------------
(* The way to sleep.                                                       *)

\* The folders stay as they are while nothing moves.
LEMMA UnchangedFolders ==
    ASSUME IInv, UNCHANGED folders
    PROVE  FolderInv' /\ Present' = Present
BY DEF IInv, FolderInv, folders, Present

\* A blank screen shows no picture.
LEMMA BlankSleepStep ==
    ASSUME IInv, BlankSleep
    PROVE  IInv'
<1> USE DEF IInv
<1>1. /\ UNCHANGED <<folders, lastShown, paused, disk, ram, dirty, heap, attempt, edits>>
      /\ rendered' = NoPath /\ onScreen' = NoImage /\ pc' = "asleep"
      BY DEF BlankSleep, playlist, local
<1>2. FieldsInv' /\ PickInv' /\ ScreenInv'
      BY <1>1 DEF FieldsInv, PickInv, ScreenInv
<1> QED BY <1>1, <1>2, UnchangedFolders, UnchangedOrder

\* A paused rotation draws the file the reference finds.
LEMMA PausedSleepStep ==
    ASSUME IInv, PausedSleep
    PROVE  IInv'
<1> USE DEF IInv
<1>1. /\ UNCHANGED <<folders, appState, disk, ram, dirty, heap, attempt, edits>>
      /\ RenderedExists /\ rendered.name.img \notin Corrupt
      /\ onScreen' = rendered.name.img /\ pc' = "asleep"
      BY DEF PausedSleep, playlist, local
<1>2. FieldsInv' /\ PickInv'
      BY <1>1 DEF FieldsInv, PickInv, appState
<1>3. ScreenInv'
      BY <1>1, UnchangedFolders DEF ScreenInv, RenderedExists, appState, folders
<1> QED BY <1>1, <1>2, <1>3, UnchangedFolders, UnchangedOrder

\* What is on the screen stays found while nothing moves.
LEMMA UnchangedScreen ==
    ASSUME IInv, UNCHANGED <<folders, rendered, onScreen>>
    PROVE  ScreenInv'
BY UnchangedFolders DEF IInv, ScreenInv, RenderedExists, folders

\* The playlist is only tried with files in the folder.
LEMMA BeginSleepStep ==
    ASSUME IInv, NEW h, BeginSleep(h)
    PROVE  IInv'
<1> USE DEF IInv
<1>1. /\ UNCHANGED <<folders, lastShown, rendered, paused, disk, ram, dirty, edits, onScreen>>
      /\ folder = <<>> => h = "low"
      /\ heap' = h /\ attempt' = 1
      /\ pc' \in {"reconcile", "pick"}
      BY DEF BeginSleep, appState, playlist, history, Attempt
<1>2. Retries \in Nat \ {0}
      BY LimitsAssumption
<1>3. FieldsInv'
      BY <1>1, <1>2 DEF FieldsInv
<1>4. PickInv'
      BY <1>1 DEF PickInv, folders
<1> QED BY <1>1, <1>3, <1>4, UnchangedFolders, UnchangedOrder, UnchangedScreen

\* The choice by name is a file that is there.
LEMMA PickByNameStep ==
    ASSUME IInv, PickByName
    PROVE  IInv'
<1> USE DEF IInv
<1>1. /\ UNCHANGED <<folders, lastShown, paused, disk, ram, dirty, heap, attempt, edits>>
      /\ heap = "low" /\ DirectPick
      BY DEF PickByName, playlist
<1>2. CASE folder = <<>>
  <2>1. rendered' = NoPath /\ onScreen' = NoImage /\ pc' = "asleep"
        BY <1>1, <1>2 DEF DirectPick
  <2>2. FieldsInv' /\ PickInv' /\ ScreenInv'
        BY <1>1, <2>1 DEF FieldsInv, PickInv, ScreenInv
  <2> QED BY <1>1, <2>2, UnchangedFolders, UnchangedOrder
<1>3. CASE folder # <<>>
  <2>1. /\ pick' = [name |-> Direct(directAfter), by |-> "name"]
        /\ pc' = "draw" /\ UNCHANGED <<rendered, onScreen>>
        BY <1>1, <1>3 DEF DirectPick
  <2>2. pick'.name \in Present
        BY <1>3, <2>1, DirectIsPresent DEF FolderInv
  <2>3. FieldsInv'
        BY <1>1, <2>1 DEF FieldsInv
  <2>4. PickInv'
        BY <1>1, <2>2, UnchangedFolders DEF PickInv
  <2> QED BY <1>1, <2>1, <2>3, <2>4, UnchangedFolders, UnchangedOrder, UnchangedScreen
<1> QED BY <1>2, <1>3

\* The choice that the way over the order makes: in a folder with files.
LEMMA OrdersAreOrders ==
    ASSUME IInv, pc = "pick", heap # "low", NEW b \in Orders
    PROVE  IsOrder(b) /\ b.names # <<>>
<1> USE DEF IInv
<1>1. CASE ram.names # <<>>
  <2>1. ram # NotLoaded
        BY <1>1 DEF NotLoaded
  <2> QED BY <1>1, <2>1 DEF Orders, OrderInv
<1>2. CASE ram.names = <<>>
  <2>1. b \in Laps(folder)
        BY <1>2 DEF Orders
  <2>2. folder \in Seq(Names) /\ IsInjective(folder) /\ folder # <<>>
        BY DEF FolderInv, PickInv
  <2> QED BY <2>1, <2>2, LapsAreOrders, LapIsNotEmpty
<1> QED BY <1>1, <1>2

\* The choice from the order is a file that is there, and the cursor goes on to
\* the beginning of an entry.
LEMMA PickFromOrderStep ==
    ASSUME IInv, PickFromOrder
    PROVE  IInv'
<1> USE DEF IInv
<1>1. /\ UNCHANGED <<folders, rendered, paused, dirty, heap, attempt, edits, onScreen>>
      /\ pc = "pick" /\ heap # "low" /\ pc' = "draw" /\ lastShown' = pick'.name
      BY DEF PickFromOrder
<1>2. PICK b \in Orders :
        /\ Hits(b) # {}
        /\ ram' = Passed(b, Min(Hits(b))) /\ disk' = ram'
        /\ pick' = [name |-> b.names[Turn(b, Min(Hits(b)))], by |-> "order"]
      BY DEF PickFromOrder
<1> DEFINE k == Min(Hits(b))
<1>3. k \in Nat /\ Hit(b, k)
  <2>1. Hits(b) \in SUBSET Nat
        BY LimitsAssumption DEF Hits
  <2>2. k \in Hits(b)
        BY <1>2, <2>1, MinOfNats
  <2> QED BY <2>1, <2>2 DEF Hits
<1> HIDE DEF k
<1>4. IsOrder(Passed(b, k))
      BY <1>1, <1>2, <1>3, OrdersAreOrders, TurnOfOrder
<1>5. OrderInv'
  <2>1. ram' = Passed(b, k) /\ disk' = Passed(b, k)
        BY <1>2 DEF k
  <2> QED BY <1>4, <2>1 DEF OrderInv, IsOrder, NotLoaded
<1>6. pick'.name \in Present
  <2>1. pick'.name = b.names[Turn(b, k)]
        BY <1>2 DEF k
  <2> QED BY <1>3, <2>1 DEF Hit
<1>7. FieldsInv'
  <2>1. lastShown' \in Names
        BY <1>1, <1>6, PresentAreNames
  <2> QED BY <1>1, <2>1 DEF FieldsInv
<1>8. PickInv'
      BY <1>1, <1>6, UnchangedFolders DEF PickInv, folders
<1> QED BY <1>1, <1>5, <1>7, <1>8, UnchangedFolders, UnchangedScreen

\* A lap that finds no file leaves the cursor at the beginning of an entry.
LEMMA PickPastOrderStep ==
    ASSUME IInv, PickPastOrder
    PROVE  IInv'
<1> USE DEF IInv
<1>1. /\ UNCHANGED <<folders, lastShown, paused, dirty, heap, attempt, edits>>
      /\ pc = "pick" /\ heap # "low" /\ DirectPick
      BY DEF PickPastOrder
<1>2. folder # <<>>
      BY <1>1 DEF PickInv
<1>3. /\ pick' = [name |-> Direct(directAfter), by |-> "name"]
      /\ pc' = "draw" /\ UNCHANGED <<rendered, onScreen>>
      BY <1>1, <1>2 DEF DirectPick
<1>4. pick'.name \in Present
      BY <1>2, <1>3, DirectIsPresent DEF FolderInv
<1>5. OrderInv'
  <2>1. CASE UNCHANGED <<ram, disk>>
        BY <2>1, UnchangedOrder
  <2>2. CASE /\ ram.names # <<>>
             /\ ram' = Passed(ram, SkipBudget - 1)
             /\ disk' = IF Wraps(ram, SkipBudget - 1) THEN [ram EXCEPT !.cursor = 0] ELSE disk
    <3>1. IsOrder(ram)
          BY <2>2 DEF NotLoaded, OrderInv
    <3>2. SkipBudget - 1 \in Nat
          BY LimitsAssumption
    <3>3. IsOrder(Passed(ram, SkipBudget - 1)) /\ IsOrder([ram EXCEPT !.cursor = 0])
          BY <2>2, <3>1, <3>2, TurnOfOrder
    <3>4. IsOrder(ram') /\ IsOrder(disk')
      <4>1. disk' \in {[ram EXCEPT !.cursor = 0], disk}
            BY <2>2
      <4> QED BY <2>2, <3>3, <4>1 DEF OrderInv
    <3> QED BY <3>4 DEF OrderInv, IsOrder, NotLoaded
  <2> QED BY <2>1, <2>2 DEF PickPastOrder
<1>6. FieldsInv'
      BY <1>1, <1>3 DEF FieldsInv
<1>7. PickInv'
      BY <1>1, <1>4, UnchangedFolders DEF PickInv, folders
<1> QED BY <1>1, <1>3, <1>5, <1>6, <1>7, UnchangedFolders, UnchangedScreen

\* What is drawn is there, and can be drawn.
LEMMA DrawStep ==
    ASSUME IInv, Draw
    PROVE  IInv'
<1> USE DEF IInv
<1>1. /\ UNCHANGED <<folders, paused, disk, ram, dirty, heap, attempt, edits>>
      /\ pick.name.img \notin Corrupt /\ pick.name \in Present
      /\ rendered' = Path("sleep", pick.name) /\ lastShown' = pick.name
      /\ onScreen' = pick.name.img /\ pc' = "asleep"
      BY DEF Draw, playlist, local, PickInv
<1>2. pick.name \in Names
      BY <1>1, PresentAreNames
<1>3. /\ rendered'.dir = "sleep" /\ rendered'.name = pick.name
      /\ rendered' \in [dir : {"sleep", "pause"}, name : Names]
      BY <1>1, <1>2 DEF Path
<1>4. FieldsInv'
      BY <1>1, <1>2, <1>3 DEF FieldsInv
<1>5. ScreenInv'
      BY <1>1, <1>3, UnchangedFolders DEF ScreenInv, RenderedExists
<1>6. PickInv'
      BY <1>1 DEF PickInv
<1> QED BY <1>1, <1>4, <1>5, <1>6, UnchangedFolders, UnchangedOrder

\* A further try begins as the first one did.
LEMMA DrawFailsStep ==
    ASSUME IInv, DrawFails
    PROVE  IInv'
<1> USE DEF IInv
<1>1. /\ UNCHANGED <<folders, lastShown, paused, disk, ram, dirty, heap, edits>>
      /\ pc = "draw" /\ attempt \in 0 .. Retries /\ Retries \in Nat
      BY LimitsAssumption DEF DrawFails, playlist, FieldsInv
<1>2. CASE attempt < Retries
  <2>1. /\ attempt' = attempt + 1 /\ UNCHANGED <<rendered, onScreen>>
        /\ pc' \in {"reconcile", "pick"}
        BY <1>2 DEF DrawFails, Attempt
  <2>2. FieldsInv'
        BY <1>1, <1>2, <2>1 DEF FieldsInv
  <2>3. PickInv'
        BY <1>1, <2>1 DEF PickInv, folders
  <2> QED BY <1>1, <2>1, <2>2, <2>3, UnchangedFolders, UnchangedOrder, UnchangedScreen
<1>3. CASE ~(attempt < Retries)
  <2>1. rendered' = NoPath /\ onScreen' = NoImage /\ pc' = "asleep" /\ attempt' = attempt
        BY <1>3 DEF DrawFails
  <2>2. FieldsInv' /\ PickInv' /\ ScreenInv'
        BY <1>1, <2>1 DEF FieldsInv, PickInv, ScreenInv
  <2> QED BY <1>1, <2>2, UnchangedFolders, UnchangedOrder
<1> QED BY <1>2, <1>3

\* A reset forgets the copy in memory, and nothing on the card.
LEMMA ResetStep ==
    ASSUME IInv, Reset, edits' \in 0 .. MaxEdits
    PROVE  IInv'
<1> USE DEF IInv
<1>1. /\ UNCHANGED <<folders, lastShown, rendered, paused, disk, onScreen>>
      /\ ram' = NotLoaded /\ dirty' = TRUE /\ attempt' = 0 /\ pc' = "awake"
      BY DEF Reset, appState
<1>2. Retries \in Nat
      BY LimitsAssumption
<1>3. FieldsInv' /\ PickInv'
      BY <1>1, <1>2 DEF FieldsInv, PickInv
<1>4. OrderInv'
      BY <1>1 DEF OrderInv, IsOrder, NotLoaded
<1> QED BY <1>1, <1>3, <1>4, UnchangedFolders, UnchangedScreen

\* What is taken into the order was not in it, and is not folded in twice.
LEMMA SettledOrder ==
    ASSUME IInv, FolderInv', NEW room \in Rooms, NEW gone, NEW moved, NEW b,
           IsOrder(b), Settle(room, gone, moved, b)
    PROVE  /\ IsOrder(ram') /\ (IsOrder(disk') \/ disk' = disk)
           /\ dirty' \in BOOLEAN
<1> USE DEF IInv
<1> DEFINE new == Unknown(Present \ gone, b)
<1>1. PICK batch \in SUBSET new :
         LET renamed == RenameInBuffer(b, batch, room.grow)
             folded == {renamed.names[i] :
                          i \in {j \in DOMAIN b.names : renamed.names[j] # b.names[j]}}
             fresh == batch \ folded
             truncated == batch # new
         IN \/ /\ fresh = {}
               /\ ram' = renamed /\ dirty' = truncated
               /\ disk' = IF folded # {} THEN renamed ELSE disk
            \/ /\ fresh # {} /\ ~room.splice
               /\ ram' = renamed /\ UNCHANGED dirty
               /\ disk' = IF folded # {} THEN renamed ELSE disk
            \/ /\ fresh # {} /\ room.splice
               /\ ram' \in IF renamed.names = <<>> THEN Laps(folder')
                            ELSE {[names |-> Kept(folder, fresh) \o renamed.names,
                                   cursor |-> 0]}
               /\ disk' = ram' /\ dirty' = truncated
      BY DEF Settle, kSubset
<1> DEFINE renamed == RenameInBuffer(b, batch, room.grow)
           folded == {renamed.names[i] :
                        i \in {j \in DOMAIN b.names : renamed.names[j] # b.names[j]}}
           fresh == batch \ folded
<1>2. batch \in SUBSET Names /\ batch \cap ToSet(b.names) = {}
      BY PresentAreNames DEF Unknown
<1>3. room.grow \in BOOLEAN
      BY DEF Rooms
<1>4. /\ IsOrder(renamed) /\ DOMAIN renamed.names = DOMAIN b.names
      /\ \A i \in DOMAIN b.names : renamed.names[i] \in batch \cup {b.names[i]}
      BY <1>2, <1>3, RenamedOrder
<1>5. dirty \in BOOLEAN
      BY DEF FieldsInv
<1>6. \/ /\ ram' = renamed /\ (disk' = renamed \/ disk' = disk) /\ dirty' \in BOOLEAN
      \/ /\ ram' \in IF renamed.names = <<>> THEN Laps(folder')
                      ELSE {[names |-> Kept(folder, fresh) \o renamed.names, cursor |-> 0]}
         /\ disk' = ram' /\ dirty' \in BOOLEAN
      BY <1>1, <1>5
<1>7. ToSet(renamed.names) \cap fresh = {}
  <2>1. SUFFICES ASSUME NEW i \in DOMAIN b.names PROVE renamed.names[i] \notin fresh
        BY <1>4 DEF ToSet
  <2>2. CASE renamed.names[i] = b.names[i]
    <3>1. b.names[i] \in ToSet(b.names)
          BY DEF ToSet
    <3> QED BY <1>2, <2>2, <3>1
  <2>3. CASE renamed.names[i] # b.names[i]
        BY <2>3
  <2> QED BY <2>2, <2>3
<1> HIDE DEF renamed, fresh
<1>8. IsOrder([names |-> Kept(folder, fresh) \o renamed.names, cursor |-> 0])
  <2>1. renamed.names \in Seq(Names) /\ IsInjective(renamed.names)
        BY <1>4 DEF IsOrder
  <2>2. /\ Kept(folder, fresh) \in Seq(Names) /\ IsInjective(Kept(folder, fresh))
        /\ ToSet(Kept(folder, fresh)) = ToSet(folder) \cap fresh
        BY KeptSet DEF FolderInv
  <2>3. ToSet(Kept(folder, fresh)) \cap ToSet(renamed.names) = {}
        BY <1>7, <2>2
  <2> QED BY <2>1, <2>2, <2>3, Spliced, OrderFromStart
<1>9. \A lap \in Laps(folder') : IsOrder(lap)
      BY LapsAreOrders DEF FolderInv
<1>10. CASE ram' = renamed /\ (disk' = renamed \/ disk' = disk) /\ dirty' \in BOOLEAN
       BY <1>4, <1>10
<1>11. CASE /\ ram' \in IF renamed.names = <<>> THEN Laps(folder')
                         ELSE {[names |-> Kept(folder, fresh) \o renamed.names, cursor |-> 0]}
            /\ disk' = ram' /\ dirty' \in BOOLEAN
  <2>1. IsOrder(ram')
    <3>1. CASE renamed.names = <<>>
          BY <1>9, <1>11, <3>1
    <3>2. CASE renamed.names # <<>>
          BY <1>8, <1>11, <3>2
    <3> QED BY <3>1, <3>2
  <2> QED BY <1>11, <2>1
<1> QED BY <1>6, <1>10, <1>11

\* The files a reconcile moves away are those of a trim of a folder over its cap.
Goes(room) == IF Len(folder) > Cap /\ room.list THEN Trimmed ELSE {}

\* The files that go are plain ones in the folder.
LEMMA GoneFiles ==
    ASSUME FolderInv, NEW room
    PROVE  Goes(room) \subseteq {n \in Present : ~n.fav} /\ Goes(room) \in SUBSET Present
BY TrimLeavesSome DEF Goes

\* A reconcile leaves files in the folder, an order, and the reference right.
LEMMA ReconcileStep ==
    ASSUME IInv, Reconcile
    PROVE  IInv'
<1> USE DEF IInv
<1>1. /\ UNCHANGED <<paused, heap, attempt, onScreen>>
      /\ pc = "reconcile" /\ pc' = "pick"
      BY DEF Reconcile, local
<1>2. PICK room \in Rooms : \E moved \in SUBSET Movable(Goes(room)) :
        /\ MoveToPause(moved) /\ (edits' = edits \/ (edits < MaxEdits /\ edits' = edits + 1))
        /\ Settle(room, Goes(room), moved, IF ram = NotLoaded THEN disk ELSE ram)
      BY DEF Reconcile, Goes
<1> PICK moved \in SUBSET Movable(Goes(room)) :
        /\ MoveToPause(moved) /\ (edits' = edits \/ (edits < MaxEdits /\ edits' = edits + 1))
        /\ Settle(room, Goes(room), moved, IF ram = NotLoaded THEN disk ELSE ram)
    BY <1>2
<1>3. moved \in SUBSET Present /\ moved \subseteq Goes(room)
      BY GoneFiles DEF Movable
<1>4. /\ FolderInv' /\ Present' = Present \ moved
      /\ lastShown' \in Names \cup {NoName} /\ ScreenInv'
      /\ rendered' \in [dir : {"sleep", "pause"}, name : Names] \cup {NoPath}
      BY <1>1, <1>3, MovedToPause
<1>5. /\ IsOrder(ram') /\ (IsOrder(disk') \/ disk' = disk)
      /\ dirty' \in BOOLEAN
  <2>1. IsOrder(IF ram = NotLoaded THEN disk ELSE ram)
        BY DEF OrderInv
  <2> QED BY <1>4, <2>1, SettledOrder
<1>6. OrderInv'
  <2>1. IsOrder(disk')
        BY <1>5 DEF OrderInv
  <2> QED BY <1>5, <2>1 DEF OrderInv, IsOrder, NotLoaded
<1>7. FieldsInv'
  <2>1. edits' \in 0..MaxEdits
        BY LimitsAssumption DEF FieldsInv
  <2> QED BY <1>1, <1>4, <1>5, <2>1 DEF FieldsInv
<1>8. heap # "low" => folder' # <<>>
  <2>1. SUFFICES ASSUME folder # <<>> PROVE folder' # <<>>
        BY <1>1 DEF PickInv
  <2>2. Present \ Goes(room) # {}
    <3>1. CASE Len(folder) > Cap /\ room.list
          BY <3>1, TrimLeavesSome DEF Goes
    <3>2. CASE ~(Len(folder) > Cap /\ room.list)
      <4>1. folder \in Seq(Names) /\ 1 \in DOMAIN folder
            BY <2>1 DEF FolderInv
      <4>2. Present # {}
            BY <4>1 DEF Present, ToSet
      <4> QED BY <3>2, <4>2 DEF Goes
    <3> QED BY <3>1, <3>2
  <2>3. Present' # {}
        BY <1>3, <1>4, <2>2
  <2> QED BY <2>3 DEF Present, ToSet
<1>9. PickInv'
      BY <1>1, <1>8 DEF PickInv
<1> QED BY <1>4, <1>6, <1>7, <1>9

-----------------------------------------------------------------------------
(* The invariant of the specification, and what follows from it.           *)

\* The invariant holds at first.
LEMMA InitInv ==
    ASSUME Init
    PROVE  IInv
<1>1. Stock \in Seq(Images) /\ IsInjective(Stock)
      BY StockAssumption
<1>2. /\ DOMAIN folder = DOMAIN Stock
      /\ \A i \in DOMAIN Stock : folder[i] = [img |-> Stock[i], fav |-> FALSE]
      BY DEF Init
<1>3. folder \in Seq(Names)
  <2>1. Len(Stock) \in Nat /\ DOMAIN Stock = 1 .. Len(Stock)
        BY <1>1
  <2>2. \A i \in 1 .. Len(Stock) : [img |-> Stock[i], fav |-> FALSE] \in Names
        BY <1>1 DEF Names
  <2>3. folder \in [1 .. Len(Stock) -> Names]
        BY <2>1, <2>2 DEF Init
  <2> QED BY <2>1, <2>3
<1>4. IsInjective(folder)
  <2>1. \A i \in DOMAIN Stock : folder[i].img = Stock[i]
        BY <1>2
  <2> QED BY <1>1, <1>2, <2>1 DEF IsInjective
<1>5. FolderInv
      BY <1>3, <1>4 DEF Init, FolderInv
<1>6. FieldsInv
  <2>1. Retries \in Nat /\ MaxEdits \in Nat
        BY LimitsAssumption
  <2>2. 0 \in 0 .. Retries /\ 0 \in 0 .. MaxEdits
        BY <2>1
  <2>3. /\ lastShown = NoName /\ rendered = NoPath /\ paused = FALSE /\ dirty = TRUE
        /\ pc = "awake" /\ attempt = 0 /\ edits = 0
        BY DEF Init
  <2> QED BY <2>2, <2>3 DEF FieldsInv
<1>7. OrderInv
      BY EmptiedIsOrder DEF Init, OrderInv
<1>8. PickInv /\ ScreenInv
      BY DEF Init, PickInv, ScreenInv
<1> QED BY <1>5, <1>6, <1>7, <1>8 DEF IInv

\* Every step keeps the invariant.
LEMMA StepInv ==
    ASSUME IInv, [Next]_vars
    PROVE  IInv'
<1>1. ASSUME NEW n \in Names, AddFile(n) PROVE IInv'
      BY <1>1, AddFileStep
<1>2. ASSUME NEW n \in Names, RemoveFile(n) PROVE IInv'
      BY <1>2, RemoveFileStep
<1>3. ASSUME NEW n \in Names, ToggleFavourite(n) PROVE IInv'
      BY <1>3, ToggleFavouriteStep
<1>4. CASE ToggleInPause
      BY <1>4, ToggleInPauseStep
<1>5. CASE TriageMovePause
      BY <1>5, TriageMovePauseStep
<1>6. CASE TriageDelete
      BY <1>6, TriageDeleteStep
<1>7. CASE TogglePause
      BY <1>7, TogglePauseStep
<1>8. ASSUME NEW S \in SUBSET Present, MoveRandomToPause(S) PROVE IInv'
      BY <1>8, MoveRandomToPauseStep
<1>9. ASSUME NEW fits \in BOOLEAN, Reshuffle(fits) PROVE IInv'
      BY <1>9, ReshuffleStep
<1>10. CASE BlankSleep
       BY <1>10, BlankSleepStep
<1>11. CASE PausedSleep
       BY <1>11, PausedSleepStep
<1>12. ASSUME NEW h \in {"low", "tight", "roomy"}, BeginSleep(h) PROVE IInv'
       BY <1>12, BeginSleepStep
<1>13. CASE Reconcile
       BY <1>13, ReconcileStep
<1>14. CASE PickByName
       BY <1>14, PickByNameStep
<1>15. CASE PickFromOrder
       BY <1>15, PickFromOrderStep
<1>16. CASE PickPastOrder
       BY <1>16, PickPastOrderStep
<1>17. CASE Draw
       BY <1>17, DrawStep
<1>18. CASE DrawFails
       BY <1>18, DrawFailsStep
<1>19. edits \in 0 .. MaxEdits /\ MaxEdits \in Nat
       BY LimitsAssumption DEF IInv, FieldsInv
<1>20. CASE Wake
  <2>1. Reset /\ edits' \in 0 .. MaxEdits
        BY <1>19, <1>20 DEF Wake
  <2> QED BY <2>1, ResetStep
<1>21. CASE PowerCut
  <2>1. Reset /\ edits' \in 0 .. MaxEdits
        BY <1>19, <1>21 DEF PowerCut
  <2> QED BY <2>1, ResetStep
<1>22. CASE UNCHANGED vars
  <2>1. /\ UNCHANGED <<folders, lastShown, rendered, paused, disk, ram, dirty, heap>>
        /\ UNCHANGED <<attempt, pick, edits, onScreen, pc>>
        BY <1>22 DEF vars, appState, playlist, local, history
  <2>2. FieldsInv' /\ PickInv'
        BY <2>1 DEF IInv, FieldsInv, PickInv, folders, Present
  <2> QED BY <2>1, <2>2, UnchangedFolders, UnchangedOrder, UnchangedScreen DEF IInv
<1> QED BY <1>1, <1>2, <1>3, <1>4, <1>5, <1>6, <1>7, <1>8, <1>9, <1>10, <1>11, <1>12,
           <1>13, <1>14, <1>15, <1>16, <1>17, <1>18, <1>20, <1>21, <1>22 DEF Next

\* Every state of the rotation satisfies the inductive invariant.
THEOREM Invariance == Spec => []IInv
<1>1. Init => IInv
      BY InitInv
<1>2. IInv /\ [Next]_vars => IInv'
      BY StepInv
<1> QED BY <1>1, <1>2, PTL DEF Spec

\* The order never repeats a name and its cursor always stands where a name begins,
\* for any set of pictures and any limits (WallpaperPlaylistV2: renameInBuffer,
\* reconcile, rebuildSequential, reshuffle and advance together).
THEOREM TypeCorrect == Spec => []TypeOK
<1>1. ASSUME IInv PROVE TypeOK
  <2>1. /\ ToSet(folder) \subseteq Names /\ pauseDir \subseteq Names
        BY <1>1, PresentAreNames DEF IInv, FolderInv, Present
  <2>2. ASSUME NEW b, IsOrder(b)
        PROVE  /\ ToSet(b.names) \subseteq Names
               /\ Cardinality(ToSet(b.names)) = Len(b.names)
               /\ b.cursor = Start(b.names, EntryAt(b))
        BY <2>2, ToSetCounts, CursorFindsEntry DEF IsOrder
  <2>3. \A b \in {disk, ram} \ {NotLoaded} : IsOrder(b)
        BY <1>1 DEF IInv, OrderInv
  <2> QED BY <1>1, <2>1, <2>2, <2>3 DEF TypeOK, IInv, FieldsInv
<1> QED BY <1>1, Invariance, PTL

\* A paused rotation shows the picture of the last sleep again: whoever renames,
\* trims or moves its file takes lastSleepWallpaperPath along.
THEOREM PausedStays == Spec => PausedKeeps
<1> DEFINE Keeps == pc = "awake" /\ pc' # "awake" /\ paused /\ onScreen # NoImage
                      /\ rendered' # NoPath
                    => pc' = "asleep" /\ onScreen' = onScreen
<1>1. ASSUME IInv, [Next]_vars PROVE [Keeps]_vars
  <2>1. SUFFICES ASSUME pc = "awake", pc' # "awake", paused, onScreen # NoImage,
                        rendered' # NoPath
                 PROVE  pc' = "asleep" /\ onScreen' = onScreen
        OBVIOUS
  <2>2. /\ RenderedExists /\ rendered.name.img = onScreen
        /\ rendered.name.img \notin Corrupt
        BY <1>1, <2>1 DEF IInv, ScreenInv
  <2>3. BlankSleep \/ PausedSleep \/ \E h \in {"low", "tight", "roomy"} : BeginSleep(h)
    <3>1. ~Edit
          BY <2>1 DEF Edit
    <3>2. ~UNCHANGED vars
          BY <2>1 DEF vars
    <3> QED BY <1>1, <2>1, <3>1, <3>2
            DEF Next, AddFile, RemoveFile, ToggleFavourite, ToggleInPause,
                TriageMovePause, TriageDelete, TogglePause, MoveRandomToPause,
                Reshuffle, Reconcile, PickByName, PickFromOrder, PickPastOrder,
                Draw, DrawFails, Wake, PowerCut, Reset
  <2>4. ~BlankSleep
        BY <2>1 DEF BlankSleep
  <2>5. ~\E h \in {"low", "tight", "roomy"} : BeginSleep(h)
        BY <2>1, <2>2 DEF BeginSleep
  <2> QED BY <2>2, <2>3, <2>4, <2>5 DEF PausedSleep
<1>2. Spec => [][Keeps]_vars
      BY <1>1, Invariance, PTL DEF Spec
<1> QED BY <1>2 DEF PausedKeeps

\* trimToCap takes files only from a folder over its cap, no favourite, and, unless
\* the card fails a rename, no file while an older plain one stays whose name is free.
THEOREM OldestGoes == Spec => TrimsOldest
<1> DEFINE Rule ==
             /\ Len(folder) > Cap
             /\ Len(folder') >= Min({Cap, Cardinality({n \in Present : n.fav})})
             /\ \A i \in DOMAIN folder : folder[i] \notin ToSet(folder') =>
                  /\ ~folder[i].fav
                  /\ edits' = edits =>
                       \A j \in (i + 1) .. Len(folder) :
                          folder[j] \in ToSet(folder') =>
                              folder[j].fav \/ folder[j] \in pauseDir
           Trims == pc = "reconcile" /\ pc' = "pick" /\ folder' # folder => Rule
<1>1. ASSUME IInv, [Next]_vars PROVE [Trims]_vars
  <2> SUFFICES ASSUME pc = "reconcile", pc' = "pick", folder' # folder
               PROVE  Rule
      OBVIOUS
  <2>1. Reconcile
    <3>1. ~Edit
          BY DEF Edit
    <3>2. ~UNCHANGED vars
          BY DEF vars
    <3> QED BY <1>1, <3>1, <3>2
            DEF Next, AddFile, RemoveFile, ToggleFavourite, ToggleInPause,
                TriageMovePause, TriageDelete, TogglePause, MoveRandomToPause,
                Reshuffle, BlankSleep, PausedSleep, BeginSleep, PickByName,
                PickFromOrder, PickPastOrder, Draw, DrawFails, Wake, PowerCut, Reset
  <2> DEFINE Moves(room, moved) ==
               /\ moved \subseteq Goes(room) /\ MoveToPause(moved)
               /\ \/ moved = Movable(Goes(room))
                  \/ edits' = edits + 1
  <2> PICK room \in Rooms : \E moved \in SUBSET Movable(Goes(room)) : Moves(room, moved)
      BY <2>1 DEF Reconcile, Goes, Movable
  <2>2. PICK moved \in SUBSET Movable(Goes(room)) : Moves(room, moved)
        OBVIOUS
  <2>3. FolderInv /\ FolderInv' /\ Present' = Present \ moved
        BY <1>1, <2>2, GoneFiles, MovedToPause DEF IInv
  <2>4. folder \in Seq(Names) /\ folder' = Without(folder, moved)
        BY <2>2, <2>3 DEF MoveToPause, FolderInv
  <2>5. Len(folder) > Cap /\ Goes(room) = Trimmed
    <3>1. CASE Goes(room) = {}
      <4>1. moved = {}
            BY <2>2, <3>1
      <4> QED BY <2>4, <4>1, WithoutNone
    <3>2. CASE Goes(room) # {}
          BY <3>2 DEF Goes
    <3> QED BY <3>1, <3>2
  <2>6. Trimmed \subseteq {n \in Present : ~n.fav}
        BY <2>3, <2>5, TrimLeavesSome
  <2>7. Len(folder') >= Min({Cap, Cardinality({n \in Present : n.fav})})
    <3> DEFINE favs == {n \in Present : n.fav}
    <3>1. favs \subseteq Present'
          BY <2>2, <2>3, <2>5, <2>6
    <3>2. /\ IsFiniteSet(Present') /\ Cardinality(Present') = Len(folder')
          /\ Len(folder') \in Nat
          BY <2>3, ToSetCounts DEF FolderInv, Present
    <3>3. /\ Cardinality(favs) \in Nat
          /\ Cardinality(favs) <= Len(folder')
          BY <3>1, <3>2, FS_Subset, FS_CardinalityType
    <3>4. Cap \in Nat
          BY LimitsAssumption
    <3> HIDE DEF favs, Moves
    <3>5. Min({Cap, Cardinality(favs)}) <= Cardinality(favs)
          /\ Min({Cap, Cardinality(favs)}) \in Nat
          BY <3>3, <3>4, MinOfNats
    <3>6. Len(folder') >= Min({Cap, Cardinality(favs)})
          BY <3>2, <3>3, <3>5
    <3> QED BY <3>6 DEF favs
  <2>8. ASSUME NEW i \in DOMAIN folder, folder[i] \notin ToSet(folder')
        PROVE  /\ ~folder[i].fav /\ folder[i] \in Trimmed
    <3>1. folder[i] \in Present /\ folder[i] \notin Present'
          BY <2>8 DEF Present, ToSet
    <3>2. folder[i] \in Trimmed
          BY <2>2, <2>3, <2>5, <3>1
    <3> QED BY <2>6, <3>2
  <2>9. ASSUME edits' = edits, NEW i \in DOMAIN folder, folder[i] \notin ToSet(folder'),
               NEW j \in (i + 1) .. Len(folder), folder[j] \in ToSet(folder'),
               ~folder[j].fav
        PROVE  folder[j] \in pauseDir
    <3>1. j \in DOMAIN folder /\ i < j
          BY <2>4
    <3>2. folder[j] \in Trimmed
          BY <2>3, <2>5, <2>8, <2>9, <3>1, TrimTakesOldest
    <3>3. moved = Movable(Trimmed)
      <4>1. edits \in Nat
            BY <1>1, LimitsAssumption DEF IInv, FieldsInv
      <4> QED BY <2>2, <2>5, <2>9, <4>1
    <3>4. folder[j] \in Present' /\ folder[j] \notin Movable(Trimmed)
          BY <2>3, <2>9, <3>3 DEF Present
    <3> QED BY <3>2, <3>4 DEF Movable
  <2> QED BY <2>5, <2>7, <2>8, <2>9
<1> QED BY <1>1, Invariance, PTL DEF Spec, TrimsOldest
=============================================================================
