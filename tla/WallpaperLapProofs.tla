-------------------------- MODULE WallpaperLapProofs --------------------------
(***************************************************************************)
(* A lap of the sleep pictures shows each before one comes back.  The      *)
(* invariant cuts the order in two at the cursor: the entries ahead, none  *)
(* of which has been shown since the order was settled, and the others,    *)
(* each of which has been shown if its picture can be (LapAt).  It holds   *)
(* across resets because no picture has two entries or two files           *)
(* (TwinInv), and because a reconcile that leaves a file out of the order  *)
(* starts the count anew (KnownInv).                                       *)
(***************************************************************************)
EXTENDS WallpaperPlaylistProofs

-----------------------------------------------------------------------------
(* Turns around a list.                                                    *)

\* A number is its quotient's multiple and its remainder.
LEMMA Quotient ==
    ASSUME NEW n \in Nat \ {0}, NEW a \in Nat
    PROVE  /\ a = n * (a \div n) + (a % n) /\ a \div n \in Nat
           /\ a % n \in Nat /\ a % n < n
OBVIOUS

\* No multiple of n but 0 lies between -n and n.
LEMMA SmallMultiple ==
    ASSUME NEW n \in Nat \ {0}, NEW t \in Int, -n < n * t, n * t < n
    PROVE  t = 0
<1>1. CASE t >= 1
  <2>1. n * t >= n
        BY <1>1
  <2> QED BY <2>1
<1>2. CASE t <= -1
  <2>1. n * t <= -n
        BY <1>2
  <2> QED BY <2>1
<1> QED BY <1>1, <1>2

\* Numbers a multiple of n apart have the same remainder.
LEMMA SameRemainder ==
    ASSUME NEW n \in Nat \ {0}, NEW a \in Nat, NEW b \in Nat, NEW t \in Int, b = a + n * t
    PROVE  b % n = a % n
<1> DEFINE qa == a \div n
           qb == b \div n
           ra == a % n
           rb == b % n
<1>1. a = n * qa + ra /\ qa \in Nat /\ ra \in Nat /\ ra < n
      BY Quotient
<1>2. b = n * qb + rb /\ qb \in Nat /\ rb \in Nat /\ rb < n
      BY Quotient
<1> HIDE DEF qa, qb, ra, rb
<1>3. rb - ra = n * (qa + t - qb)
      BY <1>1, <1>2
<1>4. qa + t - qb \in Int
      BY <1>1, <1>2
<1>5. -n < rb - ra /\ rb - ra < n
      BY <1>1, <1>2
<1>6. qa + t - qb = 0
      BY <1>3, <1>4, <1>5, SmallMultiple
<1>7. rb = ra
      BY <1>1, <1>2, <1>3, <1>6
<1> QED BY <1>7 DEF ra, rb

\* A whole turn further the remainder is the same.
LEMMA WholeTurn ==
    ASSUME NEW n \in Nat \ {0}, NEW a, NEW b, a \in Nat, b \in Nat, b = a + n
    PROVE  b % n = a % n
<1>1. b = a + n * 1 /\ 1 \in Int
      OBVIOUS
<1> QED BY <1>1, SameRemainder

\* Less than a whole turn apart, remainders differ.
LEMMA OtherRemainder ==
    ASSUME NEW n \in Nat \ {0}, NEW a \in Nat, NEW b \in Nat, a < b, b - a < n
    PROVE  a % n # b % n
<1> DEFINE qa == a \div n
           qb == b \div n
<1>1. a = n * qa + (a % n) /\ qa \in Nat /\ a % n \in Nat
      BY Quotient
<1>2. b = n * qb + (b % n) /\ qb \in Nat /\ b % n \in Nat
      BY Quotient
<1> HIDE DEF qa, qb
<1>3. ASSUME a % n = b % n PROVE FALSE
  <2>1. b - a = n * (qb - qa) /\ qb - qa \in Int
        BY <1>1, <1>2, <1>3
  <2>2. qb - qa = 0
        BY <2>1, SmallMultiple
  <2>3. b - a = 0
        BY <2>1, <2>2
  <2> QED BY <2>3
<1> QED BY <1>3

\* A turn begun where another ended goes on with it.
LEMMA TurnedOn ==
    ASSUME NEW n \in Nat \ {0}, NEW a \in Nat, NEW c \in Nat
    PROVE  ((a % n) + c) % n = (a + c) % n
<1> DEFINE q == a \div n
           r == a % n
<1>1. a = n * q + r /\ q \in Nat /\ r \in Nat
      BY Quotient
<1> HIDE DEF q, r
<1>2. a + c = (r + c) + n * q /\ a + c \in Nat /\ r + c \in Nat /\ q \in Int
      BY <1>1
<1>3. (a + c) % n = (r + c) % n
      BY <1>2, SameRemainder
<1> QED BY <1>3 DEF r

\* A number below n is its own remainder.
LEMMA RemainderOfSmall ==
    ASSUME NEW n \in Nat \ {0}, NEW a \in Nat, a < n
    PROVE  a % n = a
OBVIOUS

\* A cursor at the beginning of an entry stands on that entry.
LEMMA EntryOfStart ==
    ASSUME NEW names \in Seq(Names), IsInjective(names),
           NEW i \in 1 .. (Len(names) + 1)
    PROVE  EntryAt([names |-> names, cursor |-> Start(names, i)]) = i
<1> DEFINE b == [names |-> names, cursor |-> Start(names, i)]
           e == EntryAt(b)
<1>1. IsOrder(b) /\ b.names = names /\ b.cursor = Start(names, i)
      BY OrderAt
<1>2. e \in 1 .. (Len(names) + 1) /\ Start(names, e) = Start(names, i)
      BY <1>1, CursorFindsEntry
<1> HIDE DEF e, b
<1>3. i \in Nat \ {0} /\ e \in Nat \ {0}
      BY <1>2
<1>4. /\ Start(names, e) \in Nat /\ Start(names, i) \in Nat
      /\ e < i => Start(names, e) < Start(names, i)
      /\ i < e => Start(names, i) < Start(names, e)
      BY <1>3, StartGrows
<1>5. e = i
      BY <1>2, <1>3, <1>4
<1> QED BY <1>5 DEF e, b

\* The turns of one lap: each entry once, beginning at the cursor.
LEMMA TurnsOfLap ==
    ASSUME NEW b, IsOrder(b), b.names # <<>>
    PROVE  /\ Len(b.names) \in Nat \ {0} /\ DOMAIN b.names = 1 .. Len(b.names)
           /\ \A k \in Nat : Turn(b, k) \in DOMAIN b.names
           /\ \A k, m \in Nat : k < m /\ m - k < Len(b.names) => Turn(b, k) # Turn(b, m)
           /\ \A k \in Nat : Turn(b, k + Len(b.names)) = Turn(b, k)
           /\ \A i \in DOMAIN b.names : \E k \in 0 .. (Len(b.names) - 1) : Turn(b, k) = i
<1> DEFINE n == Len(b.names)
           e == EntryAt(b)
<1>1. b.names \in Seq(Names)
      BY DEF IsOrder
<1>2. n \in Nat \ {0} /\ DOMAIN b.names = 1 .. n
      BY <1>1
<1>3. e \in 1 .. (n + 1)
      BY CursorFindsEntry
<1>4. \A k : Turn(b, k) = ((e - 1 + k) % n) + 1
      BY DEF Turn
<1>5. \A k \in Nat : Turn(b, k) \in 1 .. n
      BY TurnOfOrder
<1> HIDE DEF n, e
<1>6. \A k \in Nat : e - 1 + k \in Nat /\ (e - 1 + k) % n \in Nat
  <2>1. \A k \in Nat : e - 1 + k \in Nat
        BY <1>2, <1>3
  <2> QED BY <1>2, <2>1, Quotient
<1>7. ASSUME NEW k \in Nat, NEW m \in Nat, k < m, m - k < n
      PROVE  Turn(b, k) # Turn(b, m)
  <2>1. e - 1 + k < e - 1 + m /\ (e - 1 + m) - (e - 1 + k) < n
        BY <1>2, <1>3, <1>7
  <2>2. (e - 1 + k) % n # (e - 1 + m) % n
        BY <1>2, <1>6, <2>1, OtherRemainder
  <2> QED BY <1>4, <1>6, <2>2
<1>8. ASSUME NEW k \in Nat
      PROVE  Turn(b, k + n) = Turn(b, k)
  <2> DEFINE from == e - 1 + k
             to == e - 1 + (k + n)
  <2>1. from \in Nat /\ to \in Nat /\ to = from + n
        BY <1>2, <1>3
  <2> HIDE DEF from, to
  <2>2. to % n = from % n
        BY <1>2, <2>1, WholeTurn
  <2>3. (e - 1 + (k + n)) % n = (e - 1 + k) % n
        BY <2>2 DEF from, to
  <2> QED BY <1>4, <2>3
<1>9. ASSUME NEW i \in 1 .. n
      PROVE  \E k \in 0 .. (n - 1) : Turn(b, k) = i
  <2>1. CASE i >= e
    <3>1. i - e \in 0 .. (n - 1) /\ e - 1 + (i - e) = i - 1 /\ i - 1 \in Nat /\ i - 1 < n
          BY <1>2, <1>3, <2>1
    <3>2. (i - 1) % n = i - 1
          BY <1>2, <3>1, RemainderOfSmall
    <3>3. Turn(b, i - e) = i
          BY <1>4, <3>1, <3>2
    <3> QED BY <3>1, <3>3
  <2>2. CASE i < e
    <3> DEFINE from == i - 1
               to == e - 1 + (i - e + n)
    <3>1. /\ i - e + n \in 0 .. (n - 1) /\ to = from + n
          /\ from \in Nat /\ from < n /\ to \in Nat
          BY <1>2, <1>3, <2>2
    <3> HIDE DEF from, to
    <3>2. to % n = from % n
          BY <1>2, <3>1, WholeTurn
    <3>3. from % n = from
          BY <1>2, <3>1, RemainderOfSmall
    <3>4. Turn(b, i - e + n) = i
          BY <1>4, <3>2, <3>3 DEF from, to
    <3> QED BY <3>1, <3>4
  <2> QED BY <1>2, <1>3, <2>1, <2>2
<1> QED BY <1>2, <1>5, <1>7, <1>8, <1>9 DEF n

\* Behind turn k the next turns are the ones that were to come after it.
LEMMA TurnsAfterPassing ==
    ASSUME NEW b, IsOrder(b), b.names # <<>>, NEW k \in Nat
    PROVE  /\ Passed(b, k).names = b.names
           /\ \A j \in Nat : Turn(Passed(b, k), j) = Turn(b, k + 1 + j)
<1> DEFINE n == Len(b.names)
           e == EntryAt(b)
<1>1. /\ b.names \in Seq(Names) /\ IsInjective(b.names)
      /\ b = [names |-> b.names, cursor |-> b.cursor]
      BY DEF IsOrder
<1>2. n \in Nat \ {0}
      BY <1>1
<1>3. e \in 1 .. (n + 1)
      BY CursorFindsEntry
<1>4. Turn(b, k) \in 1 .. n
      BY TurnOfOrder
<1>5. Passed(b, k) = [names |-> b.names, cursor |-> Start(b.names, Turn(b, k) + 1)]
      BY <1>1 DEF Passed
<1>6. Turn(b, k) + 1 \in 1 .. (n + 1)
      BY <1>2, <1>4
<1>7. EntryAt(Passed(b, k)) = Turn(b, k) + 1
      BY <1>1, <1>5, <1>6, EntryOfStart
<1>8. \A j : Turn(b, j) = ((e - 1 + j) % n) + 1
      BY DEF Turn
<1>9. \A j : Turn(Passed(b, k), j) = ((EntryAt(Passed(b, k)) - 1 + j) % n) + 1
      BY <1>5 DEF Turn
<1> HIDE DEF n, e
<1>10. ASSUME NEW j \in Nat
       PROVE  Turn(Passed(b, k), j) = Turn(b, k + 1 + j)
  <2>1. e - 1 + k \in Nat
        BY <1>2, <1>3
  <2> DEFINE r == (e - 1 + k) % n
  <2>2. r \in Nat
        BY <1>2, <2>1, Quotient
  <2>3. Turn(b, k) = r + 1
        BY <1>8
  <2> HIDE DEF r
  <2>4. EntryAt(Passed(b, k)) - 1 + j = r + (1 + j)
        BY <1>7, <2>2, <2>3
  <2> DEFINE at == e - 1 + k
             more == 1 + j
  <2>5. at \in Nat /\ more \in Nat /\ r = at % n
        BY <2>1 DEF r
  <2>6. at + more = e - 1 + (k + 1 + j)
        BY <1>2, <1>3
  <2> HIDE DEF at
  <2>7. (r + more) % n = (at + more) % n
    <3> HIDE DEF more
    <3> QED BY <1>2, <2>5, TurnedOn
  <2> QED BY <1>8, <1>9, <2>4, <2>6, <2>7
<1> QED BY <1>5, <1>10

\* The same for a cursor that went back to the start.
LEMMA TurnsFromStart ==
    ASSUME NEW b, IsOrder(b), b.names # <<>>
    PROVE  /\ [b EXCEPT !.cursor = 0].names = b.names
           /\ Len(b.names) - EntryAt(b) + 1 \in Nat
           /\ \A j \in Nat : Turn([b EXCEPT !.cursor = 0], j)
                               = Turn(b, Len(b.names) - EntryAt(b) + 1 + j)
<1> DEFINE n == Len(b.names)
           e == EntryAt(b)
           z == [b EXCEPT !.cursor = 0]
<1>1. /\ b.names \in Seq(Names) /\ IsInjective(b.names)
      /\ b = [names |-> b.names, cursor |-> b.cursor]
      BY DEF IsOrder
<1>2. n \in Nat \ {0}
      BY <1>1
<1>3. e \in 1 .. (n + 1)
      BY CursorFindsEntry
<1>4. z = [names |-> b.names, cursor |-> Start(b.names, 1)]
      BY <1>1, StartOfFirst
<1>5. EntryAt(z) = 1
      BY <1>1, <1>2, <1>4, EntryOfStart
<1>6. \A j : Turn(b, j) = ((e - 1 + j) % n) + 1
      BY DEF Turn
<1>7. z.names = b.names
      BY <1>4
<1> HIDE DEF z
<1>8. \A j : Turn(z, j) = ((1 - 1 + j) % n) + 1
      BY <1>5, <1>7 DEF Turn
<1> HIDE DEF n, e
<1>9. n - e + 1 \in Nat
      BY <1>2, <1>3
<1>10. ASSUME NEW j \in Nat
       PROVE  Turn(z, j) = Turn(b, n - e + 1 + j)
  <2> DEFINE to == e - 1 + (n - e + 1 + j)
  <2>1. to = j + n /\ to \in Nat /\ 1 - 1 + j = j
        BY <1>2, <1>3
  <2>2. Turn(b, n - e + 1 + j) = (to % n) + 1
        BY <1>6
  <2> HIDE DEF to
  <2>3. to % n = j % n
        BY <1>2, <2>1, WholeTurn
  <2> QED BY <1>8, <2>1, <2>2, <2>3
<1> QED BY <1>7, <1>9, <1>10 DEF n, e, z

-----------------------------------------------------------------------------
(* What is still to come in a lap.                                         *)

\* The picture of the entry that turn k looks at.
Coming(b, k) == b.names[Turn(b, k)].img

\* Of the files in P those in S have been shown from the order b: none of the next
\* m entries names one of them, and the files of all other entries are among them,
\* if they can be drawn.
LapOf(b, P, S, m) ==
    /\ \A k \in 0 .. (m - 1) : \A x \in S : x.img # Coming(b, k)
    /\ \A k \in m .. (Len(b.names) - 1) : \A x \in P :
         x.img = Coming(b, k) /\ x.img \notin Corrupt => x \in S
LapAt(b, P, S) == \E m \in 0 .. Len(b.names) : LapOf(b, P, S, m)

\* No picture twice, in a folder or in an order.
Apart(P) == \A x, y \in P : x.img = y.img => x = y
ApartOrder(b) == \A i, j \in DOMAIN b.names : b.names[i].img = b.names[j].img => i = j

\* Nothing is shown yet, or there is nothing to show.
LEMMA LapOfNone ==
    ASSUME NEW b, b.names \in Seq(Names), NEW P, NEW S, S = {} \/ b.names = <<>>
    PROVE  LapAt(b, P, S)
<1>1. Len(b.names) \in Nat /\ (b.names = <<>> => Len(b.names) = 0)
      OBVIOUS
<1>2. LapOf(b, P, S, Len(b.names))
      BY <1>1 DEF LapOf
<1> QED BY <1>1, <1>2 DEF LapAt

\* Files that go leave a lap as it is.
LEMMA LapFewer ==
    ASSUME NEW b, NEW P, NEW S, LapAt(b, P, S), NEW Q \in SUBSET P
    PROVE  LapAt(b, Q, S)
BY DEF LapAt, LapOf

\* So does a file that gets its other name.
LEMMA LapToggled ==
    ASSUME NEW b, NEW P, NEW S, LapAt(b, P, S), NEW n \in P, NEW to, to \notin P,
           to.img = n.img
    PROVE  LapAt(b, (P \ {n}) \cup {to},
                 IF n \in S THEN (S \ {n}) \cup {to} ELSE S \ {to})
<1> DEFINE Q == (P \ {n}) \cup {to}
           T == IF n \in S THEN (S \ {n}) \cup {to} ELSE S \ {to}
<1>1. PICK m \in 0 .. Len(b.names) : LapOf(b, P, S, m)
      BY DEF LapAt
<1>2. \A x \in T : x \in S \/ (x = to /\ n \in S)
      OBVIOUS
<1>3. \A x \in Q : (x \in P /\ (x \in S => x \in T)) \/ (x = to /\ (n \in S => x \in T))
      OBVIOUS
<1> HIDE DEF Q, T
<1>4. LapOf(b, Q, T, m)
      BY <1>1, <1>2, <1>3 DEF LapOf
<1> QED BY <1>4 DEF LapAt, Q, T

\* So do entries that get their other names, with the cursor on the same entry.
LEMMA LapRenamed ==
    ASSUME NEW b, IsOrder(b), NEW c, IsOrder(c), Len(c.names) = Len(b.names),
           EntryAt(c) = EntryAt(b),
           \A i \in DOMAIN b.names : c.names[i].img = b.names[i].img,
           NEW P, NEW S, LapAt(b, P, S)
    PROVE  LapAt(c, P, S)
<1>1. CASE b.names = <<>>
  <2>1. c.names \in Seq(Names) /\ c.names = <<>>
        BY <1>1 DEF IsOrder
  <2> QED BY <2>1, LapOfNone
<1>2. CASE b.names # <<>>
  <2>1. \A k : Turn(c, k) = Turn(b, k)
        BY DEF Turn
  <2>2. \A k \in Nat : Turn(b, k) \in DOMAIN b.names
        BY <1>2, TurnsOfLap
  <2>3. \A k \in Nat : Coming(c, k) = Coming(b, k)
        BY <2>1, <2>2 DEF Coming
  <2>4. Len(b.names) \in Nat
        BY <1>2, TurnsOfLap
  <2>5. PICK m \in 0 .. Len(b.names) : LapOf(b, P, S, m)
        BY DEF LapAt
  <2>6. LapOf(c, P, S, m)
        BY <2>3, <2>4, <2>5 DEF LapOf
  <2> QED BY <2>5, <2>6 DEF LapAt
<1> QED BY <1>1, <1>2

\* Right behind the entry of a picture, a lap that begins with it has all others
\* to come.
LEMMA LapBegun ==
    ASSUME NEW b, IsOrder(b), b.names # <<>>, ApartOrder(b), NEW P, Apart(P),
           NEW p \in P, p = b.names[Turn(b, Len(b.names) - 1)]
    PROVE  LapAt(b, P, {p})
<1> DEFINE n == Len(b.names)
<1>1. /\ n \in Nat \ {0}
      /\ \A k \in Nat : Turn(b, k) \in DOMAIN b.names
      /\ \A k, m \in Nat : k < m /\ m - k < n => Turn(b, k) # Turn(b, m)
      BY TurnsOfLap
<1>2. p.img = Coming(b, n - 1) /\ p = b.names[Turn(b, n - 1)]
      BY DEF Coming
<1> HIDE DEF n
<1>3. ASSUME NEW k \in 0 .. (n - 2) PROVE p.img # Coming(b, k)
  <2>1. k \in Nat /\ n - 1 \in Nat /\ k < n - 1 /\ (n - 1) - k < n
        BY <1>1
  <2>2. Turn(b, k) # Turn(b, n - 1)
        BY <1>1, <2>1
  <2> QED BY <1>1, <1>2, <2>1, <2>2 DEF ApartOrder, Coming
<1>4. \A x \in P : x.img = Coming(b, n - 1) => x \in {p}
      BY <1>2 DEF Apart
<1>5. n - 1 \in 0 .. n /\ (n - 1) - 1 = n - 2
      BY <1>1
<1>6. \A k \in (n - 1) .. (n - 1) : k = n - 1
      BY <1>1
<1>7. LapOf(b, P, {p}, n - 1)
      BY <1>3, <1>4, <1>5, <1>6 DEF LapOf, n
<1> QED BY <1>5, <1>7 DEF LapAt, n

\* A lap goes on behind s entries, the files of which are now among those shown;
\* no other entry names a file that came to them.
LEMMA LapGoesOn ==
    ASSUME NEW b, IsOrder(b), b.names # <<>>, NEW c, IsOrder(c), c.names = b.names,
           NEW s \in Nat, \A j \in Nat : Turn(c, j) = Turn(b, s + j),
           NEW P, NEW S, LapAt(b, P, S), NEW R, S \subseteq R,
           \A k \in 0 .. (s - 1) : \A x \in P :
              x.img = Coming(b, k) /\ x.img \notin Corrupt => x \in R,
           \A k \in s .. (Len(b.names) - 1) : \A x \in R \ S : x.img # Coming(b, k)
    PROVE  LapAt(c, P, R)
<1> DEFINE n == Len(b.names)
<1>1. /\ n \in Nat \ {0} /\ Len(c.names) = n
      /\ \A k \in Nat : Turn(c, k) \in DOMAIN b.names
      /\ \A i \in DOMAIN b.names : \E k \in 0 .. (n - 1) : Turn(b, k) = i
      /\ \A k, m \in Nat : k < m /\ m - k < n => Turn(c, k) # Turn(c, m)
  <2>1. /\ Len(b.names) \in Nat \ {0}
        /\ \A i \in DOMAIN b.names : \E k \in 0 .. (Len(b.names) - 1) : Turn(b, k) = i
        BY TurnsOfLap
  <2>2. c.names # <<>>
        OBVIOUS
  <2>3. /\ \A k \in Nat : Turn(c, k) \in DOMAIN c.names
        /\ \A k, m \in Nat : k < m /\ m - k < Len(c.names) => Turn(c, k) # Turn(c, m)
        BY <2>2, TurnsOfLap
  <2> QED BY <2>1, <2>3
<1>2. PICK m \in 0 .. n : LapOf(b, P, S, m)
      BY DEF LapAt
<1>3. /\ \A k \in 0 .. (m - 1) : \A x \in S : x.img # Coming(b, k)
      /\ \A k \in m .. (n - 1) : \A x \in P :
           x.img = Coming(b, k) /\ x.img \notin Corrupt => x \in S
      BY <1>2 DEF LapOf
<1>4. \A j \in Nat : Coming(c, j) = Coming(b, s + j)
      BY DEF Coming
<1> HIDE DEF n
<1>5. ASSUME NEW k \in 0 .. (n - 1), k < s \/ k >= m, NEW x \in P,
             x.img = Coming(b, k), x.img \notin Corrupt
      PROVE  x \in R
  <2>1. k \in 0 .. (s - 1) \/ k \in m .. (n - 1)
        BY <1>1, <1>2, <1>5
  <2> QED BY <1>3, <1>5, <2>1
<1>6. \A j \in 0 .. (n - 1) : \E k \in 0 .. (n - 1) :
        Turn(b, k) = Turn(c, j) /\ Coming(b, k) = Coming(c, j)
  <2> TAKE j \in 0 .. (n - 1)
  <2>1. j \in Nat /\ s + j \in Nat
        BY <1>1
  <2>2. Turn(c, j) \in DOMAIN b.names
        BY <1>1, <2>1
  <2>3. PICK k \in 0 .. (n - 1) : Turn(b, k) = Turn(c, j)
        BY <1>1, <2>2
  <2> QED BY <2>3 DEF Coming
<1>7. CASE m < s
  <2>1. ASSUME NEW j \in 0 .. (n - 1), NEW x \in P,
               x.img = Coming(c, j), x.img \notin Corrupt
        PROVE  x \in R
    <3>1. PICK k \in 0 .. (n - 1) : Coming(b, k) = Coming(c, j)
          BY <1>6
    <3>2. k < s \/ k >= m
          BY <1>1, <1>2, <1>7
    <3> QED BY <1>5, <2>1, <3>1, <3>2
  <2>2. ~(\E k \in 0 .. (0 - 1) : TRUE) /\ 0 \in 0 .. n
        BY <1>1
  <2>3. LapOf(c, P, R, 0)
        BY <1>1, <2>1, <2>2 DEF LapOf
  <2> QED BY <1>1, <2>2, <2>3 DEF LapAt
<1>8. CASE m >= s
  <2> DEFINE left == m - s
  <2>1. left \in 0 .. n /\ left \in Nat
    <3>1. n \in Nat /\ m \in Nat /\ m <= n /\ m >= s
          BY <1>1, <1>2, <1>8
    <3> QED BY <3>1
  <2>2. ASSUME NEW j \in 0 .. (left - 1), NEW x \in R
        PROVE  x.img # Coming(c, j)
    <3>1. j \in Nat /\ s + j \in 0 .. (m - 1) /\ s + j \in s .. (n - 1)
          BY <1>1, <1>2, <1>8, <2>1
    <3>2. x.img # Coming(b, s + j)
          BY <1>3, <3>1 DEF n
    <3> QED BY <1>4, <3>1, <3>2
  <2>3. ASSUME NEW j \in left .. (n - 1), NEW x \in P,
               x.img = Coming(c, j), x.img \notin Corrupt
        PROVE  x \in R
    <3>1. j \in 0 .. (n - 1) /\ j \in Nat
          BY <1>1, <2>1
    <3>2. PICK k \in 0 .. (n - 1) : Turn(b, k) = Turn(c, j) /\ Coming(b, k) = Coming(c, j)
          BY <1>6, <3>1
    <3>3. ~(k >= s /\ k < m)
      <4>1. SUFFICES ASSUME k >= s, k < m PROVE FALSE
            OBVIOUS
      <4>2. /\ k - s \in Nat /\ s + (k - s) = k
            /\ k - s < j /\ j - (k - s) < n
            BY <1>1, <1>2, <2>1, <3>1, <4>1
      <4>3. Turn(c, k - s) = Turn(b, s + (k - s))
            BY <4>2
      <4>4. Turn(c, k - s) # Turn(c, j)
            BY <1>1, <3>1, <4>2
      <4> QED BY <3>2, <4>2, <4>3, <4>4
    <3>4. k < s \/ k >= m
          BY <1>1, <1>2, <3>3
    <3> QED BY <1>5, <2>3, <3>2, <3>4
  <2> HIDE DEF left
  <2>4. LapOf(c, P, R, left)
        BY <1>1, <2>2, <2>3 DEF LapOf
  <2> QED BY <1>1, <2>1, <2>4 DEF LapAt
<1> QED BY <1>1, <1>2, <1>7, <1>8

\* If the next file in the order has been shown, all in it that can be have been.
LEMMA LapIsOver ==
    ASSUME NEW b, IsOrder(b), b.names # <<>>, NEW k \in Nat, NEW P, NEW S,
           LapAt(b, P, S), b.names[Turn(b, k)] \in S,
           \A j \in 0 .. (k - 1) : b.names[Turn(b, j)] \notin P
    PROVE  \A y \in P \cap ToSet(b.names) : y.img \notin Corrupt => y \in S
<1> DEFINE n == Len(b.names)
<1>1. /\ n \in Nat \ {0}
      /\ \A i \in DOMAIN b.names : \E j \in 0 .. (n - 1) : Turn(b, j) = i
      BY TurnsOfLap
<1>2. PICK m \in 0 .. n : LapOf(b, P, S, m)
      BY DEF LapAt
<1>3. /\ \A j \in 0 .. (m - 1) : \A x \in S : x.img # Coming(b, j)
      /\ \A j \in m .. (n - 1) : \A x \in P :
           x.img = Coming(b, j) /\ x.img \notin Corrupt => x \in S
      BY <1>2 DEF LapOf
<1>4. ~(k \in 0 .. (m - 1))
      BY <1>3 DEF Coming
<1>5. k >= m
      BY <1>1, <1>2, <1>4
<1> HIDE DEF n
<1> TAKE y \in P \cap ToSet(b.names)
<1> HAVE y.img \notin Corrupt
<1>6. PICK i \in DOMAIN b.names : y = b.names[i]
      BY DEF ToSet
<1>7. PICK j \in 0 .. (n - 1) : Turn(b, j) = i
      BY <1>1, <1>6
<1>8. y = b.names[Turn(b, j)] /\ y.img = Coming(b, j)
      BY <1>6, <1>7 DEF Coming
<1>9. ~(j \in 0 .. (k - 1))
      BY <1>8
<1>10. j \in m .. (n - 1)
      BY <1>1, <1>2, <1>5, <1>7, <1>9
<1> QED BY <1>3, <1>8, <1>10

-----------------------------------------------------------------------------
(* Orders that are built and changed.                                      *)

\* What RenameInBuffer does to the entries, and to the entry of the cursor.
LEMMA RenamedEntries ==
    ASSUME NEW b, IsOrder(b), NEW batch \in SUBSET Names,
           batch \cap ToSet(b.names) = {}, NEW mayGrow \in BOOLEAN
    PROVE  /\ Len(RenameInBuffer(b, batch, mayGrow).names) = Len(b.names)
           /\ EntryAt(RenameInBuffer(b, batch, mayGrow)) = EntryAt(b)
           /\ \A i \in DOMAIN b.names :
                /\ RenameInBuffer(b, batch, mayGrow).names[i]
                     = IF Counterpart(b.names[i]) \in batch /\ (mayGrow \/ b.names[i].fav)
                         THEN Counterpart(b.names[i]) ELSE b.names[i]
                /\ RenameInBuffer(b, batch, mayGrow).names[i].img = b.names[i].img
<1> DEFINE c == RenameInBuffer(b, batch, mayGrow)
           new == CopyRenamed(b.names, batch, mayGrow)
<1>1. c = [names |-> new, cursor |-> Start(new, EntryAt(b))]
      BY DEF RenameInBuffer, CopyRenamed
<1>2. c.names = new
      BY <1>1
<1>3. IsOrder(c) /\ DOMAIN c.names = DOMAIN b.names
      BY RenamedOrder
<1>4. \A i \in DOMAIN b.names :
        new[i] = IF Counterpart(b.names[i]) \in batch /\ (mayGrow \/ b.names[i].fav)
                   THEN Counterpart(b.names[i]) ELSE b.names[i]
      BY DEF CopyRenamed
<1> HIDE DEF c, new
<1>5. b.names \in Seq(Names) /\ c.names \in Seq(Names) /\ IsInjective(c.names)
      BY <1>3 DEF IsOrder
<1>6. Len(c.names) = Len(b.names)
      BY <1>3, <1>5
<1>7. \A i \in DOMAIN b.names : b.names[i] \in Names
      BY <1>5
<1>8. \A i \in DOMAIN b.names : new[i].img = b.names[i].img
      BY <1>4, <1>7, CounterpartOfName
<1>9. EntryAt(b) \in 1 .. (Len(new) + 1)
      BY <1>2, <1>6, CursorFindsEntry
<1>10. EntryAt(c) = EntryAt(b)
       BY <1>1, <1>2, <1>5, <1>9, EntryOfStart
<1> QED BY <1>2, <1>4, <1>6, <1>8, <1>10 DEF c

\* No picture has two entries in an order of files of a folder that has none twice.
LEMMA ApartNames ==
    ASSUME NEW P, Apart(P), NEW names \in Seq(Names), IsInjective(names),
           ToSet(names) \subseteq P, NEW c
    PROVE  ApartOrder([names |-> names, cursor |-> c])
<1>1. \A i \in DOMAIN names : names[i] \in P
      BY DEF ToSet
<1>2. \A i, j \in DOMAIN names : names[i].img = names[j].img => i = j
      BY <1>1 DEF Apart, IsInjective
<1> QED BY <1>2 DEF ApartOrder

\* The same for a rebuilt order.
LEMMA ApartLaps ==
    ASSUME NEW files \in Seq(Names), IsInjective(files), Apart(ToSet(files)),
           NEW b \in Laps(files)
    PROVE  ApartOrder(b)
<1>1. PICK listed : b = [names |-> Kept(files, listed), cursor |-> 0]
      BY DEF Laps
<1>2. /\ Kept(files, listed) \in Seq(Names) /\ IsInjective(Kept(files, listed))
      /\ ToSet(Kept(files, listed)) \subseteq ToSet(files)
      BY KeptSet
<1> QED BY <1>1, <1>2, ApartNames

\* The same for names in front of an order that has none of their pictures.
LEMMA ApartSpliced ==
    ASSUME NEW P, Apart(P), NEW front \in Seq(Names), IsInjective(front),
           ToSet(front) \subseteq P, NEW b, IsOrder(b), ApartOrder(b),
           \A x \in ToSet(front) : \A i \in DOMAIN b.names : x.img # b.names[i].img,
           NEW c
    PROVE  ApartOrder([names |-> front \o b.names, cursor |-> c])
<1> DEFINE all == front \o b.names
           m == Len(front)
           n == Len(b.names)
<1>1. /\ m \in Nat /\ n \in Nat /\ DOMAIN front = 1 .. m /\ DOMAIN b.names = 1 .. n
      /\ DOMAIN all = 1 .. (m + n)
      /\ \A i \in 1 .. (m + n) : all[i] = IF i <= m THEN front[i] ELSE b.names[i - m]
      BY DEF IsOrder
<1> HIDE DEF all, m, n
<1>2. \A i \in 1 .. m : front[i] \in ToSet(front) /\ front[i] \in P
      BY <1>1 DEF ToSet
<1>3. \A i, j \in 1 .. m : front[i].img = front[j].img => i = j
      BY <1>1, <1>2 DEF Apart, IsInjective
<1>4. \A i \in 1 .. (m + n) : i <= m => i \in 1 .. m /\ all[i] = front[i]
      BY <1>1
<1>5. \A i \in 1 .. (m + n) : ~(i <= m) => i - m \in 1 .. n /\ all[i] = b.names[i - m]
      BY <1>1
<1>6. ASSUME NEW i \in 1 .. (m + n), NEW j \in 1 .. (m + n), all[i].img = all[j].img
      PROVE  i = j
  <2>1. CASE i <= m /\ j <= m
        BY <1>3, <1>4, <1>6, <2>1
  <2>2. CASE ~(i <= m) /\ ~(j <= m)
    <3>1. i - m = j - m
          BY <1>1, <1>5, <1>6, <2>2, ZenonT(40) DEF ApartOrder
    <3> QED BY <1>1, <3>1
  <2>3. \A h \in 1 .. m : \A k \in 1 .. n : front[h].img # b.names[k].img
        BY <1>1, <1>2
  <2>4. ~(i <= m /\ ~(j <= m))
        BY <1>4, <1>5, <1>6, <2>3
  <2>5. ~(~(i <= m) /\ j <= m)
        BY <1>4, <1>5, <1>6, <2>3
  <2> QED BY <2>1, <2>2, <2>4, <2>5
<1> QED BY <1>1, <1>6 DEF ApartOrder, all

\* What is drawn from an order: its lap goes on behind the entry; if the file had
\* been shown before, so had all others.
LEMMA LapAfterPick ==
    ASSUME NEW b, IsOrder(b), b.names # <<>>, ApartOrder(b), NEW k \in Nat,
           NEW P, Apart(P), b.names[Turn(b, k)] \in P,
           \A j \in 0 .. (k - 1) : b.names[Turn(b, j)] \notin P,
           NEW S, LapAt(b, P, S), P \subseteq ToSet(b.names)
    PROVE  LapAt(Passed(b, k), P, S \cup {b.names[Turn(b, k)]})
<1> DEFINE p == b.names[Turn(b, k)]
           c == Passed(b, k)
           n == Len(b.names)
           s == k + 1
<1>1. IsOrder(c) /\ c.names = b.names /\ s \in Nat
  <2>1. IsOrder(c)
        BY TurnOfOrder
  <2>2. c.names = b.names
        BY TurnsAfterPassing
  <2> QED BY <2>1, <2>2
<1>2. \A j \in Nat : Turn(c, j) = Turn(b, s + j)
      BY TurnsAfterPassing
<1>3. /\ n \in Nat \ {0} /\ \A j \in Nat : Turn(b, j) \in DOMAIN b.names
      /\ \A j, m \in Nat : j < m /\ m - j < n => Turn(b, j) # Turn(b, m)
      BY TurnsOfLap
<1>4. p \in P /\ p.img = Coming(b, k)
      BY DEF Coming
<1> HIDE DEF c, n
<1>5. ASSUME NEW j \in 0 .. (s - 1), NEW x \in P, x.img = Coming(b, j)
      PROVE  x \in S \cup {p}
  <2>1. CASE j = k
        BY <1>4, <1>5, <2>1 DEF Apart
  <2>2. CASE j # k
    <3>1. j \in 0 .. (k - 1) /\ j \in Nat
          BY <2>2
    <3>2. PICK i \in DOMAIN b.names : x = b.names[i]
          BY DEF ToSet
    <3>3. i = Turn(b, j)
          BY <1>3, <1>5, <3>1, <3>2 DEF ApartOrder, Coming
    <3> QED BY <3>1, <3>2, <3>3
  <2> QED BY <2>1, <2>2
<1>6. ASSUME NEW j \in s .. (n - 1)
      PROVE  p.img # Coming(b, j)
  <2>1. j \in Nat /\ k < j /\ j - k < n
        BY <1>3
  <2>2. Turn(b, k) # Turn(b, j)
        BY <1>3, <2>1
  <2> QED BY <1>3, <2>1, <2>2 DEF ApartOrder, Coming
<1> HIDE DEF p, s
<1>7. \A j \in s .. (Len(b.names) - 1) : \A x \in (S \cup {p}) \ S : x.img # Coming(b, j)
      BY <1>6 DEF n
<1>8. LapAt(c, P, S \cup {p})
      BY <1>1, <1>2, <1>5, <1>7, LapGoesOn
<1> QED BY <1>8 DEF c, p

\* Entries without a file in the folder are passed over.
LEMMA LapPastMissing ==
    ASSUME NEW b, IsOrder(b), b.names # <<>>, ApartOrder(b),
           NEW c, IsOrder(c), c.names = b.names,
           NEW s \in Nat, \A j \in Nat : Turn(c, j) = Turn(b, s + j),
           NEW P, \A j \in 0 .. (s - 1) : b.names[Turn(b, j)] \notin P,
           NEW S, LapAt(b, P, S), P \subseteq ToSet(b.names)
    PROVE  LapAt(c, P, S)
<1>1. \A j \in Nat : Turn(b, j) \in DOMAIN b.names
      BY TurnsOfLap
<1>2. ASSUME NEW j \in 0 .. (s - 1), NEW x \in P, x.img = Coming(b, j)
      PROVE  FALSE
  <2>1. PICK i \in DOMAIN b.names : x = b.names[i]
        BY DEF ToSet
  <2>2. j \in Nat
        OBVIOUS
  <2>3. i = Turn(b, j)
        BY <1>1, <1>2, <2>1, <2>2 DEF ApartOrder, Coming
  <2> QED BY <2>1, <2>3
<1> QED BY <1>2, LapGoesOn

\* A picture has two names.
LEMMA TwoNames ==
    ASSUME NEW n \in Names, NEW m \in Names, n.img = m.img
    PROVE  n = m \/ n = Counterpart(m)
BY DEF Names, Counterpart

-----------------------------------------------------------------------------
(* The inductive invariant.                                                *)

\* No picture has two files in /sleep, or two entries in either order.
TwinInv == Apart(Present) /\ ApartOrder(disk) /\ ApartOrder(ram)

\* A folder that was not looked at since the last reset is unsettled.
WakeInv == pc = "awake" => dirty = TRUE

\* A picture chosen from the order is about to be drawn.
FromOrder == pc = "draw" /\ pick.by = "order"

\* The order on the card and the one in memory cut the files in two: those shown
\* and those to come.
LapInv == ~FromOrder => LapAt(disk, Present, seen) /\ LapAt(ram, Present, seen)

\* While a picture is being drawn both orders are behind it, and if it has been
\* shown before then so has every other.
DrawnInv ==
    FromOrder =>
        /\ disk = ram /\ ram.names # <<>>
        /\ pick.name = ram.names[Turn(ram, Len(ram.names) - 1)]
        /\ LapAt(ram, Present, seen \cup {pick.name})
        /\ pick.name \in seen => Eligible \subseteq seen

\* Once the folder is settled, the order knows every file of it, or the count of
\* those shown has begun anew.
KnownInv ==
    pc \in {"pick", "draw"} /\ heap # "low" /\ seen # {} => Present \subseteq ToSet(ram.names)

LInv == TwinInv /\ WakeInv /\ LapInv /\ DrawnInv /\ KnownInv

-----------------------------------------------------------------------------
(* Between two sleeps.                                                     *)

\* Both orders, and a playlist that is not loaded, have a list of names.
LEMMA OrdersHaveNames ==
    ASSUME IInv
    PROVE  /\ disk.names \in Seq(Names) /\ ram.names \in Seq(Names)
           /\ NotLoaded.names = <<>> /\ <<>> \in Seq(Names)
<1>1. NotLoaded.names = <<>> /\ <<>> \in Seq(Names)
      BY DEF NotLoaded
<1>2. IsOrder(disk) /\ (ram = NotLoaded \/ IsOrder(ram))
      BY DEF IInv, OrderInv
<1>3. \A b : IsOrder(b) => b.names \in Seq(Names)
      BY DEF IsOrder
<1> QED BY <1>1, <1>2, <1>3

\* What only takes files away, or begins the count anew, leaves the laps right.
LEMMA LapKept ==
    ASSUME IInv, LInv, Apart(Present'), disk' = disk, ram' \in {ram, NotLoaded},
           \/ seen' = {}
           \/ seen' = seen /\ ~FromOrder /\ Present' \subseteq Present,
           ~FromOrder'
    PROVE  TwinInv' /\ LapInv' /\ DrawnInv'
<1>1. /\ disk.names \in Seq(Names) /\ ram.names \in Seq(Names)
      /\ NotLoaded.names = <<>> /\ <<>> \in Seq(Names)
      BY OrdersHaveNames
<1>2. ApartOrder(disk) /\ ApartOrder(ram) /\ ApartOrder(NotLoaded)
      BY <1>1 DEF LInv, TwinInv, ApartOrder
<1>3. TwinInv'
      BY <1>2 DEF TwinInv
<1>4. LapAt(disk, Present', seen') /\ LapAt(ram, Present', seen')
  <2>1. CASE seen' = {}
        BY <1>1, <2>1, LapOfNone
  <2>2. CASE seen' = seen /\ ~FromOrder /\ Present' \subseteq Present
    <3>1. LapAt(disk, Present, seen) /\ LapAt(ram, Present, seen)
          BY <2>2 DEF LInv, LapInv
    <3> QED BY <2>2, <3>1, LapFewer
  <2> QED BY <2>1, <2>2
<1>5. LapAt(NotLoaded, Present', seen')
      BY <1>1, LapOfNone
<1>6. LapInv'
  <2>1. LapAt(disk', Present', seen') /\ LapAt(ram', Present', seen')
        BY <1>4, <1>5
  <2> QED BY <2>1 DEF LapInv
<1> QED BY <1>3, <1>6 DEF DrawnInv

\* Fewer files are still apart.
LEMMA FewerApart ==
    ASSUME LInv, Present' \subseteq Present
    PROVE  Apart(Present')
BY DEF LInv, TwinInv, Apart

\* An edit that takes no order, adds no file and keeps the folder unsettled.
LEMMA EditKeeps ==
    ASSUME IInv, LInv, Edit, Apart(Present'), UNCHANGED <<disk, ram>>,
           dirty' = dirty \/ dirty' = TRUE,
           seen' = {} \/ (seen' = seen /\ Present' \subseteq Present)
    PROVE  LInv'
<1>1. pc = "awake" /\ pc' = "awake"
      BY DEF Edit
<1>2. ~FromOrder /\ ~FromOrder'
      BY <1>1 DEF FromOrder
<1>3. TwinInv' /\ LapInv' /\ DrawnInv'
      BY <1>2, LapKept
<1>4. WakeInv' /\ KnownInv'
      BY <1>1 DEF LInv, WakeInv, KnownInv
<1> QED BY <1>3, <1>4 DEF LInv

\* One lemma per action: each keeps every part of the invariant.  A new file has
\* neither of its names in the folder yet.
LEMMA AddFileLap ==
    ASSUME IInv, LInv, NEW n \in Names, AddFile(n)
    PROVE  LInv'
<1>1. /\ Edit /\ {n, Counterpart(n)} \cap Present = {} /\ folder' = <<n>> \o folder
      /\ dirty' = TRUE /\ seen' = {} /\ UNCHANGED <<disk, ram>>
      BY DEF AddFile
<1>2. Present' = Present \cup {n}
      BY <1>1, AddedFile DEF IInv
<1>3. \A x \in Present : x.img # n.img
      BY <1>1, TwoNames, PresentAreNames DEF IInv
<1>4. Apart(Present')
      BY <1>2, <1>3 DEF LInv, TwinInv, Apart
<1> QED BY <1>1, <1>4, EditKeeps

\* A file that goes leaves the laps of the others.
LEMMA RemoveFileLap ==
    ASSUME IInv, LInv, NEW n \in Names, RemoveFile(n)
    PROVE  LInv'
<1>1. Edit /\ folder' = Without(folder, {n}) /\ UNCHANGED <<disk, ram, dirty, seen>>
      BY DEF RemoveFile, playlist
<1>2. Present' \subseteq Present
      BY <1>1, LeftFiles DEF IInv
<1> QED BY <1>1, <1>2, FewerApart, EditKeeps

\* A picture that has been shown has been shown under its other name too.
LEMMA ToggleFavouriteLap ==
    ASSUME IInv, LInv, NEW n \in Names, ToggleFavourite(n)
    PROVE  LInv'
<1> DEFINE to == Counterpart(n)
           P == (Present \ {n}) \cup {to}
           S == IF n \in seen THEN (seen \ {n}) \cup {to} ELSE seen \ {to}
<1>1. /\ Edit /\ n \in Present /\ to \in Names \ Present /\ to.img = n.img
      /\ folder' = [i \in DOMAIN folder |-> IF folder[i] = n THEN to ELSE folder[i]]
      /\ seen' = S /\ UNCHANGED <<disk, ram, dirty>>
      BY CounterpartOfName DEF ToggleFavourite, playlist
<1>2. pc = "awake" /\ pc' = "awake"
      BY <1>1 DEF Edit
<1>3. ~FromOrder /\ ~FromOrder'
      BY <1>2 DEF FromOrder
<1>4. Present' = P
      BY <1>1, RenamedFile DEF IInv
<1>5. LapAt(disk, Present, seen) /\ LapAt(ram, Present, seen)
      BY <1>3 DEF LInv, LapInv
<1> HIDE DEF to
<1>6. LapAt(disk, P, S) /\ LapAt(ram, P, S)
      BY <1>1, <1>5, LapToggled
<1>7. Apart(P)
      BY <1>1 DEF LInv, TwinInv, Apart
<1> HIDE DEF P, S
<1>8. TwinInv'
      BY <1>1, <1>4, <1>7 DEF LInv, TwinInv
<1>9. LapInv' /\ DrawnInv'
      BY <1>1, <1>3, <1>4, <1>6 DEF LapInv, DrawnInv
<1>10. WakeInv' /\ KnownInv'
      BY <1>1, <1>2 DEF LInv, WakeInv, KnownInv
<1> QED BY <1>8, <1>9, <1>10 DEF LInv

\* The edits of files in "/sleep pause", of the flags, and those that move files away.
LEMMA OtherEditsLap ==
    ASSUME IInv, LInv,
           \/ ToggleInPause \/ TriageMovePause \/ TriageDelete \/ TogglePause
           \/ \E S \in SUBSET Present : MoveRandomToPause(S)
    PROVE  LInv'
<1>1. CASE ToggleInPause
  <2>1. Edit /\ UNCHANGED <<folder, disk, ram, dirty, seen>>
        BY <1>1 DEF ToggleInPause, playlist, history
  <2>2. Present' = Present
        BY <2>1 DEF Present
  <2> QED BY <2>1, <2>2, FewerApart, EditKeeps
<1>2. CASE TriageMovePause
  <2>1. /\ Edit /\ UNCHANGED <<disk, ram, dirty, seen>>
        /\ folder' = Without(folder, {rendered.name})
        BY <1>2 DEF TriageMovePause, playlist, history
  <2>2. Present' \subseteq Present
        BY <2>1, LeftFiles DEF IInv
  <2> QED BY <2>1, <2>2, FewerApart, EditKeeps
<1>3. CASE TriageDelete
  <2>1. /\ Edit /\ UNCHANGED <<disk, ram, dirty, seen>>
        /\ folder' = Without(folder, {rendered.name}) \/ folder' = folder
        BY <1>3 DEF TriageDelete, playlist
  <2>2. Present' \subseteq Present
    <3>1. CASE folder' = folder
          BY <3>1 DEF Present
    <3>2. CASE folder' = Without(folder, {rendered.name})
          BY <3>2, LeftFiles DEF IInv
    <3> QED BY <2>1, <3>1, <3>2
  <2> QED BY <2>1, <2>2, FewerApart, EditKeeps
<1>4. CASE TogglePause
  <2>1. Edit /\ UNCHANGED <<folder, disk, ram, dirty, seen>>
        BY <1>4 DEF TogglePause, folders, playlist, history
  <2>2. Present' = Present
        BY <2>1 DEF Present
  <2> QED BY <2>1, <2>2, FewerApart, EditKeeps
<1>5. ASSUME NEW S \in SUBSET Present, MoveRandomToPause(S)
      PROVE  LInv'
  <2>1. /\ Edit /\ UNCHANGED <<disk, ram, seen>> /\ MoveToPause(Movable(S))
        /\ dirty' = (dirty \/ Movable(S) # {})
        BY <1>5 DEF MoveRandomToPause, history
  <2>2. Present' \subseteq Present
        BY <2>1, LeftFiles DEF IInv, MoveToPause
  <2>3. pc = "awake"
        BY <2>1 DEF Edit
  <2>4. dirty = TRUE
        BY <2>3 DEF LInv, WakeInv
  <2>5. dirty' = TRUE
        BY <2>1, <2>4
  <2> QED BY <2>1, <2>2, <2>5, FewerApart, EditKeeps
<1> QED BY <1>1, <1>2, <1>3, <1>4, <1>5

\* One list behind another.
LEMMA Joined ==
    ASSUME NEW s \in Seq(Names), NEW t \in Seq(Names)
    PROVE  /\ DOMAIN (s \o t) = 1 .. (Len(s) + Len(t))
           /\ \A i \in 1 .. (Len(s) + Len(t)) :
                (s \o t)[i] = IF i <= Len(s) THEN s[i] ELSE t[i - Len(s)]
OBVIOUS

\* A shuffled list is a sequence of all files that were listed.
LEMMA ShuffledSequence ==
    ASSUME NEW listed \in SUBSET Names, IsFiniteSet(listed),
           NEW order \in SetToSeqs(listed)
    PROVE  order \in Seq(Names) /\ Len(order) \in Nat /\ ToSet(order) = listed
<1>1. Cardinality(listed) \in Nat
      BY FS_CardinalityType
<1>2. /\ order \in [1 .. Cardinality(listed) -> listed]
      /\ \A i, j \in 1 .. Cardinality(listed) : i # j => order[i] # order[j]
      BY DEF SetToSeqs
<1>3. order \in Seq(listed) /\ Len(order) = Cardinality(listed) /\ order \in Seq(Names)
      BY <1>1, <1>2
<1>4. IsInjective(order)
      BY <1>2 DEF IsInjective
<1>5. /\ ToSet(order) \subseteq listed
      /\ Cardinality(ToSet(order)) = Cardinality(listed)
      BY <1>3, <1>4, ToSetCounts
<1>6. ToSet(order) = listed
      BY <1>5, FS_Subset
<1> QED BY <1>3, <1>6

\* The picture shown last stands in front, if it is not the only one.
LEMMA ShownFirstEntries ==
    ASSUME NEW listed \in SUBSET Names, IsFiniteSet(listed),
           NEW order \in SetToSeqs(listed)
    PROVE  /\ ToSet(ShownFirst(order)) \subseteq listed
           /\ Len(order) > 1 \/ ShownFirst(order) = order
           /\ lastShown \in listed /\ Len(order) > 1 => ShownFirst(order)[1] = lastShown
<1>1. order \in Seq(Names) /\ ToSet(order) = listed
      BY ShuffledSequence
<1>2. CASE ~(lastShown \in ToSet(order) /\ Len(order) > 1)
      BY <1>1, <1>2 DEF ShownFirst
<1>3. CASE lastShown \in ToSet(order) /\ Len(order) > 1
  <2> DEFINE rest == Without(order, {lastShown})
             shown == <<lastShown>>
  <2>1. rest \in Seq(Names) /\ ToSet(rest) \subseteq listed
        BY <1>1, WithoutSet
  <2>2. shown \in Seq(Names) /\ Len(shown) = 1 /\ shown[1] = lastShown
        BY <1>1, <1>3
  <2>3. ShownFirst(order) = shown \o rest
        BY <1>3 DEF ShownFirst
  <2> HIDE DEF rest, shown
  <2>4. /\ DOMAIN (shown \o rest) = 1 .. (1 + Len(rest)) /\ Len(rest) \in Nat
        /\ \A i \in 1 .. (1 + Len(rest)) :
             (shown \o rest)[i] = IF i <= 1 THEN shown[i] ELSE rest[i - 1]
    <3>1. rest \in Seq(Names) /\ Len(shown) = 1 /\ shown \in Seq(Names)
          BY <2>1, <2>2
    <3>2. Len(rest) \in Nat
          BY <3>1
    <3>3. /\ DOMAIN (shown \o rest) = 1 .. (Len(shown) + Len(rest))
          /\ \A i \in 1 .. (Len(shown) + Len(rest)) :
               (shown \o rest)[i] = IF i <= Len(shown) THEN shown[i] ELSE rest[i - Len(shown)]
          BY <3>1, Joined
    <3> QED BY <3>1, <3>2, <3>3
  <2>5. (shown \o rest)[1] = lastShown
        BY <2>2, <2>4
  <2>6. ASSUME NEW i \in 1 .. (1 + Len(rest)) PROVE (shown \o rest)[i] \in listed
    <3>1. CASE i = 1
          BY <1>1, <1>3, <2>5, <3>1
    <3>2. CASE i # 1
      <4>1. i - 1 \in DOMAIN rest /\ (shown \o rest)[i] = rest[i - 1]
            BY <2>1, <2>4, <3>2
      <4> QED BY <2>1, <4>1 DEF ToSet
    <3> QED BY <3>1, <3>2
  <2>7. ToSet(shown \o rest) \subseteq listed
        BY <2>4, <2>6 DEF ToSet
  <2> QED BY <1>3, <2>3, <2>5, <2>7
<1> QED BY <1>2, <1>3

\* A reshuffle begins the count with the picture the user has just seen, which
\* stands right before the cursor.
LEMMA ReshuffledLap ==
    ASSUME IInv, LInv, NEW listed \in SUBSET Present, NEW order \in SetToSeqs(listed),
           NEW b, b = [names |-> ShownFirst(order),
                       cursor |-> IF lastShown \in listed /\ Len(order) > 1
                                    THEN Start(ShownFirst(order), 2) ELSE 0]
    PROVE  /\ b.names \in Seq(Names) /\ ApartOrder(b)
           /\ LapAt(b, Present, {lastShown} \cap ToSet(b.names))
<1> DEFINE names == ShownFirst(order)
           shown == {lastShown} \cap ToSet(names)
<1>1. listed \in SUBSET Names /\ IsFiniteSet(listed)
  <2>1. IsFiniteSet(Present)
        BY PlainFiles DEF IInv
  <2> QED BY <2>1, FS_Subset, PresentAreNames DEF IInv
<1>2. /\ names \in Seq(Names) /\ IsInjective(names)
      /\ Len(order) > 1 => Len(names) > 0
      BY <1>1, ShownFirstOrder
<1>3. ToSet(names) \subseteq listed /\ (Len(order) > 1 \/ names = order)
      /\ (lastShown \in listed /\ Len(order) > 1 => names[1] = lastShown)
      BY <1>1, ShownFirstEntries
<1>4. Len(order) \in Nat /\ order \in Seq(Names)
      BY <1>1, ShuffledSequence
<1> HIDE DEF names
<1>5. b.names = names
      BY DEF names
<1>6. Apart(Present)
      BY DEF LInv, TwinInv
<1>7. ApartOrder(b)
      BY <1>2, <1>3, <1>6, ApartNames DEF names
<1>8. IsOrder(b)
  <2>1. CASE lastShown \in listed /\ Len(order) > 1
    <3>1. 2 \in 1 .. (Len(names) + 1)
          BY <1>2, <2>1
    <3> QED BY <1>2, <2>1, <3>1, OrderAt DEF names
  <2>2. CASE ~(lastShown \in listed /\ Len(order) > 1)
        BY <1>2, <2>2, OrderFromStart DEF names
  <2> QED BY <2>1, <2>2
<1>9. CASE shown = {}
      BY <1>2, <1>5, <1>7, <1>9, LapOfNone
<1>10. CASE shown # {}
  <2>1. shown = {lastShown} /\ lastShown \in ToSet(names) /\ lastShown \in listed
        BY <1>3, <1>10
  <2>2. Len(names) \in Nat \ {0} /\ names # <<>> /\ 1 \in 1 .. (Len(names) + 1)
    <3>1. Len(names) \in Nat /\ DOMAIN names = 1 .. Len(names)
          BY <1>2
    <3>2. DOMAIN names # {}
          BY <2>1 DEF ToSet
    <3> QED BY <3>1, <3>2
  <2>3. lastShown = b.names[Turn(b, Len(b.names) - 1)]
    <3> DEFINE n == Len(names)
    <3>1. \A k : Turn(b, k) = ((EntryAt(b) - 1 + k) % n) + 1
          BY <1>5 DEF Turn
    <3>2. n \in Nat \ {0}
          BY <2>2
    <3> HIDE DEF n
    <3>3. CASE Len(order) > 1
      <4>1. b = [names |-> names, cursor |-> Start(names, 2)] /\ names[1] = lastShown
            BY <1>3, <2>1, <3>3 DEF names
      <4>2. EntryAt(b) = 2
        <5>1. 2 \in 1 .. (Len(names) + 1)
              BY <2>2
        <5> QED BY <1>2, <4>1, <5>1, EntryOfStart
      <4>3. EntryAt(b) - 1 + (n - 1) = n
            BY <3>2, <4>2
      <4>4. n % n = 0
            BY <3>2
      <4>5. Turn(b, n - 1) = 1
            BY <3>1, <4>3, <4>4
      <4> QED BY <1>5, <4>1, <4>5 DEF n
    <3>4. CASE ~(Len(order) > 1)
      <4>1. n = 1
        <5>1. names = order /\ n = Len(order)
              BY <1>3, <3>4 DEF n
        <5>2. n <= 1 /\ n \in Nat \ {0}
              BY <1>4, <3>2, <3>4, <5>1
        <5> QED BY <5>2
      <4>2. Turn(b, n - 1) = 1
        <5>1. Turn(b, n - 1) \in 1 .. n
          <6>1. n - 1 \in Nat
                BY <3>2
          <6> QED BY <1>5, <1>8, <2>2, <6>1, TurnOfOrder DEF n
        <5> QED BY <4>1, <5>1
      <4>3. lastShown = names[1]
        <5>1. DOMAIN names = 1 .. 1
              BY <1>2, <4>1 DEF n
        <5> QED BY <2>1, <5>1 DEF ToSet
      <4> QED BY <1>5, <4>2, <4>3 DEF n
    <3> QED BY <3>3, <3>4
  <2>4. b.names # <<>> /\ lastShown \in Present
        BY <1>5, <2>1, <2>2
  <2>5. LapAt(b, Present, {lastShown})
        BY <1>6, <1>7, <1>8, <2>3, <2>4, LapBegun
  <2> QED BY <1>2, <1>5, <1>7, <2>1, <2>5
<1> QED BY <1>2, <1>5, <1>7, <1>9, <1>10

\* Every outcome of a reshuffle: a new order, none, or the one on the card alone.
LEMMA ReshuffleLap ==
    ASSUME IInv, LInv, NEW fits \in BOOLEAN, Reshuffle(fits)
    PROVE  LInv'
<1>1. Edit /\ UNCHANGED <<folder, lastShown, dirty>>
      BY DEF Reshuffle, folders, appState
<1>2. /\ seen' = IF fits THEN {n \in {lastShown} \cap ToSet(disk'.names) :
                                 rendered = Path("sleep", n)}
                         ELSE seen
      /\ pc = "awake" /\ pc' = "awake"
      BY DEF Reshuffle, Edit
<1>3. PICK listed \in SUBSET Present : \E order \in SetToSeqs(listed) :
        LET names == ShownFirst(order)
            b == [names |-> names,
                  cursor |-> IF lastShown \in listed /\ Len(order) > 1
                               THEN Start(names, 2) ELSE 0]
        IN IF folder = <<>>
             THEN disk' = Emptied /\ ram' = IF ram = NotLoaded THEN ram ELSE Emptied
             ELSE IF fits THEN disk' = b /\ ram' = b
                          ELSE disk' = disk /\ ram' = Emptied
      BY DEF Reshuffle, kSubset
<1>4. PICK order \in SetToSeqs(listed) :
        LET names == ShownFirst(order)
            b == [names |-> names,
                  cursor |-> IF lastShown \in listed /\ Len(order) > 1
                               THEN Start(names, 2) ELSE 0]
        IN IF folder = <<>>
             THEN disk' = Emptied /\ ram' = IF ram = NotLoaded THEN ram ELSE Emptied
             ELSE IF fits THEN disk' = b /\ ram' = b
                          ELSE disk' = disk /\ ram' = Emptied
      BY <1>3
<1> DEFINE b == [names |-> ShownFirst(order),
                 cursor |-> IF lastShown \in listed /\ Len(order) > 1
                              THEN Start(ShownFirst(order), 2) ELSE 0]
<1>5. \/ disk' = Emptied /\ ram' \in {NotLoaded, Emptied}
      \/ fits = TRUE /\ disk' = b /\ ram' = b
      \/ fits = FALSE /\ disk' = disk /\ ram' = Emptied
      BY <1>4
<1>6. /\ b.names \in Seq(Names) /\ ApartOrder(b)
      /\ LapAt(b, Present, {lastShown} \cap ToSet(b.names))
      BY ReshuffledLap
<1> HIDE DEF b
<1>7. /\ Emptied.names = <<>> /\ NotLoaded.names = <<>> /\ <<>> \in Seq(Names)
      /\ ApartOrder(Emptied) /\ ApartOrder(NotLoaded)
      BY DEF Emptied, NotLoaded, ApartOrder
<1>8. ~FromOrder /\ ~FromOrder' /\ Present' = Present
      BY <1>1, <1>2 DEF FromOrder, Present
<1>9. LapAt(disk, Present, seen)
      BY <1>8 DEF LInv, LapInv
<1>10. \A S : LapAt(Emptied, Present, S) /\ LapAt(NotLoaded, Present, S)
       BY <1>7, LapOfNone
<1>11. \A S \in SUBSET ({lastShown} \cap ToSet(b.names)) : LapAt(b, Present, S)
  <2> TAKE S \in SUBSET ({lastShown} \cap ToSet(b.names))
  <2>1. CASE S = {}
        BY <1>6, <2>1, LapOfNone
  <2>2. CASE S # {}
    <3>1. S = {lastShown} \cap ToSet(b.names)
          BY <2>2
    <3> QED BY <1>6, <3>1
  <2> QED BY <2>1, <2>2
<1>12. /\ LapAt(disk', Present, seen') /\ LapAt(ram', Present, seen')
       /\ ApartOrder(disk') /\ ApartOrder(ram')
  <2>1. ApartOrder(disk)
        BY DEF LInv, TwinInv
  <2>2. CASE disk' = Emptied /\ ram' \in {NotLoaded, Emptied}
        BY <1>7, <1>10, <2>2
  <2>3. CASE fits = TRUE /\ disk' = b /\ ram' = b
    <3>1. seen' \in SUBSET ({lastShown} \cap ToSet(b.names))
          BY <1>2, <2>3
    <3>2. LapAt(b, Present, seen')
          BY <1>11, <3>1
    <3> QED BY <1>6, <2>3, <3>2
  <2>4. CASE fits = FALSE /\ disk' = disk /\ ram' = Emptied
    <3>1. seen' = seen
          BY <1>2, <2>4
    <3> QED BY <1>7, <1>9, <1>10, <2>1, <2>4, <3>1
  <2> QED BY <1>5, <2>2, <2>3, <2>4
<1>13. TwinInv'
       BY <1>8, <1>12 DEF LInv, TwinInv
<1>14. LapInv' /\ DrawnInv'
       BY <1>8, <1>12 DEF LapInv, DrawnInv
<1>15. WakeInv' /\ KnownInv'
       BY <1>1, <1>2 DEF LInv, WakeInv, KnownInv
<1> QED BY <1>13, <1>14, <1>15 DEF LInv

-----------------------------------------------------------------------------
(* The way to sleep.                                                       *)

\* A blank screen and a paused rotation leave the orders alone.
LEMMA OtherSleepLap ==
    ASSUME IInv, LInv, BlankSleep \/ PausedSleep
    PROVE  LInv'
<1>1. /\ UNCHANGED <<folder, disk, ram, seen>>
      /\ pc = "awake" /\ pc' = "asleep"
      BY DEF BlankSleep, PausedSleep, folders, playlist
<1>2. ~FromOrder /\ ~FromOrder' /\ Present' = Present
      BY <1>1 DEF FromOrder, Present
<1>3. TwinInv' /\ LapInv' /\ DrawnInv'
      BY <1>1, <1>2, FewerApart, LapKept
<1> QED BY <1>1, <1>3 DEF LInv, WakeInv, KnownInv

\* The first try reconciles, or chooses by name.
LEMMA BeginSleepLap ==
    ASSUME IInv, LInv, NEW h, BeginSleep(h)
    PROVE  LInv'
<1>1. /\ UNCHANGED <<folder, disk, ram, seen>>
      /\ pc = "awake" /\ heap' = h
      /\ pc' = IF h # "low" /\ dirty THEN "reconcile" ELSE "pick"
      BY DEF BeginSleep, Attempt, folders, playlist, history
<1>2. dirty = TRUE
      BY <1>1 DEF LInv, WakeInv
<1>3. pc' \in {"reconcile", "pick"} /\ (pc' = "pick" => heap' = "low")
      BY <1>1, <1>2
<1>4. ~FromOrder /\ ~FromOrder' /\ Present' = Present
      BY <1>1, <1>3 DEF FromOrder, Present
<1>5. TwinInv' /\ LapInv' /\ DrawnInv'
      BY <1>1, <1>4, FewerApart, LapKept
<1> QED BY <1>3, <1>5 DEF LInv, WakeInv, KnownInv

\* A choice by name leaves the orders alone.
LEMMA PickByNameLap ==
    ASSUME IInv, LInv, PickByName
    PROVE  LInv'
<1>1. /\ UNCHANGED <<folder, disk, ram, heap, seen>>
      /\ pc = "pick" /\ heap = "low" /\ DirectPick
      BY DEF PickByName, folders, playlist
<1>2. pc' = "asleep" \/ (pc' = "draw" /\ pick'.by = "name")
      BY <1>1 DEF DirectPick
<1>3. ~FromOrder /\ ~FromOrder' /\ Present' = Present
      BY <1>1, <1>2 DEF FromOrder, Present
<1>4. TwinInv' /\ LapInv' /\ DrawnInv'
      BY <1>1, <1>3, FewerApart, LapKept
<1> QED BY <1>1, <1>2, <1>4 DEF LInv, WakeInv, KnownInv

\* The files advance() sees in its turns before the first hit are none.
LEMMA BeforeFirstHit ==
    ASSUME NEW b, IsOrder(b), NEW k \in 0 .. SkipBudget,
           \A j \in 0 .. (k - 1) : j \notin Hits(b)
    PROVE  \A j \in 0 .. (k - 1) : b.names[Turn(b, j)] \notin Present
<1>1. SkipBudget \in Nat
      BY LimitsAssumption
<1>2. b.cursor = Start(b.names, EntryAt(b))
      BY CursorFindsEntry
<1> TAKE j \in 0 .. (k - 1)
<1>3. j \in 0 .. (SkipBudget - 1)
      BY <1>1
<1>4. ~Hit(b, j)
      BY <1>3 DEF Hits
<1> QED BY <1>2, <1>4 DEF Hit

\* The next file of the order goes on with the lap, or ends it.
LEMMA PickFromOrderLap ==
    ASSUME IInv, LInv, PickFromOrder
    PROVE  LInv'
<1>1. /\ UNCHANGED <<folder, heap>> /\ pc = "pick" /\ heap # "low" /\ pc' = "draw"
      /\ seen' = IF ram.names # <<>> THEN seen ELSE {}
      BY DEF PickFromOrder, folders
<1>2. PICK b \in Orders :
        /\ Hits(b) # {}
        /\ ram' = Passed(b, Min(Hits(b))) /\ disk' = ram'
        /\ pick' = [name |-> b.names[Turn(b, Min(Hits(b)))], by |-> "order"]
      BY DEF PickFromOrder
<1> DEFINE k == Min(Hits(b))
           p == b.names[Turn(b, k)]
           c == Passed(b, k)
<1>3. k \in Hits(b) /\ \A j \in Hits(b) : k <= j
  <2>1. Hits(b) \in SUBSET Nat
        BY LimitsAssumption DEF Hits
  <2> QED BY <1>2, <2>1, MinOfNats
<1>4. ram' = c /\ disk' = c /\ pick'.name = p /\ pick'.by = "order"
      BY <1>2
<1> HIDE DEF k
<1>5. k \in Nat /\ k \in 0 .. SkipBudget /\ Hit(b, k)
      BY <1>3, LimitsAssumption DEF Hits
<1>6. IsOrder(b) /\ b.names # <<>>
      BY <1>1, OrdersAreOrders
<1>7. \A j \in 0 .. (k - 1) : b.names[Turn(b, j)] \notin Present
  <2>1. \A j \in 0 .. (k - 1) : j \notin Hits(b)
        BY <1>3, <1>5
  <2> QED BY <1>5, <1>6, <2>1, BeforeFirstHit
<1>8. p \in Present
      BY <1>5 DEF Hit
<1>9. IsOrder(c) /\ c.names = b.names
      BY <1>5, <1>6, TurnOfOrder, TurnsAfterPassing
<1>10. ApartOrder(b)
  <2>1. CASE ram.names # <<>>
        BY <2>1 DEF Orders, LInv, TwinInv
  <2>2. CASE ram.names = <<>>
    <3>1. b \in Laps(folder)
          BY <2>2 DEF Orders
    <3>2. folder \in Seq(Names) /\ IsInjective(folder) /\ Apart(ToSet(folder))
          BY DEF IInv, FolderInv, LInv, TwinInv, Present
    <3> QED BY <3>1, <3>2, ApartLaps
  <2> QED BY <2>1, <2>2
<1>11. ApartOrder(c)
       BY <1>9, <1>10 DEF ApartOrder
<1>12. Apart(Present)
       BY DEF LInv, TwinInv
<1>13. p = c.names[Turn(c, Len(c.names) - 1)] /\ c.names # <<>>
  <2> DEFINE n == Len(b.names)
  <2>1. n \in Nat \ {0} /\ Turn(b, k + n) = Turn(b, k)
        BY <1>5, <1>6, TurnsOfLap
  <2> HIDE DEF n
  <2>2. n - 1 \in Nat /\ k + 1 + (n - 1) = k + n
        BY <1>5, <2>1
  <2>3. Turn(c, n - 1) = Turn(b, k + 1 + (n - 1))
        BY <1>5, <1>6, <2>2, TurnsAfterPassing
  <2> QED BY <1>6, <1>9, <2>1, <2>2, <2>3 DEF n
<1> HIDE DEF p, c
<1>14. /\ LapAt(c, Present, seen' \cup {p})
       /\ p \in seen' => {n \in Present \cap ToSet(c.names) : n.img \notin Corrupt} \subseteq seen'
  <2>1. CASE seen' = {}
    <3>1. LapAt(c, Present, {p})
          BY <1>8, <1>9, <1>11, <1>12, <1>13, LapBegun
    <3> QED BY <2>1, <3>1
  <2>2. CASE seen' # {}
    <3>1. ram.names # <<>> /\ seen' = seen /\ b = ram
          BY <1>1, <2>2 DEF Orders
    <3>2. LapAt(b, Present, seen)
      <4>1. ~FromOrder
            BY <1>1 DEF FromOrder
      <4> QED BY <3>1, <4>1 DEF LInv, LapInv
    <3>3. Present \subseteq ToSet(b.names)
          BY <1>1, <2>2, <3>1 DEF LInv, KnownInv
    <3>4. LapAt(c, Present, seen \cup {p})
          BY <1>5, <1>6, <1>7, <1>8, <1>10, <1>12, <3>2, <3>3, LapAfterPick DEF p, c
    <3>5. p \in seen => \A y \in Present \cap ToSet(b.names) :
                           y.img \notin Corrupt => y \in seen
          BY <1>5, <1>6, <1>7, <3>2, LapIsOver DEF p
    <3> QED BY <1>9, <3>1, <3>4, <3>5
  <2> QED BY <2>1, <2>2
<1>15. Present' = Present
       BY <1>1 DEF Present
<1>16. TwinInv'
       BY <1>4, <1>11, <1>12, <1>15 DEF TwinInv
<1>17. FromOrder'
       BY <1>1, <1>4 DEF FromOrder
<1>18. DrawnInv'
  <2>1. Eligible' = {n \in Present \cap ToSet(c.names) : n.img \notin Corrupt}
        BY <1>4, <1>15 DEF Eligible
  <2> QED BY <1>4, <1>13, <1>14, <1>15, <2>1 DEF DrawnInv
<1>19. LapInv' /\ WakeInv'
       BY <1>1, <1>17 DEF LapInv, WakeInv
<1>20. KnownInv'
  <2>1. CASE seen' = {}
        BY <2>1 DEF KnownInv
  <2>2. CASE seen' # {}
    <3>1. ram.names # <<>> /\ seen' = seen /\ b = ram
          BY <1>1, <2>2 DEF Orders
    <3>2. Present \subseteq ToSet(b.names)
          BY <1>1, <2>2, <3>1 DEF LInv, KnownInv
    <3>3. Present' \subseteq ToSet(ram'.names)
          BY <1>4, <1>9, <1>15, <3>2
    <3> QED BY <3>3 DEF KnownInv
  <2> QED BY <2>1, <2>2
<1> QED BY <1>16, <1>18, <1>19, <1>20 DEF LInv

\* Names without files are passed over, in memory and, at the end of the lap, on
\* the card.
LEMMA PickPastOrderLap ==
    ASSUME IInv, LInv, PickPastOrder
    PROVE  LInv'
<1>1. /\ UNCHANGED <<folder, heap, dirty, seen>>
      /\ pc = "pick" /\ heap # "low" /\ DirectPick
      BY DEF PickPastOrder, folders
<1>2. folder # <<>>
      BY <1>1 DEF IInv, PickInv
<1>3. pc' = "draw" /\ pick'.by = "name"
      BY <1>1, <1>2 DEF DirectPick
<1>4. ~FromOrder /\ ~FromOrder' /\ Present' = Present
      BY <1>1, <1>3 DEF FromOrder, Present
<1>5. LapAt(disk, Present, seen) /\ LapAt(ram, Present, seen)
      BY <1>4 DEF LInv, LapInv
<1>6. Apart(Present) /\ ApartOrder(disk) /\ ApartOrder(ram)
      BY DEF LInv, TwinInv
<1>7. seen # {} => Present \subseteq ToSet(ram.names)
      BY <1>1 DEF LInv, KnownInv
<1>8. CASE UNCHANGED <<ram, disk>>
  <2>1. TwinInv' /\ LapInv' /\ DrawnInv'
        BY <1>1, <1>4, <1>6, <1>8, LapKept
  <2>2. WakeInv' /\ KnownInv'
        BY <1>1, <1>3, <1>4, <1>7, <1>8 DEF WakeInv, KnownInv
  <2> QED BY <2>1, <2>2 DEF LInv
<1>9. CASE /\ ram.names # <<>> /\ Hits(ram) = {}
           /\ ram' = Passed(ram, SkipBudget - 1)
           /\ disk' = IF Wraps(ram, SkipBudget - 1) THEN [ram EXCEPT !.cursor = 0] ELSE disk
  <2> DEFINE last == SkipBudget - 1
             c == Passed(ram, last)
             z == [ram EXCEPT !.cursor = 0]
             t == Len(ram.names) - EntryAt(ram) + 1
  <2>1. last \in Nat /\ last + 1 = SkipBudget /\ SkipBudget \in Nat
        BY LimitsAssumption
  <2>2. IsOrder(ram)
        BY <1>9 DEF IInv, OrderInv, NotLoaded
  <2>3. \A j \in 0 .. (SkipBudget - 1) : ram.names[Turn(ram, j)] \notin Present
    <3>1. SkipBudget \in 0 .. SkipBudget
          BY <2>1
    <3> QED BY <1>9, <2>2, <3>1, BeforeFirstHit
  <2>4. ram' = c /\ (disk' = disk \/ (disk' = z /\ EntryAt(ram) + last > Len(ram.names)))
        BY <1>9 DEF Wraps
  <2> HIDE DEF last
  <2>5. IsOrder(c) /\ IsOrder(z)
        BY <1>9, <2>1, <2>2, TurnOfOrder
  <2>6. c.names = ram.names /\ \A j \in Nat : Turn(c, j) = Turn(ram, SkipBudget + j)
        BY <1>9, <2>1, <2>2, TurnsAfterPassing
  <2>7. z.names = ram.names /\ t \in Nat /\ \A j \in Nat : Turn(z, j) = Turn(ram, t + j)
        BY <1>9, <2>2, TurnsFromStart
  <2> HIDE DEF c, z
  <2>8. LapAt(c, Present, seen)
    <3>1. CASE seen = {}
      <4>1. c.names \in Seq(Names)
            BY <2>5 DEF IsOrder
      <4> QED BY <3>1, <4>1, LapOfNone
    <3>2. CASE seen # {}
          BY <1>5, <1>6, <1>7, <1>9, <2>1, <2>2, <2>3, <2>5, <2>6, <3>2, LapPastMissing
    <3> QED BY <3>1, <3>2
  <2>9. ASSUME EntryAt(ram) + last > Len(ram.names)
        PROVE  LapAt(z, Present, seen)
    <3>1. CASE seen = {}
      <4>1. z.names \in Seq(Names)
            BY <2>5 DEF IsOrder
      <4> QED BY <3>1, <4>1, LapOfNone
    <3>2. CASE seen # {}
      <4>1. t <= SkipBudget
        <5>1. Len(ram.names) \in Nat /\ EntryAt(ram) \in Nat
              BY <2>2, CursorFindsEntry DEF IsOrder
        <5> QED BY <2>1, <2>9, <5>1
      <4> HIDE DEF t
      <4>2. \A j \in 0 .. (t - 1) : j \in 0 .. (SkipBudget - 1)
            BY <2>1, <2>7, <4>1
      <4>3. \A j \in 0 .. (t - 1) : ram.names[Turn(ram, j)] \notin Present
            BY <2>3, <4>2
      <4> QED BY <1>5, <1>6, <1>7, <1>9, <2>2, <2>5, <2>7, <3>2, <4>3, LapPastMissing
    <3> QED BY <3>1, <3>2
  <2>10. ApartOrder(c) /\ ApartOrder(z)
         BY <1>6, <2>6, <2>7 DEF ApartOrder
  <2>11. TwinInv'
         BY <1>4, <1>6, <2>4, <2>10 DEF TwinInv
  <2>12. LapInv'
    <3>1. LapAt(disk', Present', seen') /\ LapAt(ram', Present', seen')
          BY <1>1, <1>4, <1>5, <2>4, <2>8, <2>9
    <3> QED BY <3>1 DEF LapInv
  <2>13. KnownInv'
    <3>1. seen' # {} => Present' \subseteq ToSet(ram'.names)
          BY <1>1, <1>4, <1>7, <2>4, <2>6
    <3> QED BY <3>1 DEF KnownInv
  <2>14. WakeInv' /\ DrawnInv'
         BY <1>3, <1>4 DEF WakeInv, DrawnInv
  <2> QED BY <2>11, <2>12, <2>13, <2>14 DEF LInv
<1> QED BY <1>8, <1>9 DEF PickPastOrder

\* What is drawn counts as shown; a picture that comes back is the first of a new
\* count.
LEMMA DrawLap ==
    ASSUME IInv, LInv, Draw
    PROVE  LInv'
<1>1. /\ UNCHANGED <<folder, disk, ram>> /\ pc = "draw" /\ pc' = "asleep"
      /\ pick.name \in Present
      /\ seen' = IF pick.by # "order" THEN seen
                 ELSE IF pick.name \in seen THEN {pick.name}
                 ELSE seen \cup {pick.name}
      BY DEF Draw, folders, playlist, IInv, PickInv
<1>2. Present' = Present /\ ~FromOrder'
      BY <1>1 DEF FromOrder, Present
<1>3. TwinInv'
      BY <1>1, <1>2 DEF LInv, TwinInv
<1>4. LapAt(disk, Present, seen') /\ LapAt(ram, Present, seen')
  <2>1. CASE pick.by # "order"
        BY <1>1, <2>1 DEF FromOrder, LInv, LapInv
  <2>2. CASE pick.by = "order"
    <3>1. /\ disk = ram /\ ram.names # <<>>
          /\ pick.name = ram.names[Turn(ram, Len(ram.names) - 1)]
          /\ LapAt(ram, Present, seen \cup {pick.name})
          BY <1>1, <2>2 DEF FromOrder, LInv, DrawnInv
    <3>2. CASE pick.name \in seen
      <4>1. IsOrder(ram)
            BY <3>1 DEF IInv, OrderInv
      <4>2. ApartOrder(ram) /\ Apart(Present)
            BY DEF LInv, TwinInv
      <4>3. LapAt(ram, Present, {pick.name})
            BY <1>1, <3>1, <4>1, <4>2, LapBegun
      <4> QED BY <1>1, <2>2, <3>1, <3>2, <4>3
    <3>3. CASE pick.name \notin seen
          BY <1>1, <2>2, <3>1, <3>3
    <3> QED BY <3>2, <3>3
  <2> QED BY <2>1, <2>2
<1>5. LapInv' /\ DrawnInv'
      BY <1>1, <1>2, <1>4 DEF LapInv, DrawnInv
<1>6. WakeInv' /\ KnownInv'
      BY <1>1 DEF WakeInv, KnownInv
<1> QED BY <1>3, <1>5, <1>6 DEF LInv

\* A broken picture does not count, shown or not.
LEMMA LapWithoutBroken ==
    ASSUME NEW b, NEW P, NEW S, NEW p, p.img \in Corrupt, LapAt(b, P, S \cup {p})
    PROVE  LapAt(b, P, S)
BY DEF LapAt, LapOf

\* After a picture that cannot be drawn the next try goes on with the same lap.
LEMMA DrawFailsLap ==
    ASSUME IInv, LInv, DrawFails
    PROVE  LInv'
<1>1. /\ UNCHANGED <<folder, disk, ram, dirty, heap, seen>> /\ pc = "draw"
      /\ pick.name.img \in Corrupt /\ pc' \in {"reconcile", "pick", "asleep"}
      BY DEF DrawFails, Attempt, folders, playlist
<1>2. Present' = Present /\ ~FromOrder'
      BY <1>1 DEF FromOrder, Present
<1>3. TwinInv'
      BY <1>1, <1>2 DEF LInv, TwinInv
<1>4. LapAt(disk, Present, seen) /\ LapAt(ram, Present, seen)
  <2>1. CASE FromOrder
        BY <1>1, <2>1, LapWithoutBroken DEF LInv, DrawnInv
  <2>2. CASE ~FromOrder
        BY <2>2 DEF LInv, LapInv
  <2> QED BY <2>1, <2>2
<1>5. LapInv' /\ DrawnInv'
      BY <1>1, <1>2, <1>4 DEF LapInv, DrawnInv
<1>6. WakeInv' /\ KnownInv'
      BY <1>1, <1>2 DEF LInv, WakeInv, KnownInv
<1> QED BY <1>3, <1>5, <1>6 DEF LInv

\* A reset forgets the order in memory; the count goes on with the one on the card.
LEMMA ResetLap ==
    ASSUME IInv, LInv, Reset, seen' = {} \/ (seen' = seen /\ pc = "asleep")
    PROVE  LInv'
<1>1. /\ UNCHANGED <<folder, disk>> /\ ram' = NotLoaded /\ dirty' = TRUE /\ pc' = "awake"
      BY DEF Reset, folders
<1>2. Present' = Present /\ ~FromOrder'
      BY <1>1 DEF FromOrder, Present
<1>3. pc = "asleep" => ~FromOrder
      BY DEF FromOrder
<1>4. TwinInv' /\ LapInv' /\ DrawnInv'
      BY <1>1, <1>2, <1>3, FewerApart, LapKept
<1>5. WakeInv' /\ KnownInv'
      BY <1>1 DEF WakeInv, KnownInv
<1> QED BY <1>4, <1>5 DEF LInv

\* A reconcile keeps every lap, or begins the count anew; if it keeps it, the order
\* it leaves knows every file.
LEMMA SettledLap ==
    ASSUME IInv, LInv, FolderInv', NEW room \in Rooms, NEW gone \in SUBSET Present,
           NEW moved \in SUBSET gone, Present' = Present \ moved,
           NEW b, IsOrder(b), ApartOrder(b), Settle(room, gone, moved, b)
    PROVE  /\ ApartOrder(ram') /\ disk' \in {disk, ram'}
           /\ \/ seen' = {}
              \/ /\ seen' = seen /\ Present' \subseteq ToSet(ram'.names)
                 /\ \A P : LapAt(b, P, seen) => LapAt(ram', P, seen)
<1> DEFINE new == Unknown(Present \ gone, b)
<1>1. PICK batch \in SUBSET new :
         LET renamed == RenameInBuffer(b, batch, room.grow)
             folded == {renamed.names[i] :
                          i \in {j \in DOMAIN b.names : renamed.names[j] # b.names[j]}}
             fresh == batch \ folded
             truncated == batch # new
         IN \/ /\ fresh = {}
               /\ ram' = renamed
               /\ disk' = IF folded # {} THEN renamed ELSE disk
               /\ seen' = IF truncated \/ gone # moved THEN {} ELSE seen
            \/ /\ fresh # {} /\ ~room.splice
               /\ ram' = renamed
               /\ disk' = IF folded # {} THEN renamed ELSE disk
               /\ seen' = {}
            \/ /\ fresh # {} /\ room.splice
               /\ ram' \in IF renamed.names = <<>> THEN Laps(folder')
                            ELSE {[names |-> Kept(folder, fresh) \o renamed.names,
                                   cursor |-> 0]}
               /\ disk' = ram'
               /\ seen' = {}
      BY DEF Settle, kSubset
<1> DEFINE renamed == RenameInBuffer(b, batch, room.grow)
           folded == {renamed.names[i] :
                        i \in {j \in DOMAIN b.names : renamed.names[j] # b.names[j]}}
           fresh == batch \ folded
<1>2. /\ batch \in SUBSET Names /\ batch \cap ToSet(b.names) = {} /\ batch \subseteq Present
      /\ Present \subseteq Names
      BY PresentAreNames DEF Unknown, IInv
<1>3. room.grow \in BOOLEAN /\ (room.splice => room.grow)
      BY DEF Rooms
<1>4. IsOrder(renamed) /\ DOMAIN renamed.names = DOMAIN b.names
      BY <1>2, <1>3, RenamedOrder
<1>5. /\ Len(renamed.names) = Len(b.names) /\ EntryAt(renamed) = EntryAt(b)
      /\ \A i \in DOMAIN b.names :
           /\ renamed.names[i] = IF Counterpart(b.names[i]) \in batch
                                      /\ (room.grow \/ b.names[i].fav)
                                   THEN Counterpart(b.names[i]) ELSE b.names[i]
           /\ renamed.names[i].img = b.names[i].img
      BY <1>2, <1>3, RenamedEntries
<1>6. Apart(Present) /\ Present' \subseteq Present
      BY DEF LInv, TwinInv
<1>7. \A i \in DOMAIN b.names : renamed.names[i] # b.names[i] => renamed.names[i] \in folded
      OBVIOUS
<1>8. \A y \in folded : \E i \in DOMAIN b.names : y = renamed.names[i]
      OBVIOUS
<1>9. \/ /\ ram' = renamed /\ disk' \in {disk, ram'}
         /\ seen' = {} \/ (fresh = {} /\ batch = new /\ gone = moved /\ seen' = seen)
      \/ /\ room.splice
         /\ ram' \in IF renamed.names = <<>> THEN Laps(folder')
                      ELSE {[names |-> Kept(folder, fresh) \o renamed.names, cursor |-> 0]}
         /\ disk' = ram' /\ seen' = {}
      BY <1>1
<1>10. fresh \subseteq batch /\ \A x \in batch : x \in fresh \/ x \in folded
       OBVIOUS
<1>11. fresh \cap folded = {}
       OBVIOUS
<1> HIDE DEF renamed, folded, fresh
<1>12. \A i \in DOMAIN b.names : b.names[i] \in Names /\ b.names[i] \in ToSet(b.names)
  <2>1. b.names \in Seq(Names)
        BY DEF IsOrder
  <2> QED BY <2>1 DEF ToSet
<1>13. ApartOrder(renamed)
       BY <1>4, <1>5 DEF ApartOrder
<1>14. \A P : LapAt(b, P, seen) => LapAt(renamed, P, seen)
       BY <1>4, <1>5, LapRenamed
<1>15. ASSUME fresh = {}, batch = new, gone = moved
       PROVE  Present' \subseteq ToSet(renamed.names)
  <2>1. SUFFICES ASSUME NEW x \in Present, x \notin gone
                 PROVE  \E i \in DOMAIN b.names : x = renamed.names[i]
        BY <1>4, <1>15 DEF ToSet
  <2>2. CASE x \in ToSet(b.names)
    <3>1. PICK i \in DOMAIN b.names : x = b.names[i]
          BY <2>2 DEF ToSet
    <3>2. Counterpart(x) \notin batch
      <4>1. Counterpart(x) # x /\ Counterpart(x).img = x.img
            BY <1>2, CounterpartOfName
      <4> QED BY <1>2, <1>6, <4>1 DEF Apart
    <3> QED BY <1>5, <3>1, <3>2
  <2>3. CASE x \notin ToSet(b.names)
    <3>1. x \in batch
          BY <1>15, <2>1, <2>3 DEF Unknown
    <3> QED BY <1>8, <1>10, <1>15, <3>1
  <2> QED BY <2>2, <2>3
<1>16. ASSUME room.splice, NEW x \in fresh, NEW i \in DOMAIN b.names
       PROVE  x.img # renamed.names[i].img
  <2>1. SUFFICES ASSUME x.img = b.names[i].img PROVE FALSE
        BY <1>5
  <2>2. x \in batch /\ x \in Names /\ x # b.names[i]
        BY <1>2, <1>10, <1>12
  <2>3. x = Counterpart(b.names[i])
        BY <1>12, <2>1, <2>2, TwoNames
  <2>4. renamed.names[i] = x
        BY <1>3, <1>5, <1>16, <2>2, <2>3
  <2>5. x \in folded
        BY <1>7, <2>2, <2>4
  <2> QED BY <1>11, <2>5
<1>17. CASE /\ ram' = renamed /\ disk' \in {disk, ram'}
            /\ seen' = {} \/ (fresh = {} /\ batch = new /\ gone = moved /\ seen' = seen)
       BY <1>13, <1>14, <1>15, <1>17
<1>18. CASE /\ room.splice
            /\ ram' \in IF renamed.names = <<>> THEN Laps(folder')
                         ELSE {[names |-> Kept(folder, fresh) \o renamed.names, cursor |-> 0]}
            /\ disk' = ram' /\ seen' = {}
  <2>1. ApartOrder(ram')
    <3>1. CASE renamed.names = <<>>
      <4>1. folder' \in Seq(Names) /\ IsInjective(folder') /\ ToSet(folder') \subseteq Present
            BY <1>6 DEF FolderInv, Present
      <4>2. Apart(ToSet(folder'))
            BY <1>6, <4>1 DEF Apart
      <4>3. ram' \in Laps(folder')
            BY <1>18, <3>1
      <4> QED BY <4>1, <4>2, <4>3, ApartLaps
    <3>2. CASE renamed.names # <<>>
      <4>1. folder \in Seq(Names) /\ IsInjective(folder) /\ ToSet(folder) = Present
            BY DEF IInv, FolderInv, Present
      <4>2. /\ Kept(folder, fresh) \in Seq(Names) /\ IsInjective(Kept(folder, fresh))
            /\ ToSet(Kept(folder, fresh)) = Present \cap fresh
            BY <4>1, KeptSet
      <4>3. \A x \in ToSet(Kept(folder, fresh)) : \A i \in DOMAIN renamed.names :
              x.img # renamed.names[i].img
            BY <1>4, <1>16, <1>18, <4>2
      <4>4. ram' = [names |-> Kept(folder, fresh) \o renamed.names, cursor |-> 0]
            BY <1>18, <3>2
      <4> QED BY <1>4, <1>6, <1>13, <4>2, <4>3, <4>4, ApartSpliced
    <3> QED BY <3>1, <3>2
  <2> QED BY <1>18, <2>1
<1> QED BY <1>9, <1>17, <1>18

\* A reconcile leaves no picture twice, and an order the count fits.
LEMMA ReconcileLap ==
    ASSUME IInv, LInv, Reconcile
    PROVE  LInv'
<1> DEFINE b == IF ram = NotLoaded THEN disk ELSE ram
<1>1. pc = "reconcile" /\ pc' = "pick" /\ UNCHANGED onScreen
      BY DEF Reconcile
<1>2. PICK room \in Rooms : \E moved \in SUBSET Movable(Goes(room)) :
        MoveToPause(moved) /\ Settle(room, Goes(room), moved, b)
      BY DEF Reconcile, Goes
<1> PICK moved \in SUBSET Movable(Goes(room)) :
      MoveToPause(moved) /\ Settle(room, Goes(room), moved, b)
    BY <1>2
<1>3. /\ Goes(room) \in SUBSET Present /\ moved \in SUBSET Present
      /\ moved \subseteq Goes(room)
      BY GoneFiles DEF IInv, Movable
<1>4. FolderInv' /\ Present' = Present \ moved
      BY <1>2, <1>3, MovedToPause DEF IInv
<1>5. IsOrder(b) /\ b \in {disk, ram}
      BY DEF IInv, OrderInv
<1>6. Apart(Present) /\ ApartOrder(disk) /\ ApartOrder(ram)
      BY DEF LInv, TwinInv
<1>7. ~FromOrder /\ ~FromOrder'
      BY <1>1 DEF FromOrder
<1>8. LapAt(disk, Present, seen) /\ LapAt(ram, Present, seen)
      BY <1>7 DEF LInv, LapInv
<1> HIDE DEF b
<1>9. ApartOrder(b) /\ LapAt(b, Present, seen)
      BY <1>5, <1>6, <1>8
<1>10. /\ ApartOrder(ram') /\ disk' \in {disk, ram'}
       /\ \/ seen' = {}
          \/ /\ seen' = seen /\ Present' \subseteq ToSet(ram'.names)
             /\ \A P : LapAt(b, P, seen) => LapAt(ram', P, seen)
       BY <1>2, <1>3, <1>4, <1>5, <1>9, SettledLap
<1>11. disk'.names \in Seq(Names) /\ ram'.names \in Seq(Names)
  <2>1. IsOrder(ram')
        BY <1>2, <1>4, <1>5, SettledOrder
  <2>2. disk.names \in Seq(Names)
        BY OrdersHaveNames
  <2>3. ram'.names \in Seq(Names)
        BY <2>1 DEF IsOrder
  <2> QED BY <1>10, <2>2, <2>3
<1>12. LapAt(disk', Present', seen') /\ LapAt(ram', Present', seen')
  <2>1. CASE seen' = {}
        BY <1>11, <2>1, LapOfNone
  <2>2. CASE /\ seen' = seen
             /\ \A P : LapAt(b, P, seen) => LapAt(ram', P, seen)
    <3>1. LapAt(ram', Present, seen)
          BY <1>9, <2>2
    <3>2. LapAt(disk', Present, seen)
          BY <1>8, <1>10, <3>1
    <3> QED BY <1>4, <2>2, <3>1, <3>2, LapFewer
  <2> QED BY <1>10, <2>1, <2>2
<1>13. TwinInv'
  <2>1. Apart(Present')
        BY <1>4, FewerApart
  <2> QED BY <1>6, <1>10, <2>1 DEF TwinInv
<1>14. LapInv' /\ DrawnInv' /\ WakeInv' /\ KnownInv'
  <2>1. seen' # {} => Present' \subseteq ToSet(ram'.names)
        BY <1>10
  <2> QED BY <1>1, <1>7, <1>12, <2>1 DEF LapInv, DrawnInv, WakeInv, KnownInv
<1> QED BY <1>13, <1>14 DEF LInv

-----------------------------------------------------------------------------
(* The invariant of the specification, and what follows from it.           *)

\* The invariant holds at first: every stocked picture has one file.
LEMMA InitLap ==
    ASSUME Init
    PROVE  LInv
<1>1. Stock \in Seq(Images) /\ IsInjective(Stock)
      BY StockAssumption
<1>2. /\ DOMAIN folder = DOMAIN Stock
      /\ \A i \in DOMAIN Stock : folder[i] = [img |-> Stock[i], fav |-> FALSE]
      /\ disk = Emptied /\ ram = NotLoaded /\ dirty = TRUE
      /\ pc = "awake" /\ seen = {}
      BY DEF Init
<1>3. Apart(Present)
  <2>1. ASSUME NEW i \in DOMAIN folder, NEW j \in DOMAIN folder, folder[i].img = folder[j].img
        PROVE  folder[i] = folder[j]
    <3>1. folder[i].img = Stock[i] /\ folder[j].img = Stock[j]
          BY <1>2, <2>1
    <3>2. Stock[i] = Stock[j]
          BY <2>1, <3>1
    <3> QED BY <1>2, <3>2
  <2> QED BY <2>1 DEF Apart, Present, ToSet
<1>4. /\ Emptied.names = <<>> /\ NotLoaded.names = <<>> /\ <<>> \in Seq(Names)
      /\ ApartOrder(Emptied) /\ ApartOrder(NotLoaded)
      BY DEF Emptied, NotLoaded, ApartOrder
<1>5. TwinInv
      BY <1>2, <1>3, <1>4 DEF TwinInv
<1>6. LapInv
      BY <1>2, <1>4, LapOfNone DEF LapInv
<1> QED BY <1>2, <1>5, <1>6 DEF LInv, WakeInv, DrawnInv, KnownInv, FromOrder

\* Every step of the system keeps the invariant.
LEMMA StepLap ==
    ASSUME IInv, LInv, [Next]_vars
    PROVE  LInv'
<1>1. ASSUME NEW n \in Names, AddFile(n) PROVE LInv'
      BY <1>1, AddFileLap
<1>2. ASSUME NEW n \in Names, RemoveFile(n) PROVE LInv'
      BY <1>2, RemoveFileLap
<1>3. ASSUME NEW n \in Names, ToggleFavourite(n) PROVE LInv'
      BY <1>3, ToggleFavouriteLap
<1>4. CASE \/ ToggleInPause \/ TriageMovePause \/ TriageDelete \/ TogglePause
           \/ \E S \in SUBSET Present : MoveRandomToPause(S)
      BY <1>4, OtherEditsLap
<1>5. ASSUME NEW fits \in BOOLEAN, Reshuffle(fits) PROVE LInv'
      BY <1>5, ReshuffleLap
<1>6. CASE BlankSleep \/ PausedSleep
      BY <1>6, OtherSleepLap
<1>7. ASSUME NEW h \in {"low", "tight", "roomy"}, BeginSleep(h) PROVE LInv'
      BY <1>7, BeginSleepLap
<1>8. CASE Reconcile
      BY <1>8, ReconcileLap
<1>9. CASE PickByName
      BY <1>9, PickByNameLap
<1>10. CASE PickFromOrder
       BY <1>10, PickFromOrderLap
<1>11. CASE PickPastOrder
       BY <1>11, PickPastOrderLap
<1>12. CASE Draw
       BY <1>12, DrawLap
<1>13. CASE DrawFails
       BY <1>13, DrawFailsLap
<1>14. CASE Wake
       BY <1>14, ResetLap DEF Wake
<1>15. CASE PowerCut
       BY <1>15, ResetLap DEF PowerCut
<1>16. CASE UNCHANGED vars
  <2>1. /\ UNCHANGED <<folder, disk, ram, dirty, pc, heap, pick, seen>>
        BY <1>16 DEF vars, folders, playlist, local, history
  <2>2. Present' = Present
        BY <2>1 DEF Present
  <2>3. Eligible' = Eligible /\ (FromOrder' <=> FromOrder)
        BY <2>1, <2>2 DEF Eligible, FromOrder
  <2> QED BY <2>1, <2>2, <2>3 DEF LInv, TwinInv, WakeInv, LapInv, DrawnInv, KnownInv
<1> QED BY <1>1, <1>2, <1>3, <1>4, <1>5, <1>6, <1>7, <1>8, <1>9, <1>10, <1>11, <1>12,
           <1>13, <1>14, <1>15, <1>16 DEF Next

\* The invariant holds in every state of every behaviour.
THEOREM LapInvariance == Spec => []LInv
<1>1. Init => LInv
      BY InitLap
<1>2. IInv /\ LInv /\ [Next]_vars => LInv'
      BY StepLap
<1> QED BY <1>1, <1>2, Invariance, PTL DEF Spec

\* A picture comes back from the order only when every other one of it that is
\* still there and can be drawn has been shown: for any set of pictures, any folder
\* and any limits (WallpaperPlaylistV2: advance, reconcile and reshuffle together,
\* over any number of resets).
THEOREM LapShows == Spec => LapShowsEach
<1> DEFINE Rule == pc = "draw" /\ pc' = "asleep" /\ onScreen' # NoImage /\ pick.by = "order"
                     /\ pick.name \in seen
                   => Eligible \subseteq seen
<1>1. ASSUME LInv, [Next]_vars
      PROVE  [Rule]_vars
      BY <1>1 DEF LInv, DrawnInv, FromOrder
<1> QED BY <1>1, LapInvariance, PTL DEF Spec, LapShowsEach
=============================================================================
