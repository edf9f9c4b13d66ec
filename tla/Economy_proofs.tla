--------------------------- MODULE Economy_proofs ---------------------------
(* Proofs about what characters earn and buy, for any number of goroutines,    *)
(* characters, entities, resources, buildings and recipes.                     *)
EXTENDS Economy, FiniteSetTheorems, TLAPS

-----------------------------------------------------------------------------
\* Induction over naturals, as the choice of a least counterexample.

\* The order of the naturals as a relation.
Less == {ss \in Nat \X Nat : ss[1] < ss[2]}

\* Descending chains of numbers end.
LEMMA LessIsWellFounded == IsWellFoundedOn(Less, Nat)
  BY NatLessThanWellFounded DEF OpToRel, Less

\* What is not smaller is at least as large.
LEMMA NotLess == ASSUME NEW x \in Nat, NEW y \in Nat, ~(<<y, x>> \in Less) PROVE x <= y
  BY DEF Less

\* A non-empty set of naturals has a least element.
LEMMA LeastNatural ==
    ASSUME NEW S, S \subseteq Nat, S # {}
    PROVE  \E m \in S : \A n \in S : m <= n
<1>1. \E m \in S : \A n \in S : ~(<<n, m>> \in Less)
  BY LessIsWellFounded, WFMin
<1>2. PICK m \in S : \A n \in S : ~(<<n, m>> \in Less)
  BY <1>1
<1>3. \A n \in S : m <= n
  BY <1>2, NotLess
<1> QED  BY <1>3

-----------------------------------------------------------------------------
\* The level curve: six times the sum of the squares below level is a polynomial,
\* which avoids the recursion in XPBelow and Apply.

Sixfold(level) == (level - 1) * level * (2 * level - 1)

\* Six times the squares up to a level grow by six squares.
LEMMA SixfoldStep ==
    ASSUME NEW l \in Nat
    PROVE  Sixfold(l) \in Int /\ Sixfold(l + 1) = Sixfold(l) + 6 * (l * l)
  BY DEF Sixfold

\* It never decreases.
LEMMA SixfoldMonotone ==
    ASSUME NEW m \in Nat, NEW n \in Nat, m <= n
    PROVE  Sixfold(m) <= Sixfold(n)
<1> DEFINE S == {k \in Nat : m <= k /\ ~(Sixfold(m) <= Sixfold(k))}
<1>1. SUFFICES ASSUME S # {} PROVE FALSE
  OBVIOUS
<1>2. PICK k \in S : \A j \in S : k <= j
  <2>1. S \subseteq Nat
    OBVIOUS
  <2> HIDE DEF S
  <2> QED  BY <1>1, <2>1, LeastNatural
<1>3. k \in Nat /\ m <= k /\ ~(Sixfold(m) <= Sixfold(k))
  OBVIOUS
<1>4. k # m
  BY <1>3, SixfoldStep
<1>5. k - 1 \in Nat /\ m <= k - 1
  BY <1>3, <1>4
<1>6. k - 1 \notin S
  BY <1>2, <1>5
<1>7. Sixfold(m) <= Sixfold(k - 1)
  BY <1>5, <1>6
<1>8. Sixfold(k) = Sixfold(k - 1) + 6 * ((k - 1) * (k - 1))
  <2>1. (k - 1) + 1 = k
    BY <1>3
  <2> QED  BY <1>5, <2>1, SixfoldStep
<1>9. (k - 1) * (k - 1) \in Nat
  BY <1>5
<1>10. Sixfold(m) \in Int /\ Sixfold(k - 1) \in Int
  BY <1>5, SixfoldStep
<1> HIDE DEF S
<1> DEFINE a == Sixfold(m)
           b == Sixfold(k - 1)
           q == (k - 1) * (k - 1)
<1>11. a <= b + 6 * q
  <2>1. a \in Int /\ b \in Int /\ q \in Nat /\ a <= b
    BY <1>7, <1>9, <1>10
  <2> HIDE DEF a, b, q
  <2> QED  BY <2>1
<1> QED  BY <1>3, <1>8, <1>11

\* It grows beyond every bound.
LEMMA SixfoldGrows ==
    ASSUME NEW n \in Nat
    PROVE  Sixfold(n + 1) >= n
<1> DEFINE g == (n + 1) * (2 * n + 1)
<1>1. g \in Nat /\ g >= 1
  BY DEF g
<1>2. Sixfold(n + 1) = n * g
  BY DEF Sixfold
<1> HIDE DEF g
<1>3. n * g >= n
  BY <1>1
<1> QED  BY <1>2, <1>3

\* What the levels below a level cost.
Total(n) == CurveBase * Sixfold(n)

\* Each level adds what it costs to the total.
LEMMA TotalStep ==
    ASSUME NEW n \in Nat
    PROVE  /\ Total(n) \in Int /\ XPForLevel(n) \in Nat
           /\ Total(n + 1) = Total(n) + 6 * XPForLevel(n)
<1> DEFINE s == Sixfold(n)
           q == n * n
<1>1. s \in Int /\ q \in Nat /\ Sixfold(n + 1) = s + 6 * q
  BY SixfoldStep
<1>2. CurveBase \in Nat
  BY CurveBaseIsPositive
<1>3. XPForLevel(n) = CurveBase * q
  BY <1>2 DEF XPForLevel
<1> HIDE DEF s, q
<1>4. CurveBase * (s + 6 * q) = CurveBase * s + 6 * (CurveBase * q)
  BY <1>1, <1>2
<1>5. CurveBase * s \in Int /\ CurveBase * q \in Nat
  BY <1>1, <1>2
<1>6. Total(n) = CurveBase * s /\ Total(n + 1) = CurveBase * (s + 6 * q)
  BY <1>1 DEF Total, s
<1> QED  BY <1>3, <1>4, <1>5, <1>6

\* A higher level never costs less in all.
LEMMA TotalMonotone ==
    ASSUME NEW m \in Nat, NEW n \in Nat, m <= n
    PROVE  Total(m) <= Total(n)
<1> DEFINE a == Sixfold(m)
           b == Sixfold(n)
<1>1. a \in Int /\ b \in Int /\ a <= b /\ CurveBase \in Nat
  BY SixfoldStep, SixfoldMonotone, CurveBaseIsPositive
<1> HIDE DEF a, b
<1>2. CurveBase * a <= CurveBase * b
  BY <1>1
<1> QED  BY <1>2 DEF Total, a, b

\* The total outgrows any experience, so the loop of Apply ends.
LEMMA TotalGrows ==
    ASSUME NEW n \in Nat
    PROVE  Total(n + 1) >= n
<1> DEFINE b == Sixfold(n + 1)
<1>1. b \in Int /\ b >= n /\ CurveBase \in Nat \ {0}
  BY SixfoldStep, SixfoldGrows, CurveBaseIsPositive
<1> HIDE DEF b
<1>2. CurveBase * b >= b
  BY <1>1
<1>3. CurveBase * b \in Int
  BY <1>1
<1>4. CurveBase * b >= n
  BY <1>1, <1>2, <1>3
<1> QED  BY <1>4 DEF Total, b

\* It is a multiple of six.
LEMMA TotalDivides ==
    ASSUME NEW n \in Nat
    PROVE  \E y \in Nat : 6 * y = Total(n)
<1> DEFINE S == {k \in Nat : ~\E y \in Nat : 6 * y = Total(k)}
<1>1. SUFFICES ASSUME S # {} PROVE FALSE
  OBVIOUS
<1>2. PICK k \in S : \A j \in S : k <= j
  <2>1. S \subseteq Nat
    OBVIOUS
  <2> HIDE DEF S
  <2> QED  BY <1>1, <2>1, LeastNatural
<1>3. k \in Nat /\ ~\E y \in Nat : 6 * y = Total(k)
  OBVIOUS
<1>4. k # 0
  <2>1. Total(0) = 0
    BY CurveBaseIsPositive DEF Total, Sixfold
  <2>2. 6 * 0 = Total(0)
    BY <2>1
  <2> QED  BY <1>3, <2>2
<1>5. k - 1 \in Nat /\ (k - 1) + 1 = k
  BY <1>3, <1>4
<1>6. k - 1 \notin S
  BY <1>2, <1>5
<1>7. PICK y \in Nat : 6 * y = Total(k - 1)
  BY <1>5, <1>6
<1> HIDE DEF S
<1>8. Total(k) = Total(k - 1) + 6 * XPForLevel(k - 1) /\ XPForLevel(k - 1) \in Nat
  BY <1>5, TotalStep
<1>9. 6 * (y + XPForLevel(k - 1)) = Total(k)
  BY <1>7, <1>8
<1>10. y + XPForLevel(k - 1) \in Nat
  BY <1>8
<1> QED  BY <1>3, <1>9, <1>10

\* The recursive definition of XPBelow has a solution, and this is what it is.
LEMMA XPBelowExists ==
    /\ XPBelow = [level \in Nat |-> IF level <= 1 THEN 0 ELSE XPBelow[level - 1] + XPForLevel(level - 1)]
<1> DEFINE G(h) == [level \in Nat |-> IF level <= 1 THEN 0 ELSE h[level - 1] + XPForLevel(level - 1)]
           f == [n \in Nat |-> CHOOSE y \in Nat : 6 * y = Total(n)]
<1>1. ASSUME NEW n \in Nat PROVE f[n] \in Nat /\ 6 * f[n] = Total(n)
  BY TotalDivides
<1> HIDE DEF f
<1>2. ASSUME NEW n \in Nat PROVE f[n] = G(f)[n]
  <2>1. CASE n <= 1
    <3>1. Total(n) = 0
      BY <2>1, CurveBaseIsPositive DEF Total, Sixfold
    <3> QED  BY <1>1, <2>1, <3>1
  <2>2. CASE ~(n <= 1)
    <3>1. n - 1 \in Nat /\ (n - 1) + 1 = n
      BY <2>2
    <3>2. Total(n) = Total(n - 1) + 6 * XPForLevel(n - 1) /\ XPForLevel(n - 1) \in Nat
      BY <3>1, TotalStep
    <3>3. f[n] = f[n - 1] + XPForLevel(n - 1)
      BY <1>1, <3>1, <3>2
    <3> QED  BY <2>2, <3>3
  <2> QED  BY <2>1, <2>2
<1>3. f = G(f)
  <2>1. f = [n \in Nat |-> f[n]]
    BY DEF f
  <2> QED  BY <1>2, <2>1
<1>4. \E h : h = G(h)
  BY <1>3
<1>5. XPBelow = CHOOSE h : h = G(h)
  BY DEF XPBelow
<1> HIDE DEF G
<1>6. XPBelow = G(XPBelow)
  BY <1>4, <1>5
<1> QED  BY <1>6 DEF G

\* The recursive sum of the curve is the closed form.
LEMMA XPBelowTotal ==
    ASSUME NEW n \in Nat
    PROVE  XPBelow[n] \in Nat /\ 6 * XPBelow[n] = Total(n)
<1> DEFINE S == {k \in Nat : ~(XPBelow[k] \in Nat /\ 6 * XPBelow[k] = Total(k))}
<1>1. SUFFICES ASSUME S # {} PROVE FALSE
  OBVIOUS
<1>2. PICK k \in S : \A j \in S : k <= j
  <2>1. S \subseteq Nat
    OBVIOUS
  <2> HIDE DEF S
  <2> QED  BY <1>1, <2>1, LeastNatural
<1>3. k \in Nat /\ ~(XPBelow[k] \in Nat /\ 6 * XPBelow[k] = Total(k))
  OBVIOUS
<1>4. XPBelow[k] = IF k <= 1 THEN 0 ELSE XPBelow[k - 1] + XPForLevel(k - 1)
  BY <1>3, XPBelowExists
<1>5. CASE k <= 1
  <2>1. Total(k) = 0
    BY <1>3, <1>5, CurveBaseIsPositive DEF Total, Sixfold
  <2> QED  BY <1>3, <1>4, <1>5, <2>1
<1>6. CASE ~(k <= 1)
  <2>1. k - 1 \in Nat /\ (k - 1) + 1 = k
    BY <1>3, <1>6
  <2>2. k - 1 \notin S
    BY <1>2, <2>1
  <2>3. XPBelow[k - 1] \in Nat /\ 6 * XPBelow[k - 1] = Total(k - 1)
    BY <2>1, <2>2
  <2> HIDE DEF S
  <2>4. Total(k) = Total(k - 1) + 6 * XPForLevel(k - 1) /\ XPForLevel(k - 1) \in Nat
    BY <2>1, TotalStep
  <2>5. XPBelow[k] = XPBelow[k - 1] + XPForLevel(k - 1)
    BY <1>4, <1>6
  <2> QED  BY <1>3, <2>3, <2>4, <2>5
<1> QED  BY <1>5, <1>6

\* Where a level and its experience lead: a level that the remaining experience
\* does not complete, at the same total.
Result(l, x, r) ==
    /\ r \in [level : Nat, exp : Nat]
    /\ l <= r.level
    /\ r.exp < XPForLevel(r.level)
    /\ Total(r.level) + 6 * r.exp = Total(l) + 6 * x

\* Apply has a result for every level and experience.
LEMMA ResultExists ==
    ASSUME NEW l \in Nat, NEW x \in Nat
    PROVE  \E r : Result(l, x, r)
<1> DEFINE sum == Total(l) + 6 * x
           S == {n \in Nat : l <= n /\ sum < Total(n + 1)}
<1>1. sum \in Int /\ Total(l) \in Int
  BY TotalStep
<1>2. S # {}
  <2>1. PICK n \in Nat : l <= n /\ sum < n
    <3>1. CASE sum < 0
      <4>1. l + 1 \in Nat /\ l <= l + 1 /\ sum < l + 1
        BY <1>1, <3>1
      <4> QED  BY <4>1
    <3>2. CASE sum >= 0
      <4>1. l + sum + 1 \in Nat /\ l <= l + sum + 1 /\ sum < l + sum + 1
        BY <1>1, <3>2
      <4> QED  BY <4>1
    <3> QED  BY <1>1, <3>1, <3>2
  <2>2. Total(n + 1) \in Int /\ Total(n + 1) >= n
    BY TotalStep, TotalGrows
  <2>3. sum < Total(n + 1)
    BY <1>1, <2>1, <2>2
  <2> QED  BY <2>1, <2>3
<1>3. PICK m \in S : \A j \in S : m <= j
  <2>1. S \subseteq Nat
    OBVIOUS
  <2> HIDE DEF S
  <2> QED  BY <1>2, <2>1, LeastNatural
<1>4. m \in Nat /\ l <= m /\ sum < Total(m + 1)
  OBVIOUS
<1>5. Total(m) <= sum
  <2>1. CASE m = l
    BY <1>1, <2>1
  <2>2. CASE m # l
    <3>1. m - 1 \in Nat /\ l <= m - 1 /\ (m - 1) + 1 = m
      BY <1>4, <2>2
    <3>2. m - 1 \notin S
      BY <1>3, <3>1
    <3>3. ~(sum < Total(m))
      BY <3>1, <3>2
    <3>4. Total(m) \in Int
      BY <1>4, TotalStep
    <3> HIDE DEF S, sum
    <3> QED  BY <1>1, <3>3, <3>4
  <2> QED  BY <2>1, <2>2
<1> HIDE DEF S
<1>6. PICK y \in Nat : 6 * y = Total(m)
  BY <1>4, TotalDivides
<1>7. PICK z \in Nat : 6 * z = Total(l)
  BY TotalDivides
<1> DEFINE e == z + x - y
<1>8. 6 * e = sum - Total(m) /\ e \in Int
  BY <1>6, <1>7
<1>9. e \in Nat
  BY <1>5, <1>6, <1>7
<1>10. e < XPForLevel(m)
  <2>1. Total(m + 1) = Total(m) + 6 * XPForLevel(m) /\ XPForLevel(m) \in Nat
    BY <1>4, TotalStep
  <2> QED  BY <1>4, <1>6, <1>7, <2>1
<1> DEFINE r == [level |-> m, exp |-> e]
<1>11. Total(m) + 6 * e = sum
  BY <1>6, <1>7, <1>8
<1> HIDE DEF e, sum
<1>12. r \in [level : Nat, exp : Nat] /\ r.level = m /\ r.exp = e
  BY <1>4, <1>9
<1> HIDE DEF r
<1>13. Result(l, x, r)
  BY <1>4, <1>10, <1>11, <1>12 DEF Result, sum
<1> QED  BY <1>13

\* Two such levels are one.
LEMMA ResultOrder ==
    ASSUME NEW l \in Nat, NEW x \in Nat, NEW r, NEW q, Result(l, x, r), Result(l, x, q)
    PROVE  ~(r.level < q.level)
<1> SUFFICES ASSUME r.level < q.level PROVE FALSE
  OBVIOUS
<1> DEFINE a == r.level
           b == q.level
<1>1. /\ a \in Nat /\ b \in Nat /\ r.exp \in Nat /\ q.exp \in Nat /\ a + 1 <= b
      /\ r.exp < XPForLevel(a)
      /\ Total(a) + 6 * r.exp = Total(l) + 6 * x
      /\ Total(b) + 6 * q.exp = Total(l) + 6 * x
  BY DEF Result
<1>2. Total(l) \in Int /\ Total(a) \in Int /\ Total(b) \in Int /\ XPForLevel(a) \in Nat
  BY <1>1, TotalStep
<1>3. Total(a + 1) = Total(a) + 6 * XPForLevel(a)
  BY <1>1, TotalStep
<1>4. Total(a + 1) <= Total(b)
  BY <1>1, TotalMonotone
<1> HIDE DEF a, b
<1> QED  BY <1>1, <1>2, <1>3, <1>4

\* And only one: two results would lie on the same level.
LEMMA ResultUnique ==
    ASSUME NEW l \in Nat, NEW x \in Nat, NEW r, NEW q, Result(l, x, r), Result(l, x, q)
    PROVE  r = q
<1>1. r.level = q.level
  BY ResultOrder DEF Result
<1>2. Total(r.level) \in Int /\ Total(l) \in Int
  BY TotalStep DEF Result
<1>3. r.exp = q.exp
  BY <1>1, <1>2 DEF Result
<1> QED  BY <1>1, <1>3 DEF Result

\* Completing a level changes nothing about where it leads.
LEMMA ResultUp ==
    ASSUME NEW l \in Nat, NEW x \in Nat, x >= XPForLevel(l), NEW r
    PROVE  Result(l, x, r) <=> Result(l + 1, x - XPForLevel(l), r)
<1> DEFINE c == XPForLevel(l)
<1>1. c \in Nat /\ Total(l) \in Int /\ Total(l + 1) = Total(l) + 6 * c
  BY TotalStep
<1>2. Total(l + 1) + 6 * (x - c) = Total(l) + 6 * x
  BY <1>1
<1>3. ASSUME Result(l, x, r) PROVE l # r.level
  <2> SUFFICES ASSUME l = r.level PROVE FALSE
    OBVIOUS
  <2>1. r.exp < c /\ Total(l) + 6 * r.exp = Total(l) + 6 * x /\ r.exp \in Nat
    BY <1>3 DEF Result
  <2> HIDE DEF c
  <2>2. x >= c
    BY DEF c
  <2> QED  BY <1>1, <2>1, <2>2
<1>4. ASSUME Result(l, x, r) PROVE Result(l + 1, x - c, r)
  BY <1>2, <1>3, <1>4 DEF Result
<1>5. ASSUME Result(l + 1, x - c, r) PROVE Result(l, x, r)
  BY <1>2, <1>5 DEF Result
<1> QED  BY <1>4, <1>5

\* Experience below the next level's cost levels nobody up.
LEMMA ResultStay ==
    ASSUME NEW l \in Nat, NEW x \in Nat, ~(x >= XPForLevel(l))
    PROVE  Result(l, x, [level |-> l, exp |-> x])
<1>1. XPForLevel(l) \in Nat
  BY TotalStep
<1> QED  BY <1>1 DEF Result

\* The recursive definition of Apply has a solution.
LEMMA ApplyExists ==
    Apply = [xp \in Nat |-> [level \in Nat |->
               IF xp >= XPForLevel(level)
               THEN Apply[xp - XPForLevel(level)][level + 1]
               ELSE [level |-> level, exp |-> xp]]]
<1> DEFINE G(h) == [xp \in Nat |-> [level \in Nat |->
                      IF xp >= XPForLevel(level)
                      THEN h[xp - XPForLevel(level)][level + 1]
                      ELSE [level |-> level, exp |-> xp]]]
           f == [xp \in Nat |-> [level \in Nat |-> CHOOSE r : Result(level, xp, r)]]
<1>1. ASSUME NEW l \in Nat, NEW x \in Nat PROVE Result(l, x, f[x][l])
  BY ResultExists
<1> HIDE DEF f
<1>2. ASSUME NEW l \in Nat, NEW x \in Nat PROVE f[x][l] = G(f)[x][l]
  <2>1. CASE x >= XPForLevel(l)
    <3>1. l + 1 \in Nat /\ x - XPForLevel(l) \in Nat
      BY <2>1, TotalStep
    <3>2. Result(l + 1, x - XPForLevel(l), f[x - XPForLevel(l)][l + 1])
      BY <1>1, <3>1
    <3>3. Result(l, x, f[x - XPForLevel(l)][l + 1])
      BY <2>1, <3>2, ResultUp
    <3>4. f[x][l] = f[x - XPForLevel(l)][l + 1]
      BY <1>1, <3>3, ResultUnique
    <3> QED  BY <2>1, <3>4
  <2>2. CASE ~(x >= XPForLevel(l))
    <3>1. f[x][l] = [level |-> l, exp |-> x]
      BY <1>1, <2>2, ResultStay, ResultUnique
    <3> QED  BY <2>2, <3>1
  <2> QED  BY <2>1, <2>2
<1>3. f = G(f)
  <2>1. f = [x \in Nat |-> [l \in Nat |-> f[x][l]]]
    BY DEF f
  <2>2. G(f) = [x \in Nat |-> [l \in Nat |-> G(f)[x][l]]]
    OBVIOUS
  <2> HIDE DEF G
  <2> QED  BY <1>2, <2>1, <2>2
<1>4. \E h : h = G(h)
  BY <1>3
<1>5. Apply = CHOOSE h : h = G(h)
  BY DEF Apply
<1> HIDE DEF G
<1>6. Apply = G(Apply)
  BY <1>4, <1>5
<1> QED  BY <1>6 DEF G

\* What the loop of progression.Apply computes, for every level and experience.
LEMMA ApplyResult ==
    ASSUME NEW l \in Nat \ {0}, NEW x \in Nat
    PROVE  Result(l, x, Apply[x][l])
<1> DEFINE S == {k \in Nat : \E n \in Nat \ {0} : ~Result(n, k, Apply[k][n])}
<1>1. SUFFICES ASSUME S # {} PROVE FALSE
  OBVIOUS
<1>2. PICK k \in S : \A j \in S : k <= j
  <2>1. S \subseteq Nat
    OBVIOUS
  <2> HIDE DEF S
  <2> QED  BY <1>1, <2>1, LeastNatural
<1>3. PICK n \in Nat \ {0} : ~Result(n, k, Apply[k][n])
  OBVIOUS
<1>4. k \in Nat
  OBVIOUS
<1>5. Apply[k][n] = IF k >= XPForLevel(n) THEN Apply[k - XPForLevel(n)][n + 1]
                    ELSE [level |-> n, exp |-> k]
  <2>1. Apply[k] = [level \in Nat |->
                      IF k >= XPForLevel(level) THEN Apply[k - XPForLevel(level)][level + 1]
                      ELSE [level |-> level, exp |-> k]]
    BY <1>4, ApplyExists, Zenon
  <2> QED  BY <2>1
<1>6. CASE k >= XPForLevel(n)
  <2>1. XPForLevel(n) \in Nat /\ XPForLevel(n) > 0
    <3>1. n * n \in Nat /\ n * n > 0
      OBVIOUS
    <3> QED  BY <3>1, CurveBaseIsPositive DEF XPForLevel
  <2>2. k - XPForLevel(n) \in Nat /\ k - XPForLevel(n) < k /\ n + 1 \in Nat \ {0}
    BY <1>4, <1>6, <2>1
  <2>3. k - XPForLevel(n) \notin S
    BY <1>2, <2>2
  <2>4. Result(n + 1, k - XPForLevel(n), Apply[k - XPForLevel(n)][n + 1])
    BY <2>2, <2>3
  <2> HIDE DEF S
  <2> QED  BY <1>3, <1>4, <1>5, <1>6, <2>4, ResultUp
<1>7. CASE ~(k >= XPForLevel(n))
  BY <1>3, <1>4, <1>5, <1>7, ResultStay
<1> QED  BY <1>6, <1>7

-----------------------------------------------------------------------------
\* Calls: what a step of one goroutine leaves in its arguments.

\* Goroutine p goes to step s with r, and no other moves.
Moves(p, s, r) ==
    /\ s \in Steps /\ r \in Call
    /\ pc' = [pc EXCEPT ![p] = s]
    /\ loc' = [loc EXCEPT ![p] = r]

\* A move changes the step and the call of one goroutine.
LEMMA MovesOne ==
    ASSUME TypeOK, NEW p \in Proc, NEW s, NEW r, Moves(p, s, r)
    PROVE  /\ pc' \in [Proc -> Steps] /\ loc' \in [Proc -> Call]
           /\ pc'[p] = s /\ loc'[p] = r
           /\ \A q \in Proc \ {p} : pc'[q] = pc[q] /\ loc'[q] = loc[q]
  BY DEF TypeOK, Moves

\* The call of an idle goroutine is well typed.
LEMMA NoCallType == NoCall \in Call
<1>1. NoCall.out \in Output
  BY DEF NoCall, Output, Empty
<1>2. Empty \in [Resource -> Nat] /\ [b \in Building |-> 0] \in [Building -> Nat]
  BY DEF Empty
<1> QED  BY <1>1, <1>2, EconomyBounds DEF NoCall, Call

\* What each step changes in a call.
LEMMA CallFields ==
    ASSUME NEW r \in Call
    PROVE  /\ \A op \in {"tick", "upgrade"} \cup DOMAIN After : [r EXCEPT !.op = op] \in Call
           /\ \A e \in 0 .. MaxEntities : [r EXCEPT !.eid = e] \in Call
           /\ \A T \in SUBSET EntityId : [r EXCEPT !.todo = T] \in Call
           /\ \A t \in Nat, w \in Nat : [r EXCEPT !.now = t, !.window = w] \in Call
           /\ \A o \in Output, c \in Character : [r EXCEPT !.out = o, !.char = c] \in Call
           /\ \A w \in Nat : [r EXCEPT !.window = w] \in Call
           /\ \A f \in [Resource -> Nat] : [r EXCEPT !.seen = f] \in Call
           /\ \A T \in SUBSET Resource : [r EXCEPT !.due = T] \in Call
  BY ZenonT(60) DEF Call

\* A call stays well typed under the assignments that set two of its fields.
LEMMA CallFields2 ==
    ASSUME NEW r \in Call
    PROVE  /\ \A op \in {"tick", "upgrade"} \cup DOMAIN After, c \in Character,
                 a \in Activity \cup Recipe \cup {None, NoProc} :
                [r EXCEPT !.op = op, !.char = c, !.arg = a] \in Call
           /\ \A e \in 0 .. MaxEntities, T \in SUBSET EntityId : [r EXCEPT !.eid = e, !.todo = T] \in Call
           /\ \A e \in 0 .. MaxEntities, f \in [Building -> Nat] : [r EXCEPT !.eid = e, !.level = f] \in Call
           /\ \A op \in {"tick", "upgrade"} \cup DOMAIN After, T \in SUBSET Resource :
                [r EXCEPT !.op = op, !.due = T] \in Call
  BY ZenonT(60) DEF Call

\* Where the mirror sends each kind of request.
LEMMA Ops ==
    /\ DOMAIN After = {"catchup", "view", "assign", "balance", "debit"}
    /\ After["catchup"] = "now" /\ After["view"] = "view" /\ After["assign"] = "assign"
    /\ After["balance"] = "balance" /\ After["debit"] = "debit"
  BY DEF After

\* The operations that pass each step.
LEMMA OpsAtStep ==
    /\ OpsAt("idle") = {"none"}
    /\ OpsAt("mirror") = DOMAIN After /\ OpsAt("create") = DOMAIN After
    /\ OpsAt("view") = {"view"} /\ OpsAt("assign") = {"assign"} /\ OpsAt("balance") = {"balance"}
    /\ OpsAt("query") = {"tick"} /\ OpsAt("next") = {"tick"}
    /\ \A s \in {"now", "last", "accrue", "earn", "bank", "record", "stats"} : OpsAt(s) = {"tick", "catchup"}
    /\ \A s \in {"lock", "pay"} : OpsAt(s) = {"tick", "catchup", "balance", "upgrade"}
    /\ \A s \in {"debit", "debited", "item"} : OpsAt(s) = {"debit"}
    /\ \A s \in {"levels", "raise"} : OpsAt(s) = {"upgrade"}
  BY DEF OpsAt

\* A call that has ended has established nothing.
LEMMA EndedCall == CallAt("idle", NoCall)
<1>1. NoCall.op = "none" /\ NoCall.todo = {} /\ NoCall.out = NoCall.out
  BY DEF NoCall
<1> QED  BY <1>1, Ops, OpsAtStep DEF CallAt

\* The first of some ids is one of them.
LEMMA FirstOf ==
    ASSUME NEW S, S \subseteq Nat, S # {}
    PROVE  First(S) \in S
<1>1. \E m \in S : \A n \in S : m <= n
  BY LeastNatural
<1> QED  BY <1>1 DEF First

\* The entities of an owner are entities.
LEMMA OwnedMirrored ==
    ASSUME TypeOK, NEW c, ListByOwner(c) # {}
    PROVE  /\ First(ListByOwner(c)) \in Mirrored /\ First(ListByOwner(c)) \in EntityId
           /\ entities[First(ListByOwner(c))] = c
<1>1. ListByOwner(c) \subseteq Mirrored /\ Mirrored \subseteq EntityId /\ Mirrored \subseteq Nat
  BY EconomyBounds DEF ListByOwner, Mirrored, EntityId, TypeOK, StoreTypeOK
<1>2. First(ListByOwner(c)) \in ListByOwner(c)
  BY <1>1, FirstOf
<1> QED  BY <1>1, <1>2 DEF ListByOwner

\* Entities have ids below the bound.
LEMMA MirroredIds == ASSUME TypeOK PROVE Mirrored \subseteq EntityId /\ EntityId \subseteq 0 .. MaxEntities
                                        /\ EntityId \subseteq Nat
  BY EconomyBounds DEF Mirrored, EntityId, TypeOK, StoreTypeOK

\* A goroutine whose arguments do not change.
LEMMA SameCall ==
    ASSUME TypeOK, NEW p \in Proc, NEW s \in Steps, Goto(p, s), UNCHANGED loc
    PROVE  Moves(p, s, loc[p])
  BY DEF TypeOK, Goto, Moves

\* A call that ends leaves its goroutine idle.
LEMMA FinishMoves ==
    ASSUME TypeOK, NEW p \in Proc, Finish(p)
    PROVE  Moves(p, "idle", NoCall) /\ CallAt("idle", NoCall)
  BY EndedCall, NoCallType DEF Finish, Goto, Moves, Steps

\* A request arrives.
LEMMA BeginForm ==
    ASSUME EconomyIInv, NEW p \in Proc, NEW c \in Character,
           NEW op \in DOMAIN After \cup {"upgrade"}, NEW first \in {"mirror", "levels"},
           NEW a \in Activity \cup Recipe \cup {None, NoProc},
           op = "upgrade" <=> first = "levels",
           op \in {"balance", "debit"} => a \in Recipe, op = "upgrade" => a \in Building,
           Begin(p, op, c, a, first)
    PROVE  /\ Moves(p, first, [loc[p] EXCEPT !.op = op, !.char = c, !.arg = a])
           /\ CallAt(first, [loc[p] EXCEPT !.op = op, !.char = c, !.arg = a])
<1> DEFINE r == [loc[p] EXCEPT !.op = op, !.char = c, !.arg = a]
<1>1. pc[p] = "idle" /\ pc' = [pc EXCEPT ![p] = first]
      /\ loc' = [loc EXCEPT ![p].op = op, ![p].char = c, ![p].arg = a]
  BY DEF Begin, At, Goto
<1>2. loc[p] \in Call /\ loc \in [Proc -> Call]
  BY DEF EconomyIInv, TypeOK
<1>3. loc[p] = NoCall
  BY <1>1 DEF EconomyIInv, CallInv, CallAt
<1>4. r \in Call
  BY <1>2, CallFields2
<1>5. r.op = op /\ r.char = c /\ r.arg = a /\ r.out = NoCall.out /\ r.todo = {}
  BY <1>2, <1>3 DEF Call, NoCall
<1>6. loc' = [loc EXCEPT ![p] = r]
  BY <1>1, <1>2
<1> HIDE DEF r
<1>7. Moves(p, first, r)
  BY <1>1, <1>4, <1>6 DEF Moves, Steps
<1>8. CallAt(first, r)
  BY <1>5, Ops, OpsAtStep DEF CallAt
<1> QED  BY <1>7, <1>8 DEF r

\* Behind the mutex a character is found, or found to have no entity.
LEMMA MirrorLockForm ==
    ASSUME EconomyIInv, NEW p \in Proc, MirrorLock(p)
    PROVE  \/ /\ Moves(p, "create", loc[p]) /\ CallAt("create", loc[p])
              /\ entkey = NoProc /\ entkey' = p /\ ListByOwner(loc[p].char) = {}
           \/ /\ \E e \in Mirrored :
                   LET r == [loc[p] EXCEPT !.eid = e] IN
                   Moves(p, After[loc[p].op], r) /\ CallAt(After[loc[p].op], r)
              /\ entkey' = entkey
<1> DEFINE mine == ListByOwner(loc[p].char)
<1>1. pc[p] = "mirror" /\ CallAt(pc[p], loc[p]) /\ TypeOK /\ loc[p] \in Call /\ loc \in [Proc -> Call]
  BY DEF MirrorLock, At, EconomyIInv, CallInv, TypeOK
<1>2. CASE mine = {}
  <2>1. Goto(p, "create") /\ entkey = NoProc /\ entkey' = p /\ UNCHANGED loc
    BY <1>2 DEF MirrorLock
  <2>2. Moves(p, "create", loc[p])
    BY <1>1, <2>1, SameCall DEF Steps
  <2>3. CallAt("create", loc[p])
    BY <1>1, OpsAtStep DEF CallAt
  <2> QED  BY <1>2, <2>1, <2>2, <2>3
<1>3. CASE mine # {}
  <2> DEFINE e == First(mine)
             r == [loc[p] EXCEPT !.eid = e]
             s == After[loc[p].op]
  <2>1. pc' = [pc EXCEPT ![p] = s] /\ entkey' = entkey /\ loc' = [loc EXCEPT ![p].eid = e]
    BY <1>3 DEF MirrorLock, Goto
  <2>2. e \in Mirrored /\ e \in 0 .. MaxEntities
    BY <1>1, <1>3, OwnedMirrored, MirroredIds
  <2>3. loc[p].op \in DOMAIN After
    BY <1>1, OpsAtStep DEF CallAt
  <2> HIDE DEF e
  <2>4. /\ r \in Call /\ r.eid = e /\ r.op = loc[p].op /\ r.char = loc[p].char /\ r.arg = loc[p].arg
        /\ r.out = loc[p].out /\ r.todo = loc[p].todo
    <3>1. r \in Call
      BY <1>1, <2>2, CallFields
    <3>2. /\ r.eid = e /\ r.op = loc[p].op /\ r.char = loc[p].char /\ r.arg = loc[p].arg
          /\ r.out = loc[p].out /\ r.todo = loc[p].todo
      BY <1>1 DEF Call
    <3> QED  BY <3>1, <3>2
  <2>5. loc' = [loc EXCEPT ![p] = r]
    BY <1>1, <2>1
  <2> HIDE DEF r
  <2>6. Moves(p, s, r)
    BY <2>1, <2>3, <2>4, <2>5, Ops DEF Moves, Steps
  <2>7. CallAt(s, r)
    BY <1>1, <2>2, <2>3, <2>4, Ops, OpsAtStep DEF CallAt
  <2> QED  BY <2>1, <2>2, <2>6, <2>7 DEF r
<1> QED  BY <1>2, <1>3

\* The ticker starts, lists the entities and takes them one by one.
LEMMA TickerForm ==
    ASSUME EconomyIInv, runTicker
    PROVE  LET r == [loc[Ticker] EXCEPT !.op = "tick"] IN
           Moves(Ticker, "query", r) /\ CallAt("query", r)
<1> DEFINE r == [loc[Ticker] EXCEPT !.op = "tick"]
<1>1. /\ pc[Ticker] = "idle" /\ pc' = [pc EXCEPT ![Ticker] = "query"]
      /\ loc' = [loc EXCEPT ![Ticker].op = "tick"]
  BY DEF runTicker, At, Goto
<1>2. loc[Ticker] \in Call /\ loc \in [Proc -> Call]
  BY TickerIsAProc DEF EconomyIInv, TypeOK
<1>3. loc[Ticker] = NoCall
  BY <1>1, TickerIsAProc DEF EconomyIInv, CallInv, CallAt
<1>4. r \in Call /\ r.op = "tick" /\ r.out = NoCall.out /\ r.todo = {}
  <2>1. r \in Call
    BY <1>2, CallFields
  <2>2. r.op = "tick" /\ r.out = loc[Ticker].out /\ r.todo = loc[Ticker].todo
    BY <1>2 DEF Call
  <2>3. NoCall.todo = {}
    BY DEF NoCall
  <2> QED  BY <1>3, <2>1, <2>2, <2>3
<1>5. loc' = [loc EXCEPT ![Ticker] = r]
  BY <1>1, <1>2
<1> HIDE DEF r
<1> QED  BY <1>1, <1>4, <1>5, Ops, OpsAtStep DEF Moves, Steps, CallAt, r

\* A tick takes the list of assigned entities.
LEMMA TickAllForm ==
    ASSUME EconomyIInv, NEW p \in Proc, TickAll(p)
    PROVE  LET r == [loc[p] EXCEPT !.todo = Query] IN
           Moves(p, "next", r) /\ CallAt("next", r)
<1> DEFINE r == [loc[p] EXCEPT !.todo = Query]
<1>1. /\ pc[p] = "query" /\ pc' = [pc EXCEPT ![p] = "next"]
      /\ loc' = [loc EXCEPT ![p].todo = Query]
  BY DEF TickAll, At, Goto
<1>2. loc[p] \in Call /\ loc \in [Proc -> Call] /\ CallAt(pc[p], loc[p])
  BY DEF EconomyIInv, TypeOK, CallInv
<1>3. Query \subseteq Mirrored /\ Query \in SUBSET EntityId
  <2>1. \A e \in EntityId : assigned[e] # None => e \in Mirrored
    BY DEF EconomyIInv, StoresInv
  <2> QED  BY <2>1, Zenon DEF Query
<1>4. /\ r \in Call /\ r.op = loc[p].op /\ r.out = loc[p].out /\ r.todo = Query /\ r.char = loc[p].char
      /\ r.arg = loc[p].arg
  BY <1>2, <1>3, CallFields, ZenonT(60) DEF Call
<1>5. loc' = [loc EXCEPT ![p] = r]
  BY <1>1, <1>2
<1> HIDE DEF r
<1> QED  BY <1>1, <1>2, <1>3, <1>4, <1>5, Ops, OpsAtStep DEF Moves, Steps, CallAt, r

\* A tick goes on to an entity of its list, or ends.
LEMMA NextEntityForm ==
    ASSUME EconomyIInv, NEW p \in Proc, NextEntity(p)
    PROVE  \/ Moves(p, "idle", NoCall) /\ CallAt("idle", NoCall)
           \/ \E e \in Mirrored, T \in SUBSET EntityId :
                LET r == [loc[p] EXCEPT !.eid = e, !.todo = T] IN
                Moves(p, "now", r) /\ CallAt("now", r)
<1>1. TypeOK /\ pc[p] = "next" /\ loc[p] \in Call /\ loc \in [Proc -> Call] /\ CallAt(pc[p], loc[p])
  BY DEF NextEntity, At, EconomyIInv, TypeOK, CallInv
<1>2. CASE loc[p].todo = {}
  BY <1>1, <1>2, FinishMoves DEF NextEntity
<1>3. CASE loc[p].todo # {}
  <2> DEFINE e == First(loc[p].todo)
             T == loc[p].todo \ {e}
             r == [loc[p] EXCEPT !.eid = e, !.todo = T]
  <2>1. /\ pc' = [pc EXCEPT ![p] = "now"] /\ loc' = [loc EXCEPT ![p].eid = e, ![p].todo = T]
    BY <1>3 DEF NextEntity, Goto
  <2>2. loc[p].todo \subseteq Mirrored
    BY <1>1 DEF CallAt
  <2>3. e \in Mirrored /\ e \in 0 .. MaxEntities /\ T \in SUBSET EntityId /\ T \subseteq Mirrored
    BY <1>1, <1>3, <2>2, FirstOf, MirroredIds
  <2> HIDE DEF e, T
  <2>4. /\ r \in Call /\ r.op = loc[p].op /\ r.out = loc[p].out /\ r.todo = T /\ r.eid = e
        /\ r.char = loc[p].char /\ r.arg = loc[p].arg
    BY <1>1, <2>3, CallFields2, ZenonT(60) DEF Call
  <2>5. loc' = [loc EXCEPT ![p] = r]
    BY <1>1, <2>1
  <2> HIDE DEF r
  <2>6. Moves(p, "now", r) /\ CallAt("now", r)
    BY <1>1, <2>1, <2>3, <2>4, <2>5, Ops, OpsAtStep, ZenonT(60) DEF Moves, Steps, CallAt
  <2> QED  BY <2>3, <2>6 DEF r
<1> QED  BY <1>2, <1>3

\* The arithmetic of the idle engine yields naturals.
LEMMA Quotient == ASSUME NEW x \in Nat, NEW d \in Nat \ {0} PROVE x \div d \in Nat
  OBVIOUS

\* What an activity or a building yields is a number.
LEMMA OutputTypes ==
    ASSUME NEW strength \in Nat, NEW level \in Nat, NEW window \in Nat
    PROVE  /\ TrainingGold(strength, level, window) \in Nat
           /\ TrainingExp(level, window) \in Nat
           /\ GatheringOre(level, window) \in Nat
           /\ \A b \in Building : BuildingOutput(b, level, window) \in Nat
<1>1. UnitsPerMinute \in Nat \ {0} /\ 10 * UnitsPerMinute \in Nat \ {0}
  BY ContentIsNatural
<1>2. TrainingGold(strength, level, window) \in Nat
  <2> DEFINE x == (strength + 10 * level) * window
  <2>1. x \in Nat
    OBVIOUS
  <2> HIDE DEF x
  <2> QED  BY <1>1, <2>1, Quotient DEF TrainingGold, x
<1>3. TrainingExp(level, window) \in Nat
  <2> DEFINE x == 2 * level * window
  <2>1. x \in Nat
    OBVIOUS
  <2> HIDE DEF x
  <2> QED  BY <1>1, <2>1, Quotient DEF TrainingExp, x
<1>4. GatheringOre(level, window) \in Nat
  <2> DEFINE x == (10 + level) * window
  <2>1. x \in Nat
    OBVIOUS
  <2> HIDE DEF x
  <2> QED  BY <1>1, <2>1, Quotient DEF GatheringOre, x
<1>5. ASSUME NEW b \in Building PROVE BuildingOutput(b, level, window) \in Nat
  <2> DEFINE x == level * RatePerLevel[b] * window
  <2>1. RatePerLevel[b] \in Nat
    BY ContentIsNatural
  <2>2. x \in Nat
    BY <2>1
  <2> HIDE DEF x
  <2> QED  BY <1>1, <2>2, Quotient DEF BuildingOutput, x
<1> QED  BY <1>2, <1>3, <1>4, <1>5

\* The window that is paid is no longer than what has elapsed.
LEMMA WindowType ==
    ASSUME NEW elapsed \in Int
    PROVE  Window(elapsed) \in Nat /\ (Window(elapsed) # 0 => Window(elapsed) <= elapsed)
  BY WindowsAreOrdered DEF Window

\* A producer's output is well typed and belongs to a character.
LEMMA ProduceType ==
    ASSUME TypeOK, NEW e \in Mirrored, NEW a \in Activity, NEW window \in Nat
    PROVE  Produce(e, a, window) \in Output /\ charOf(e) \in Character
<1> DEFINE c == entities[e]
<1>1. c \in Character /\ e \in EntityId
  <2>1. e \in EntityId
    BY MirroredIds
  <2>2. c \in Character
    BY DEF TypeOK, StoreTypeOK, Mirrored
  <2> QED  BY <2>1, <2>2
<1>2. rows[c].level \in Nat /\ derived[c].base + derived[c].worn \in Nat
  <2>1. rows[c] \in Row /\ derived[c] \in [base : Nat, worn : Nat]
    BY <1>1 DEF TypeOK, CharacterTypeOK
  <2> QED  BY <2>1 DEF Row
<1>3. \A b \in Building : levels[e][b] \in Nat
  BY <1>1 DEF TypeOK, StoreTypeOK
<1> DEFINE g == IF a = "training" THEN TrainingGold(power(c), rows[c].level, window) ELSE 0
           x == IF a = "training" THEN TrainingExp(rows[c].level, window) ELSE 0
           f == [r \in Resource |->
                   IF a = "gathering" /\ r = Ore THEN GatheringOre(rows[c].level, window)
                   ELSE IF a \in Building /\ r = Product[a] /\ Unlocked(levels[e][a])
                   THEN BuildingOutput(a, levels[e][a], window)
                   ELSE 0]
<1>4. g \in Nat /\ x \in Nat
  BY <1>2, OutputTypes DEF power
<1>5. f \in [Resource -> Nat]
  BY <1>2, <1>3, OutputTypes
<1>6. Produce(e, a, window) = [gold |-> g, exp |-> x, res |-> f]
  BY DEF Produce, charOf
<1> HIDE DEF g, x, f
<1> QED  BY <1>1, <1>4, <1>5, <1>6 DEF Output, charOf

\* A tick reads the time.
LEMMA NowForm ==
    ASSUME EconomyIInv, NEW p \in Proc, Now(p)
    PROVE  LET r == [loc[p] EXCEPT !.now = clock, !.window = 0] IN
           Moves(p, "last", r) /\ CallAt("last", r)
<1> DEFINE r == [loc[p] EXCEPT !.now = clock, !.window = 0]
<1>1. /\ pc[p] = "now" /\ pc' = [pc EXCEPT ![p] = "last"]
      /\ loc' = [loc EXCEPT ![p].now = clock, ![p].window = 0]
  BY DEF Now, At, Goto
<1>2. /\ loc[p] \in Call /\ loc \in [Proc -> Call] /\ CallAt(pc[p], loc[p]) /\ clock \in Nat
  BY DEF EconomyIInv, TypeOK, CallInv
<1>3. /\ r \in Call /\ r.op = loc[p].op /\ r.out = loc[p].out /\ r.todo = loc[p].todo /\ r.eid = loc[p].eid
      /\ r.char = loc[p].char /\ r.arg = loc[p].arg
  BY <1>2, CallFields, ZenonT(60) DEF Call
<1>4. loc' = [loc EXCEPT ![p] = r]
  BY <1>1, <1>2
<1> HIDE DEF r
<1>5. Moves(p, "last", r) /\ CallAt("last", r)
  BY <1>1, <1>2, <1>3, <1>4, Ops, OpsAtStep DEF Moves, Steps, CallAt
<1> QED  BY <1>5 DEF r

\* The window a tick takes ends at the time it has read and starts at the last run or
\* later; if that is a later time, it is empty.
LEMMA LastRunForm ==
    ASSUME EconomyIInv, NEW p \in Proc, LastRun(p)
    PROVE  \E w \in Nat :
             LET r == [loc[p] EXCEPT !.window = w]
                 s == IF w = 0 THEN "record" ELSE "accrue" IN
             /\ Moves(p, s, r) /\ CallAt(s, r)
             /\ w # 0 /\ lastRun[loc[p].eid] # None => lastRun[loc[p].eid] <= loc[p].now - w
<1> DEFINE e == loc[p].eid
           elapsed == IF lastRun[e] = None THEN Interval ELSE loc[p].now - lastRun[e]
           w == Window(elapsed)
           r == [loc[p] EXCEPT !.window = w]
           s == IF w = 0 THEN "record" ELSE "accrue"
<1>1. /\ pc[p] = "last" /\ pc' = [pc EXCEPT ![p] = s]
      /\ loc' = [loc EXCEPT ![p].window = w]
  BY DEF LastRun, At, Goto, LastRunGet
<1>2. /\ loc[p] \in Call /\ loc \in [Proc -> Call] /\ CallAt(pc[p], loc[p]) /\ loc[p].now \in Nat
  BY DEF EconomyIInv, TypeOK, CallInv, Call
<1>3. e \in EntityId
  BY <1>1, <1>2, MirroredIds DEF CallAt, EconomyIInv
<1>4. lastRun[e] \in Nat \cup {None}
  BY <1>3 DEF EconomyIInv, TypeOK, StoreTypeOK
<1>5. elapsed \in Int
  BY <1>2, <1>4, EconomyBounds
<1>6. w \in Nat /\ (w # 0 => w <= elapsed)
  BY <1>5, WindowType
<1>7. w # 0 /\ lastRun[e] # None => lastRun[e] <= loc[p].now - w
  BY <1>2, <1>4, <1>6
<1> HIDE DEF w
<1>8. /\ r \in Call /\ r.op = loc[p].op /\ r.out = loc[p].out /\ r.todo = loc[p].todo /\ r.eid = loc[p].eid
      /\ r.char = loc[p].char /\ r.arg = loc[p].arg
  BY <1>2, <1>6, CallFields, ZenonT(60) DEF Call
<1>9. loc' = [loc EXCEPT ![p] = r]
  BY <1>1, <1>2
<1> HIDE DEF r
<1>10. Moves(p, s, r) /\ CallAt(s, r)
  BY <1>1, <1>2, <1>8, <1>9, Ops, OpsAtStep DEF Moves, Steps, CallAt
<1> QED  BY <1>6, <1>7, <1>10 DEF r

\* Output leads to the payment of gold, of resources, or of nothing.
LEMMA AccrueForm ==
    ASSUME EconomyIInv, NEW p \in Proc, Accrue(p)
    PROVE  \E o \in Output, c \in Character, s \in {"lock", "earn", "record"} :
             LET r == [loc[p] EXCEPT !.out = o, !.char = c] IN
             Moves(p, s, r) /\ CallAt(s, r) /\ (s = "record" => o = NoCall.out)
<1> DEFINE e == loc[p].eid
           o == IF assigned[e] = None THEN NoCall.out ELSE Produce(e, assigned[e], loc[p].window)
           c == charOf(e)
           r == [loc[p] EXCEPT !.out = o, !.char = c]
           s == IF o.gold > 0 \/ o.exp > 0 THEN "lock"
                ELSE IF \E x \in Resource : o.res[x] > 0 THEN "earn" ELSE "record"
<1>1. /\ pc[p] = "accrue" /\ pc' = [pc EXCEPT ![p] = s]
      /\ loc' = [loc EXCEPT ![p].out = o, ![p].char = c]
  BY DEF Accrue, At, Goto
<1>2. /\ TypeOK /\ loc[p] \in Call /\ loc \in [Proc -> Call] /\ CallAt(pc[p], loc[p])
  BY DEF EconomyIInv, TypeOK, CallInv
<1>3. e \in Mirrored /\ loc[p].window \in Nat
  BY <1>1, <1>2 DEF CallAt, Call
<1>4. NoCall.out \in Output
  BY NoCallType DEF Call
<1>5. assigned[e] \in Activity \cup {None}
  BY <1>2, <1>3, MirroredIds DEF TypeOK, StoreTypeOK
<1>6. c \in Character
  BY <1>2, <1>3 DEF TypeOK, StoreTypeOK, Mirrored, charOf
<1>7. o \in Output
  BY <1>2, <1>3, <1>4, <1>5, ProduceType
<1> HIDE DEF o, c
<1>8. s = "record" => o = NoCall.out
  <2> SUFFICES ASSUME s = "record" PROVE o = NoCall.out
    OBVIOUS
  <2>1. o.gold = 0 /\ o.exp = 0 /\ o.res \in [Resource -> Nat] /\ \A x \in Resource : o.res[x] = 0
    BY <1>7 DEF Output
  <2>2. o.res = Empty
    BY <2>1 DEF Empty
  <2>3. o = [gold |-> o.gold, exp |-> o.exp, res |-> o.res]
    BY <1>7 DEF Output
  <2> QED  BY <2>1, <2>2, <2>3 DEF NoCall
<1>9. s # "record" => o # NoCall.out
  BY DEF NoCall, Empty
<1>10. s \in {"lock", "earn", "record"}
  OBVIOUS
<1>11. /\ r \in Call /\ r.op = loc[p].op /\ r.out = o /\ r.todo = loc[p].todo /\ r.eid = loc[p].eid
       /\ r.char = c /\ r.arg = loc[p].arg
  BY <1>2, <1>6, <1>7, CallFields, ZenonT(60) DEF Call
<1>12. loc' = [loc EXCEPT ![p] = r]
  BY <1>1, <1>2
<1> HIDE DEF r, s
<1>13. Moves(p, s, r)
  BY <1>1, <1>10, <1>11, <1>12 DEF Moves, Steps
<1>14. CallAt(s, r)
  BY <1>1, <1>2, <1>6, <1>8, <1>9, <1>10, <1>11, Ops, OpsAtStep DEF CallAt
<1> QED  BY <1>6, <1>7, <1>8, <1>10, <1>13, <1>14 DEF r

\* Earn: the wallet is read, then written.
LEMMA EarnReadForm ==
    ASSUME EconomyIInv, NEW p \in Proc, EarnRead(p)
    PROVE  LET r == [loc[p] EXCEPT !.seen = wallet[loc[p].eid]] IN
           Moves(p, "bank", r) /\ CallAt("bank", r) /\ loc[p].eid \in EntityId
<1> DEFINE f == wallet[loc[p].eid]
           r == [loc[p] EXCEPT !.seen = f]
<1>1. /\ pc[p] = "earn" /\ pc' = [pc EXCEPT ![p] = "bank"]
      /\ loc' = [loc EXCEPT ![p].seen = f]
  BY DEF EarnRead, At, Goto, WalletGet
<1>2. /\ TypeOK /\ loc[p] \in Call /\ loc \in [Proc -> Call] /\ CallAt(pc[p], loc[p])
  BY DEF EconomyIInv, TypeOK, CallInv
<1>3. loc[p].eid \in EntityId
  BY <1>1, <1>2, MirroredIds DEF CallAt
<1>4. f \in [Resource -> Nat]
  BY <1>2, <1>3 DEF TypeOK, StoreTypeOK
<1> HIDE DEF f
<1>5. /\ r \in Call /\ r.op = loc[p].op /\ r.out = loc[p].out /\ r.todo = loc[p].todo /\ r.eid = loc[p].eid
      /\ r.char = loc[p].char /\ r.arg = loc[p].arg
  BY <1>2, <1>4, CallFields, ZenonT(60) DEF Call
<1>6. loc' = [loc EXCEPT ![p] = r]
  BY <1>1, <1>2
<1> HIDE DEF r
<1> QED  BY <1>1, <1>2, <1>3, <1>5, <1>6, Ops, OpsAtStep DEF Moves, Steps, CallAt, r, f

\* A debit starts from the wallet as it is stored.
LEMMA DebitReadForm ==
    ASSUME EconomyIInv, NEW p \in Proc, DebitRead(p)
    PROVE  LET r == [loc[p] EXCEPT !.seen = wallet[loc[p].eid]] IN
           Moves(p, "debited", r) /\ CallAt("debited", r) /\ loc[p].eid \in EntityId
<1> DEFINE f == wallet[loc[p].eid]
           r == [loc[p] EXCEPT !.seen = f]
<1>1. /\ pc[p] = "debit" /\ pc' = [pc EXCEPT ![p] = "debited"]
      /\ loc' = [loc EXCEPT ![p].seen = f]
  BY DEF DebitRead, At, Goto, WalletGet
<1>2. /\ TypeOK /\ loc[p] \in Call /\ loc \in [Proc -> Call] /\ CallAt(pc[p], loc[p])
  BY DEF EconomyIInv, TypeOK, CallInv
<1>3. loc[p].eid \in EntityId
  BY <1>1, <1>2, MirroredIds DEF CallAt
<1>4. f \in [Resource -> Nat]
  BY <1>2, <1>3 DEF TypeOK, StoreTypeOK
<1> HIDE DEF f
<1>5. /\ r \in Call /\ r.op = loc[p].op /\ r.out = loc[p].out /\ r.todo = loc[p].todo /\ r.eid = loc[p].eid
      /\ r.char = loc[p].char /\ r.arg = loc[p].arg
  BY <1>2, <1>4, CallFields, ZenonT(60) DEF Call
<1>6. loc' = [loc EXCEPT ![p] = r]
  BY <1>1, <1>2
<1> HIDE DEF r
<1> QED  BY <1>1, <1>2, <1>3, <1>5, <1>6, Ops, OpsAtStep DEF Moves, Steps, CallAt, r, f

\* Steps that keep the arguments of the call.
LEMMA EarnForm ==
    ASSUME EconomyIInv, NEW p \in Proc, Earn(p)
    PROVE  Moves(p, "record", loc[p]) /\ CallAt("record", loc[p]) /\ loc[p].eid \in EntityId
<1>1. pc[p] = "bank" /\ Goto(p, "record") /\ UNCHANGED loc
  BY DEF Earn, At
<1>2. TypeOK /\ CallAt(pc[p], loc[p])
  BY DEF EconomyIInv, CallInv
<1>3. Moves(p, "record", loc[p])
  BY <1>1, <1>2, SameCall DEF Steps
<1> QED  BY <1>1, <1>2, <1>3, MirroredIds, Ops, OpsAtStep DEF CallAt

\* A payment begins when the row lock is free.
LEMMA LockRowForm ==
    ASSUME EconomyIInv, NEW p \in Proc, LockRow(p)
    PROVE  Moves(p, "pay", loc[p]) /\ CallAt("pay", loc[p]) /\ loc[p].char \in Character
<1>1. pc[p] = "lock" /\ Goto(p, "pay") /\ UNCHANGED loc
  BY DEF LockRow, At
<1>2. TypeOK /\ CallAt(pc[p], loc[p])
  BY DEF EconomyIInv, CallInv
<1>3. Moves(p, "pay", loc[p])
  BY <1>1, <1>2, SameCall DEF Steps
<1> QED  BY <1>1, <1>2, <1>3, Ops, OpsAtStep DEF CallAt

\* A tick's reward is followed by a recalculation or by the record.
LEMMA AddRewardsForm ==
    ASSUME EconomyIInv, NEW p \in Proc, AddRewards(p)
    PROVE  \E s \in {"stats", "record"} :
             /\ Moves(p, s, loc[p]) /\ CallAt(s, loc[p])
             /\ loc[p].eid \in EntityId /\ loc[p].char \in Character
             /\ loc[p].out # NoCall.out
<1> DEFINE s == IF leveledUp(p, loc[p].out.exp) THEN "stats" ELSE "record"
<1>1. pc[p] = "pay" /\ loc[p].op \in {"tick", "catchup"} /\ Goto(p, s) /\ UNCHANGED loc
  BY DEF AddRewards, At
<1>2. TypeOK /\ CallAt(pc[p], loc[p])
  BY DEF EconomyIInv, CallInv
<1>3. s \in {"stats", "record"}
  OBVIOUS
<1> HIDE DEF s
<1>4. Moves(p, s, loc[p])
  BY <1>1, <1>2, <1>3, SameCall DEF Steps
<1>5. CallAt(s, loc[p]) /\ loc[p].eid \in EntityId /\ loc[p].char \in Character /\ loc[p].out # NoCall.out
  BY <1>1, <1>2, <1>3, MirroredIds, Ops, OpsAtStep DEF CallAt
<1> QED  BY <1>3, <1>4, <1>5

\* A recalculation is followed by the record.
LEMMA RecalculateForm ==
    ASSUME EconomyIInv, NEW p \in Proc, RecalculateStats(p)
    PROVE  Moves(p, "record", loc[p]) /\ CallAt("record", loc[p]) /\ loc[p].char \in Character
<1>1. pc[p] = "stats" /\ Goto(p, "record") /\ UNCHANGED loc
  BY DEF RecalculateStats, At
<1>2. TypeOK /\ CallAt(pc[p], loc[p])
  BY DEF EconomyIInv, CallInv
<1>3. Moves(p, "record", loc[p])
  BY <1>1, <1>2, SameCall DEF Steps
<1> QED  BY <1>1, <1>2, <1>3, Ops, OpsAtStep DEF CallAt

\* A craft that has paid for a resource goes on to the next, or to its item.
LEMMA CreditForm ==
    ASSUME EconomyIInv, NEW p \in Proc, Credit(p)
    PROVE  /\ loc[p].eid \in EntityId /\ loc[p].arg \in Recipe /\ pc[p] = "debited" /\ loc[p].op = "debit"
           /\ \E x \in Resource, s \in {"item", "mirror"} :
                LET r == [loc[p] EXCEPT !.due = loc[p].due \ {x}] IN
                /\ Moves(p, s, r) /\ CallAt(s, r)
                /\ wallet' = [wallet EXCEPT ![loc[p].eid] =
                                [loc[p].seen EXCEPT ![x] = IF @ < Cost[loc[p].arg][x] THEN 0 ELSE @ - Cost[loc[p].arg][x]]]
<1>1. TypeOK /\ CallAt(pc[p], loc[p]) /\ pc[p] = "debited" /\ loc[p] \in Call /\ loc \in [Proc -> Call]
  BY DEF Credit, At, EconomyIInv, CallInv, TypeOK
<1>2. loc[p].eid \in EntityId /\ loc[p].arg \in Recipe /\ loc[p].op = "debit" /\ loc[p].due \subseteq Resource
  BY <1>1, MirroredIds, Ops, OpsAtStep DEF CallAt, Call
<1>3. PICK x \in loc[p].due :
        /\ wallet' = [wallet EXCEPT ![loc[p].eid] =
                        [loc[p].seen EXCEPT ![x] = IF @ < Cost[loc[p].arg][x] THEN 0 ELSE @ - Cost[loc[p].arg][x]]]
        /\ loc' = [loc EXCEPT ![p].due = @ \ {x}]
        /\ Goto(p, DebitNext(loc[p].due \ {x}))
  BY DEF Credit, WalletSet
<1> DEFINE due == loc[p].due \ {x}
           r == [loc[p] EXCEPT !.due = due]
           s == DebitNext(due)
<1>4. loc' = [loc EXCEPT ![p] = r] /\ pc' = [pc EXCEPT ![p] = s] /\ s \in {"item", "mirror"}
  BY <1>1, <1>3 DEF Goto, DebitNext
<1>5. due \in SUBSET Resource
  BY <1>2
<1> HIDE DEF due, s
<1>6. /\ r \in Call /\ r.op = loc[p].op /\ r.out = loc[p].out /\ r.todo = loc[p].todo /\ r.eid = loc[p].eid
      /\ r.char = loc[p].char /\ r.arg = loc[p].arg
  BY <1>1, <1>5, CallFields, ZenonT(60) DEF Call
<1> HIDE DEF r
<1>7. Moves(p, s, r)
  BY <1>4, <1>6 DEF Moves, Steps
<1>8. CallAt(s, r)
  BY <1>1, <1>2, <1>4, <1>6, Ops, OpsAtStep DEF CallAt
<1>9. x \in Resource /\ s \in {"item", "mirror"}
  BY <1>2, <1>4
<1> QED  BY <1>1, <1>2, <1>3, <1>7, <1>8, <1>9 DEF r, due

\* What is due of a craft is paid resource by resource, if anything is.
LEMMA DebitForm ==
    ASSUME EconomyIInv, NEW p \in Proc, Debit(p), loc[p].op = "balance", pc[p] \in {"balance", "pay"}
    PROVE  \E s \in {"item", "mirror"} :
             LET r == [loc[p] EXCEPT !.op = "debit", !.due = Taken(loc[p].arg)] IN
             Moves(p, s, r) /\ CallAt(s, r)
<1> DEFINE due == Taken(loc[p].arg)
           r == [loc[p] EXCEPT !.op = "debit", !.due = due]
           s == DebitNext(due)
<1>1. loc[p] \in Call /\ loc \in [Proc -> Call] /\ CallAt(pc[p], loc[p])
  BY DEF EconomyIInv, CallInv, TypeOK
<1>2. loc' = [loc EXCEPT ![p] = r] /\ pc' = [pc EXCEPT ![p] = s] /\ s \in {"item", "mirror"}
  BY <1>1 DEF Debit, Goto, DebitNext
<1>3. due \in SUBSET Resource
  BY DEF Taken
<1> HIDE DEF due, s
<1>4. /\ r \in Call /\ r.op = "debit" /\ r.out = loc[p].out /\ r.todo = loc[p].todo /\ r.eid = loc[p].eid
      /\ r.char = loc[p].char /\ r.arg = loc[p].arg
  BY <1>1, <1>3, CallFields2, Ops, ZenonT(60) DEF Call
<1> HIDE DEF r
<1>5. Moves(p, s, r)
  BY <1>2, <1>4 DEF Moves, Steps
<1>6. CallAt(s, r)
  BY <1>1, <1>2, <1>4, Ops, OpsAtStep DEF CallAt
<1> QED  BY <1>2, <1>5, <1>6 DEF r, due

\* Record: the ticker keeps the rest of its list.
LEMMA RecordForm ==
    ASSUME EconomyIInv, NEW p \in Proc, Record(p)
    PROVE  /\ loc[p].eid \in EntityId
           /\ \/ Moves(p, "idle", NoCall) /\ CallAt("idle", NoCall)
              \/ LET r == [NoCall EXCEPT !.op = "tick", !.todo = loc[p].todo] IN
                 Moves(p, "next", r) /\ CallAt("next", r) /\ r.now = 0
<1>1. TypeOK /\ loc[p] \in Call /\ CallAt(pc[p], loc[p]) /\ pc[p] = "record" /\ Recorded(p)
  BY DEF Record, At, EconomyIInv, CallInv, TypeOK
<1>2. loc[p].eid \in EntityId /\ loc[p].todo \in SUBSET EntityId /\ loc[p].todo \subseteq Mirrored
  BY <1>1, MirroredIds DEF CallAt, Call
<1>3. CASE p # Ticker
  BY <1>1, <1>2, <1>3, FinishMoves DEF Recorded
<1>4. CASE p = Ticker
  <2> DEFINE T == loc[p].todo
             r == [NoCall EXCEPT !.op = "tick", !.todo = T]
  <2>1. pc' = [pc EXCEPT ![p] = "next"] /\ loc' = [loc EXCEPT ![p] = r]
    BY <1>1, <1>4 DEF Recorded, Goto
  <2> HIDE DEF T
  <2>2. [NoCall EXCEPT !.op = "tick"] \in Call
    BY NoCallType, CallFields
  <2>3. r = [[NoCall EXCEPT !.op = "tick"] EXCEPT !.todo = T]
    OBVIOUS
  <2>4. r \in Call
    BY <1>2, <2>2, <2>3, CallFields DEF T
  <2>5. r.op = "tick" /\ r.todo = T /\ r.out = NoCall.out /\ r.now = 0
    BY DEF NoCall
  <2> HIDE DEF r
  <2>6. Moves(p, "next", r) /\ CallAt("next", r)
    BY <1>2, <2>1, <2>4, <2>5, Ops, OpsAtStep DEF Moves, Steps, CallAt, T
  <2> QED  BY <1>2, <2>5, <2>6 DEF r, T
<1> QED  BY <1>3, <1>4

\* SpendGold pays, and a craft goes on to the debit, or refuses.
LEMMA SpendForm ==
    ASSUME EconomyIInv, NEW p \in Proc, SpendGold(p)
    PROVE  /\ loc[p].char \in Character /\ pc[p] = "pay" /\ loc[p].op \in {"balance", "upgrade"}
           /\ \/ /\ WriteSpend(p, loc[p].char, Price(p)) /\ loc[p].op = "upgrade"
                 /\ Moves(p, "raise", loc[p]) /\ CallAt("raise", loc[p])
              \/ /\ WriteSpend(p, loc[p].char, Price(p)) /\ loc[p].op = "balance"
                 /\ \E s \in {"item", "mirror"} :
                      LET r == [loc[p] EXCEPT !.op = "debit", !.due = Taken(loc[p].arg)] IN
                      Moves(p, s, r) /\ CallAt(s, r)
              \/ /\ RefuseSpend(p, loc[p].char, Price(p))
                 /\ Moves(p, "idle", NoCall) /\ CallAt("idle", NoCall)
<1>1. /\ TypeOK /\ CallAt(pc[p], loc[p]) /\ pc[p] = "pay" /\ loc[p].op \in {"balance", "upgrade"}
  BY DEF SpendGold, At, EconomyIInv, CallInv
<1>2. loc[p].char \in Character
  BY <1>1 DEF CallAt
<1>3. CASE RefuseSpend(p, loc[p].char, Price(p)) /\ Finish(p)
  BY <1>1, <1>2, <1>3, FinishMoves
<1>4. CASE WriteSpend(p, loc[p].char, Price(p)) /\ loc[p].op = "upgrade" /\ Goto(p, "raise") /\ UNCHANGED loc
  <2>1. Moves(p, "raise", loc[p])
    BY <1>1, <1>4, SameCall DEF Steps
  <2>2. CallAt("raise", loc[p])
    BY <1>1, <1>4, Ops, OpsAtStep DEF CallAt
  <2> QED  BY <1>1, <1>2, <1>4, <2>1, <2>2
<1>5. CASE WriteSpend(p, loc[p].char, Price(p)) /\ loc[p].op = "balance" /\ Debit(p)
  BY <1>1, <1>2, <1>5, DebitForm
<1> QED  BY <1>1, <1>3, <1>4, <1>5 DEF SpendGold

\* Craft checks the balances and pays its gold, if it costs any.
LEMMA BalancesForm ==
    ASSUME EconomyIInv, NEW p \in Proc, Balances(p)
    PROVE  /\ pc[p] = "balance" /\ loc[p].op = "balance"
           /\ \/ Moves(p, "idle", NoCall) /\ CallAt("idle", NoCall)
              \/ Moves(p, "lock", loc[p]) /\ CallAt("lock", loc[p])
              \/ /\ ~(GoldCost[loc[p].arg] > 0)
                 /\ \E s \in {"item", "mirror"} :
                      LET r == [loc[p] EXCEPT !.op = "debit", !.due = Taken(loc[p].arg)] IN
                      Moves(p, s, r) /\ CallAt(s, r)
<1>1. TypeOK /\ CallAt(pc[p], loc[p]) /\ pc[p] = "balance"
  BY DEF Balances, At, EconomyIInv, CallInv
<1>2. loc[p].op = "balance"
  BY <1>1, OpsAtStep DEF CallAt
<1>3. CASE Finish(p)
  BY <1>1, <1>2, <1>3, FinishMoves
<1>4. CASE Goto(p, "lock") /\ UNCHANGED loc
  <2>1. Moves(p, "lock", loc[p])
    BY <1>1, <1>4, SameCall DEF Steps
  <2>2. CallAt("lock", loc[p])
    BY <1>1, Ops, OpsAtStep DEF CallAt
  <2> QED  BY <1>1, <1>2, <2>1, <2>2
<1>5. CASE ~(GoldCost[loc[p].arg] > 0) /\ Debit(p)
  BY <1>1, <1>2, <1>5, DebitForm
<1> QED  BY <1>1, <1>3, <1>4, <1>5 DEF Balances

\* Upgrade reads the levels of the character's entity.
LEMMA ReadLevelsForm ==
    ASSUME EconomyIInv, NEW p \in Proc, ReadLevels(p)
    PROVE  \/ Moves(p, "idle", NoCall) /\ CallAt("idle", NoCall)
           \/ \E e \in Mirrored :
                LET r == [loc[p] EXCEPT !.eid = e, !.level = levels[e]] IN
                Moves(p, "lock", r) /\ CallAt("lock", r) /\ entities[e] = loc[p].char
<1> DEFINE mine == ListByOwner(loc[p].char)
<1>1. /\ TypeOK /\ loc[p] \in Call /\ loc \in [Proc -> Call] /\ CallAt(pc[p], loc[p]) /\ pc[p] = "levels"
  BY DEF ReadLevels, At, EconomyIInv, CallInv, TypeOK
<1>2. CASE mine = {}
  BY <1>1, <1>2, FinishMoves DEF ReadLevels
<1>3. CASE mine # {}
  <2> DEFINE e == First(mine)
             r == [loc[p] EXCEPT !.eid = e, !.level = levels[e]]
  <2>1. pc' = [pc EXCEPT ![p] = "lock"] /\ loc' = [loc EXCEPT ![p].eid = e, ![p].level = levels[e]]
    BY <1>3 DEF ReadLevels, Goto
  <2>2. e \in Mirrored /\ e \in EntityId /\ e \in 0 .. MaxEntities /\ entities[e] = loc[p].char
    BY <1>1, <1>3, OwnedMirrored, MirroredIds
  <2>3. levels[e] \in [Building -> Nat]
    BY <1>1, <2>2 DEF TypeOK, StoreTypeOK
  <2> HIDE DEF e
  <2>4. /\ r \in Call /\ r.eid = e /\ r.op = loc[p].op /\ r.char = loc[p].char /\ r.arg = loc[p].arg
        /\ r.out = loc[p].out /\ r.todo = loc[p].todo
    BY <1>1, <2>2, <2>3, CallFields2, ZenonT(60) DEF Call
  <2>5. loc' = [loc EXCEPT ![p] = r]
    BY <1>1, <2>1
  <2> HIDE DEF r
  <2>6. Moves(p, "lock", r)
    BY <2>1, <2>4, <2>5 DEF Moves, Steps
  <2>7. CallAt("lock", r)
    BY <1>1, <2>2, <2>4, Ops, OpsAtStep DEF CallAt
  <2> QED  BY <2>2, <2>6, <2>7 DEF r
<1> QED  BY <1>2, <1>3

\* mirror creates an entity, the last one.
LEMMA MirrorForm ==
    ASSUME EconomyIInv, NEW p \in Proc, Mirror(p)
    PROVE  /\ entities' = Append(entities, loc[p].char) /\ Len(entities) < MaxEntities
           /\ loc[p].char \in Character /\ pc[p] = "create" /\ entkey' = NoProc
           /\ \E r \in Call, s \in {"now", "view", "assign", "balance", "debit"} :
                /\ r = [loc[p] EXCEPT !.eid = Len(entities) + 1]
                /\ Moves(p, s, r) /\ CallAt(s, r)'
<1> DEFINE n == Len(entities) + 1
           r == [loc[p] EXCEPT !.eid = n]
           s == After[loc[p].op]
<1>1. /\ TypeOK /\ loc[p] \in Call /\ loc \in [Proc -> Call] /\ CallAt(pc[p], loc[p]) /\ pc[p] = "create"
  BY DEF Mirror, At, EconomyIInv, CallInv, TypeOK
<1>2. loc[p].op \in DOMAIN After /\ loc[p].char \in Character
  BY <1>1, OpsAtStep DEF CallAt
<1>3. entities' = Append(entities, loc[p].char) /\ Len(entities) < MaxEntities /\ entkey' = NoProc
  BY DEF Mirror, Create
<1>4. entities \in Seq(Character)
  BY <1>1 DEF TypeOK, StoreTypeOK
<1>5. Len(entities') = n /\ n \in 0 .. MaxEntities /\ Len(entities) \in Nat
  BY <1>2, <1>3, <1>4, EconomyBounds
<1>6. pc' = [pc EXCEPT ![p] = s] /\ loc' = [loc EXCEPT ![p].eid = n]
  BY <1>5 DEF Mirror, Goto
<1>7. /\ r \in Call /\ r.eid = n /\ r.op = loc[p].op /\ r.char = loc[p].char /\ r.arg = loc[p].arg
      /\ r.out = loc[p].out /\ r.todo = loc[p].todo
  <2> HIDE DEF n
  <2> QED  BY <1>1, <1>5, CallFields, ZenonT(60) DEF Call
<1>8. loc' = [loc EXCEPT ![p] = r]
  <2> HIDE DEF n
  <2> QED  BY <1>1, <1>6
<1>9. Mirrored' = 1 .. n /\ Mirrored \subseteq 1 .. n
  BY <1>5 DEF Mirrored
<1> HIDE DEF r
<1>10. s \in {"now", "view", "assign", "balance", "debit"}
  BY <1>2, Ops
<1>11. Moves(p, s, r)
  <2> HIDE DEF n
  <2> QED  BY <1>6, <1>7, <1>8, <1>10 DEF Moves, Steps
<1>12. PICK q : q = r
  OBVIOUS
<1>13. PICK t : t = s
  OBVIOUS
<1>14. CallAt(t, q)'
  <2>1. q.eid \in 1 .. n
    BY <1>5, <1>7, <1>12
  <2>2. q.todo \subseteq Mirrored'
    BY <1>1, <1>7, <1>9, <1>12 DEF CallAt
  <2>3. q.eid \in Mirrored'
    BY <1>9, <2>1
  <2> HIDE DEF n
  <2> QED  BY <1>1, <1>2, <1>7, <1>12, <1>13, <2>2, <2>3, Ops, OpsAtStep DEF CallAt
<1>15. q = [loc[p] EXCEPT !.eid = Len(entities) + 1]
  BY <1>12 DEF r
<1> QED  BY <1>1, <1>2, <1>3, <1>7, <1>10, <1>11, <1>12, <1>13, <1>14, <1>15

\* The types that writing wallets and times relies on.
LEMMA WalletTypes ==
    ASSUME EconomyIInv
    PROVE  /\ wallet \in [EntityId -> [Resource -> Nat]] /\ lastRun \in [EntityId -> Nat \cup {None}]
           /\ earned \in [EntityId -> [Resource -> Nat]] /\ credited \in [EntityId -> [1 .. MaxTime -> Nat]]
           /\ excess \in [EntityId -> Nat] /\ CharacterTypeOK /\ entkey \in Proc \cup {NoProc}
  BY DEF EconomyIInv, TypeOK, StoreTypeOK

-----------------------------------------------------------------------------
\* What a step of one goroutine leaves alone.

\* The calls of the others stand, and so does this one.
LEMMA CallsKept ==
    ASSUME EconomyIInv, NEW p \in Proc, NEW s, NEW r, Moves(p, s, r), CallAt(s, r), entities' = entities
    PROVE  CallInv'
<1>1. /\ pc'[p] = s /\ loc'[p] = r
      /\ \A q \in Proc \ {p} : pc'[q] = pc[q] /\ loc'[q] = loc[q]
  BY MovesOne DEF EconomyIInv
<1>2. SUFFICES ASSUME NEW q \in Proc PROVE CallAt(pc[q], loc[q])'
  BY DEF CallInv
<1>3. CallAt(pc'[q], loc'[q])
  <2>1. CASE q = p
    BY <1>1, <2>1
  <2>2. CASE q # p
    BY <1>1, <2>2 DEF EconomyIInv, CallInv
  <2> QED  BY <2>1, <2>2
<1>4. Mirrored' = Mirrored
  BY DEF Mirrored
<1> QED  BY <1>3, <1>4 DEF CallAt

\* ... also when an entity is added.
LEMMA CallsGrow ==
    ASSUME EconomyIInv, NEW p \in Proc, NEW s, NEW r, Moves(p, s, r), CallAt(s, r)',
           NEW c \in Character, entities' = Append(entities, c)
    PROVE  CallInv'
<1>1. /\ pc'[p] = s /\ loc'[p] = r
      /\ \A q \in Proc \ {p} : pc'[q] = pc[q] /\ loc'[q] = loc[q]
  BY MovesOne DEF EconomyIInv
<1>2. SUFFICES ASSUME NEW q \in Proc PROVE CallAt(pc[q], loc[q])'
  BY DEF CallInv
<1>3. CASE q = p
  BY <1>1, <1>3
<1>4. CASE q # p
  <2>1. CallAt(pc'[q], loc'[q])
    BY <1>1, <1>4 DEF EconomyIInv, CallInv
  <2>2. entities \in Seq(Character)
    BY DEF EconomyIInv, TypeOK, StoreTypeOK
  <2>3. Mirrored \subseteq Mirrored' /\ \A e \in Mirrored : entities'[e] = entities[e]
    BY <2>2 DEF Mirrored
  <2>4. (loc'[q].op = "upgrade" /\ pc'[q] # "levels") => loc'[q].eid \in Mirrored
    BY <2>1, Ops, OpsAtStep DEF CallAt
  <2> QED  BY <2>1, <2>3, <2>4 DEF CallAt
<1> QED  BY <1>3, <1>4

\* Entities that come to be keep what is stored of the others.
LEMMA StoresKept ==
    ASSUME EconomyIInv, Mirrored \subseteq Mirrored',
           \A e \in EntityId \ Mirrored : assigned'[e] = assigned[e] /\ levels'[e] = levels[e]
    PROVE  StoresInv'
<1>1. SUFFICES ASSUME NEW e \in EntityId, e \notin Mirrored'
               PROVE  assigned'[e] = None /\ \A b \in Building : levels'[e][b] = 0
  BY DEF StoresInv
<1> QED  BY <1>1 DEF EconomyIInv, StoresInv

\* Who does not hold the mutex takes it from nobody.
LEMMA MirrorKept ==
    ASSUME EconomyIInv, NEW p \in Proc, NEW s, NEW r, Moves(p, s, r), entities' = entities,
           \A q \in Proc \ {p} : entkey = q => entkey' = q,
           s = "create" => entkey' = p /\ \A e \in Mirrored : entities[e] # r.char
    PROVE  MirrorInv'
<1>1. /\ pc'[p] = s /\ loc'[p] = r
      /\ \A q \in Proc \ {p} : pc'[q] = pc[q] /\ loc'[q] = loc[q]
  BY MovesOne DEF EconomyIInv
<1>2. Mirrored' = Mirrored
  BY DEF Mirrored
<1>3. ASSUME NEW q \in Proc, pc'[q] = "create"
      PROVE  entkey' = q /\ \A e \in Mirrored' : entities'[e] # loc'[q].char
  <2>1. CASE q = p
    BY <1>1, <1>2, <1>3, <2>1
  <2>2. CASE q # p
    BY <1>1, <1>2, <1>3, <2>2 DEF EconomyIInv, MirrorInv
  <2> QED  BY <2>1, <2>2
<1>4. \A e, f \in Mirrored' : entities'[e] = entities'[f] => e = f
  BY <1>2 DEF EconomyIInv, MirrorInv
<1> QED  BY <1>3, <1>4 DEF MirrorInv

\* Wallets that are not written stay backed.
LEMMA WalletKept ==
    ASSUME EconomyIInv, NEW p \in Proc, NEW s, NEW r, Moves(p, s, r), wallet' = wallet, earned' = earned,
           s \in {"bank", "debited"} => \A x \in Resource : r.seen[x] <= earned[r.eid][x]
    PROVE  WalletInv'
<1>1. /\ pc'[p] = s /\ loc'[p] = r
      /\ \A q \in Proc \ {p} : pc'[q] = pc[q] /\ loc'[q] = loc[q]
  BY MovesOne DEF EconomyIInv
<1>2. WalletBacked'
  BY DEF EconomyIInv, WalletInv, WalletBacked
<1>3. ASSUME NEW q \in Proc, pc'[q] \in {"bank", "debited"}, NEW x \in Resource
      PROVE  loc'[q].seen[x] <= earned'[loc'[q].eid][x]
  <2>1. CASE q = p
    BY <1>1, <1>3, <2>1
  <2>2. CASE q # p
    BY <1>1, <1>3, <2>2 DEF EconomyIInv, WalletInv
  <2> QED  BY <2>1, <2>2
<1> QED  BY <1>2, <1>3 DEF WalletInv

\* Transactions of others keep their locks and what they have read.
LEMMA PayKept ==
    ASSUME EconomyIInv, NEW p \in Proc, NEW s, NEW r, Moves(p, s, r), s # "pay",
           rows' = rows, ledger' = ledger,
           \A q \in Proc \ {p} : read'[q] = read[q] /\ \A c \in Character : rowLock[c] = q => rowLock'[c] = q
    PROVE  PayInv'
<1>1. /\ pc'[p] = s /\ loc'[p] = r
      /\ \A q \in Proc \ {p} : pc'[q] = pc[q] /\ loc'[q] = loc[q]
  BY MovesOne DEF EconomyIInv
<1>2. RewardsAccounted'
  BY DEF EconomyIInv, PayInv, RewardsAccounted
<1>3. ASSUME NEW q \in Proc, pc'[q] = "pay"
      PROVE  rowLock'[loc'[q].char] = q /\ read'[q] = rows'[loc'[q].char]
  <2>1. q # p /\ pc[q] = "pay" /\ loc'[q] = loc[q]
    BY <1>1, <1>3
  <2>2. loc[q].char \in Character
    BY <2>1 DEF EconomyIInv, CallInv, CallAt
  <2>3. rowLock[loc[q].char] = q /\ read[q] = rows[loc[q].char]
    BY <2>1 DEF EconomyIInv, PayInv
  <2> QED  BY <2>1, <2>2, <2>3
<1> QED  BY <1>2, <1>3 DEF PayInv

-----------------------------------------------------------------------------
\* Time: what is paid for one moment of one entity.

\* A goroutine at step s with r is in the middle of a tick of e.
TicksAt(s, r, e) ==
    /\ r.eid = e /\ r.op \in {"tick", "catchup"}
    /\ s \in {"last", "accrue", "lock", "pay", "stats", "earn", "bank", "record"}

\* ... whose output is not applied yet, and whose time is t or later.
MayPay(s, r, t) == ~(s \in {"stats", "record"} /\ r.out # NoCall.out) /\ t <= r.now

Paying(e, t) == Cardinality(Claims(e, t))

TimeOf(e, t) == credited[e][t] + Paying(e, t) + Spare(e, t) <= 1 + excess[e]

\* The three parts of the accounting of time.
LEMMA TimeParts ==
    TimeInv <=> /\ \A p \in Proc : loc[p].now <= clock
                /\ \A e \in EntityId : lastRun[e] # None => lastRun[e] <= clock
                /\ \A e \in EntityId, t \in 1 .. MaxTime : TimeOf(e, t)
  BY DEF TimeInv, TimeOf, Paying

\* And after a step.
LEMMA TimePartsThen ==
    ASSUME \A p \in Proc : loc'[p].now <= clock',
           \A e \in EntityId : lastRun'[e] # None => lastRun'[e] <= clock',
           \A e \in EntityId, t \in 1 .. MaxTime : TimeOf(e, t)'
    PROVE  TimeInv'
  BY DEF TimeInv, TimeOf, Paying

\* Who ticks an entity, told from its step and its call.
LEMMA TickingNow == \A e : \A q : q \in Ticking(e) <=> q \in Proc /\ TicksAt(pc[q], loc[q], e)
  BY DEF Ticking, TicksAt

\* And after a step.
LEMMA TickingThen ==
    \A e : \A q : q \in Ticking(e)' <=> q \in Proc /\ TicksAt(pc'[q], loc'[q], e)
  BY DEF Ticking, TicksAt

\* Whether a tick under way has read an earlier time.
LEMMA LateNow == \A e, t : Late(e, t) <=> \E q \in Proc : TicksAt(pc[q], loc[q], e) /\ loc[q].now < t
  BY TickingNow DEF Late

\* And after a step.
LEMMA LateThen == \A e, t : Late(e, t)' <=> \E q \in Proc : TicksAt(pc'[q], loc'[q], e) /\ loc'[q].now < t
  BY TickingThen DEF Late

\* Which ticks under way may pay for a moment.
LEMMA ClaimsNow ==
    \A e, t, q : q \in Claims(e, t) <=>
        /\ q \in Proc /\ TicksAt(pc[q], loc[q], e) /\ MayPay(pc[q], loc[q], t)
        /\ t > loc[q].now - loc[q].window \/ Since(e, t) \/ Late(e, t)
  BY TickingNow DEF Claims, Applied, MayPay

\* And after a step.
LEMMA ClaimsThen ==
    \A e, t, q : q \in Claims(e, t)' <=>
        /\ q \in Proc /\ TicksAt(pc'[q], loc'[q], e) /\ MayPay(pc'[q], loc'[q], t)
        /\ t > loc'[q].now - loc'[q].window \/ Since(e, t)' \/ Late(e, t)'
  BY TickingThen DEF Claims, Applied, MayPay

\* There are finitely many.
LEMMA ClaimsFinite == \A e, t : IsFiniteSet(Claims(e, t)) /\ IsFiniteSet(Claims(e, t)')
<1>1. \A e, t : Claims(e, t) \subseteq Proc /\ Claims(e, t)' \subseteq Proc
  BY ClaimsNow, ClaimsThen
<1> QED  BY <1>1, ContentIsFinite, FS_Subset

\* They are numbers before a step and after it.
LEMMA PayingType == \A e, t : Paying(e, t) \in Nat /\ Paying(e, t)' \in Nat
  BY ClaimsFinite, FS_CardinalityType DEF Paying

\* No new claim.
LEMMA PayingKept ==
    ASSUME NEW e, NEW t, Claims(e, t)' \subseteq Claims(e, t)
    PROVE  Paying(e, t)' <= Paying(e, t)
  BY ClaimsFinite, FS_Subset DEF Paying

\* One new claim.
LEMMA PayingMore ==
    ASSUME NEW e, NEW t, NEW p, Claims(e, t)' \subseteq Claims(e, t) \cup {p}
    PROVE  Paying(e, t)' <= Paying(e, t) + 1
<1>1. PICK C, D : C = Claims(e, t) /\ D = Claims(e, t)'
  OBVIOUS
<1>2. IsFiniteSet(C) /\ IsFiniteSet(D) /\ D \subseteq C \cup {p}
  BY <1>1, ClaimsFinite
<1>3. IsFiniteSet(C \cup {p}) /\ Cardinality(C \cup {p}) \in {Cardinality(C), Cardinality(C) + 1}
  BY <1>2, FS_AddElement
<1>4. Cardinality(D) <= Cardinality(C \cup {p}) /\ Cardinality(C) \in Nat /\ Cardinality(D) \in Nat
  BY <1>2, <1>3, FS_Subset, FS_CardinalityType
<1>5. Cardinality(D) <= Cardinality(C) + 1
  BY <1>3, <1>4
<1> QED  BY <1>1, <1>5 DEF Paying

\* One claim fewer.
LEMMA PayingLess ==
    ASSUME NEW e, NEW t, NEW p \in Claims(e, t), Claims(e, t)' \subseteq Claims(e, t) \ {p}
    PROVE  Paying(e, t)' + 1 <= Paying(e, t)
<1>1. PICK C, D : C = Claims(e, t) /\ D = Claims(e, t)'
  OBVIOUS
<1>2. IsFiniteSet(C) /\ IsFiniteSet(D) /\ D \subseteq C \ {p} /\ p \in C
  BY <1>1, ClaimsFinite
<1>3. IsFiniteSet(C \ {p}) /\ Cardinality(C \ {p}) = Cardinality(C) - 1
  BY <1>2, FS_RemoveElement
<1>4. Cardinality(D) <= Cardinality(C \ {p}) /\ Cardinality(C) \in Nat /\ Cardinality(D) \in Nat
  BY <1>2, <1>3, FS_Subset, FS_CardinalityType
<1>5. Cardinality(D) + 1 <= Cardinality(C)
  BY <1>3, <1>4
<1> QED  BY <1>1, <1>5 DEF Paying

\* A tick to come pays at most once.
LEMMA SpareBit == \A e, t : Spare(e, t) \in {0, 1} /\ Spare(e, t)' \in {0, 1}
  BY DEF Spare

\* The numbers in the accounting of a moment.
LEMMA TimeNumbers ==
    ASSUME EconomyIInv, NEW e \in EntityId, NEW t \in 1 .. MaxTime
    PROVE  /\ TimeOf(e, t) /\ credited[e][t] \in Nat /\ excess[e] \in Nat /\ t \in Nat
           /\ Paying(e, t) \in Nat /\ Paying(e, t)' \in Nat
           /\ Spare(e, t) \in {0, 1} /\ Spare(e, t)' \in {0, 1}
<1>1. TimeOf(e, t)
  BY TimeParts DEF EconomyIInv
<1>2. credited[e][t] \in Nat /\ excess[e] \in Nat
  BY DEF EconomyIInv, TypeOK
<1> QED  BY <1>1, <1>2, PayingType, SpareBit, EconomyBounds

\* A moment that nothing more can be paid for.
LEMMA TimeNoMore ==
    ASSUME EconomyIInv, NEW e \in EntityId, NEW t \in 1 .. MaxTime,
           Claims(e, t)' \subseteq Claims(e, t), Spare(e, t)' <= Spare(e, t),
           credited'[e][t] = credited[e][t], excess'[e] = excess[e] \/ excess'[e] = excess[e] + 1
    PROVE  TimeOf(e, t)'
  BY TimeNumbers, PayingKept DEF TimeOf

\* The claims of the others stay as they are, unless the last run or a late tick changes.
LEMMA OtherClaims ==
    ASSUME EconomyIInv, NEW p \in Proc, NEW s, NEW r, Moves(p, s, r), NEW e, NEW t,
           Since(e, t)' \/ Late(e, t)' => Since(e, t) \/ Late(e, t)
    PROVE  \A q \in Claims(e, t)' \ {p} : q \in Claims(e, t)
<1>1. \A q \in Proc \ {p} : pc'[q] = pc[q] /\ loc'[q] = loc[q]
  BY MovesOne DEF EconomyIInv
<1> QED  BY <1>1, ClaimsNow, ClaimsThen

\* An entity whose ticks are as they were.
LEMMA TimeElsewhere ==
    ASSUME EconomyIInv, NEW p \in Proc, NEW s, NEW r, Moves(p, s, r), NEW e \in EntityId, NEW t \in 1 .. MaxTime,
           ~TicksAt(pc[p], loc[p], e), ~TicksAt(s, r, e),
           lastRun'[e] = lastRun[e], credited'[e] = credited[e],
           excess'[e] = excess[e] \/ excess'[e] = excess[e] + 1
    PROVE  TimeOf(e, t)'
<1>1. /\ pc'[p] = s /\ loc'[p] = r
      /\ \A q \in Proc \ {p} : pc'[q] = pc[q] /\ loc'[q] = loc[q]
  BY MovesOne DEF EconomyIInv
<1>2. \A q \in Proc : TicksAt(pc'[q], loc'[q], e) <=> TicksAt(pc[q], loc[q], e)
  BY <1>1
<1>3. \A q \in Proc : TicksAt(pc[q], loc[q], e) => q # p /\ loc'[q] = loc[q]
  BY <1>1
<1>4. Ticking(e)' = Ticking(e)
  BY <1>2, TickingNow, TickingThen
<1>5. Late(e, t)' <=> Late(e, t)
  BY <1>2, <1>3, LateNow, LateThen
<1>6. Since(e, t)' <=> Since(e, t)
  BY DEF Since
<1>7. Claims(e, t)' \subseteq Claims(e, t)
  BY <1>1, <1>5, <1>6, OtherClaims, ClaimsThen
<1>8. Spare(e, t)' <= Spare(e, t)
  BY <1>4, <1>5, <1>6 DEF Spare
<1> QED  BY <1>7, <1>8, TimeNoMore

\* A goroutine that is not, or no longer, in a tick: if it was applied, that is counted.
LEMMA TimeLeave ==
    ASSUME EconomyIInv, NEW p \in Proc, NEW s, NEW r, Moves(p, s, r), r.now <= clock,
           \A e \in EntityId : ~TicksAt(s, r, e),
           lastRun' = lastRun, credited' = credited, clock' = clock,
           \A e \in EntityId : \/ excess'[e] = excess[e] /\ ~(TicksAt(pc[p], loc[p], e) /\ Applied(p))
                               \/ excess'[e] = excess[e] + 1
    PROVE  TimeInv'
<1>1. /\ pc'[p] = s /\ loc'[p] = r
      /\ \A q \in Proc \ {p} : pc'[q] = pc[q] /\ loc'[q] = loc[q]
  BY MovesOne DEF EconomyIInv
<1>2. \A q \in Proc : loc'[q].now <= clock'
  BY <1>1, TimeParts DEF EconomyIInv
<1>3. \A e \in EntityId : lastRun'[e] # None => lastRun'[e] <= clock'
  BY TimeParts DEF EconomyIInv
<1>4. ASSUME NEW e \in EntityId, NEW t \in 1 .. MaxTime PROVE TimeOf(e, t)'
  <2>1. CASE ~TicksAt(pc[p], loc[p], e)
    BY <2>1, TimeElsewhere
  <2>2. CASE TicksAt(pc[p], loc[p], e)
    <3>1. Late(e, t)' => Late(e, t)
      BY <1>1, LateNow, LateThen
    <3>2. Since(e, t)' <=> Since(e, t)
      BY DEF Since
    <3>3. p \notin Claims(e, t)'
      BY <1>1, ClaimsThen
    <3>4. Claims(e, t)' \subseteq Claims(e, t) \ {p}
      BY <3>1, <3>2, <3>3, OtherClaims
    <3>5. CASE Spare(e, t)' <= Spare(e, t)
      BY <3>4, <3>5, TimeNoMore
    <3>6. CASE excess'[e] = excess[e] + 1
      BY <3>4, <3>6, PayingKept, TimeNumbers DEF TimeOf
    <3>7. CASE ~(Spare(e, t)' <= Spare(e, t)) /\ excess'[e] = excess[e] /\ ~Applied(p)
      <4>1. Spare(e, t)' = 1 /\ Spare(e, t) = 0
        BY <3>7, SpareBit
      <4>2. ~Late(e, t) /\ Since(e, t)
        BY <3>1, <3>2, <4>1 DEF Spare
      <4>3. loc[p].now \in Nat /\ t \in Nat
        BY TimeNumbers DEF EconomyIInv, TypeOK, Call
      <4>4. t <= loc[p].now
        BY <2>2, <4>2, <4>3, LateNow
      <4>5. p \in Claims(e, t)
        BY <2>2, <3>7, <4>2, <4>4, ClaimsNow DEF MayPay, Applied
      <4>6. Paying(e, t)' + 1 <= Paying(e, t)
        BY <3>4, <4>5, PayingLess
      <4> QED  BY <3>7, <4>1, <4>6, TimeNumbers DEF TimeOf
    <3> QED  BY <2>2, <3>5, <3>6, <3>7
  <2> QED  BY <2>1, <2>2
<1> QED  BY <1>2, <1>3, <1>4, TimePartsThen

\* A goroutine that goes on with its tick: its window holds nothing before the last run.
LEMMA TimeStay ==
    ASSUME EconomyIInv, NEW p \in Proc, NEW s, NEW r, Moves(p, s, r),
           r.eid = loc[p].eid, r.now = loc[p].now, r.op = loc[p].op,
           \/ r.window = loc[p].window
           \/ \A t \in 1 .. MaxTime : t > r.now - r.window => t > r.now \/ Since(r.eid, t),
           r.op \in {"tick", "catchup"} =>
             /\ \A e : TicksAt(pc[p], loc[p], e) <=> TicksAt(s, r, e)
             /\ pc[p] \in {"stats", "record"} => s \in {"stats", "record"}
             /\ Applied(p) => r.out # NoCall.out,
           lastRun' = lastRun, credited' = credited, clock' = clock, excess' = excess
    PROVE  TimeInv'
<1>1. /\ pc'[p] = s /\ loc'[p] = r
      /\ \A q \in Proc \ {p} : pc'[q] = pc[q] /\ loc'[q] = loc[q]
  BY MovesOne DEF EconomyIInv
<1>2. \A q \in Proc : loc'[q].now <= clock'
  BY <1>1, TimeParts DEF EconomyIInv
<1>3. \A e \in EntityId : lastRun'[e] # None => lastRun'[e] <= clock'
  BY TimeParts DEF EconomyIInv
<1>4. ASSUME NEW e \in EntityId, NEW t \in 1 .. MaxTime PROVE TimeOf(e, t)'
  <2>1. CASE ~TicksAt(pc[p], loc[p], e)
    <3>1. ~TicksAt(s, r, e)
      BY <2>1 DEF TicksAt
    <3> QED  BY <2>1, <3>1, TimeElsewhere
  <2>2. CASE TicksAt(pc[p], loc[p], e)
    <3>1. r.op \in {"tick", "catchup"} /\ TicksAt(s, r, e) /\ r.eid = e
      BY <2>2 DEF TicksAt
    <3>2. ASSUME NEW q \in Proc
          PROVE  (TicksAt(pc'[q], loc'[q], e) <=> TicksAt(pc[q], loc[q], e)) /\ loc'[q].now = loc[q].now
      <4>1. CASE q = p
        <5>1. pc'[q] = s /\ loc'[q] = r
          BY <1>1, <4>1
        <5>2. TicksAt(pc'[q], loc'[q], e)
          BY <3>1, <5>1
        <5>3. TicksAt(pc[q], loc[q], e)
          BY <2>2, <4>1
        <5>4. loc'[q].now = loc[q].now
          BY <4>1, <5>1
        <5> QED  BY <5>2, <5>3, <5>4
      <4>2. CASE q # p
        BY <1>1, <4>2
      <4> QED  BY <4>1, <4>2
    <3>3. \A q : q \in Ticking(e)' <=> q \in Ticking(e)
      BY <3>2, TickingNow, TickingThen
    <3>4. Late(e, t)' <=> Late(e, t)
      BY <3>2, LateNow, LateThen
    <3>5. Since(e, t)' <=> Since(e, t)
      BY DEF Since
    <3>6. p \in Claims(e, t)' => p \in Claims(e, t)
      <4> SUFFICES ASSUME p \in Claims(e, t)' PROVE p \in Claims(e, t)
        OBVIOUS
      <4>1. MayPay(s, r, t) /\ (t > r.now - r.window \/ Since(e, t) \/ Late(e, t))
        BY <1>1, <3>4, <3>5, ClaimsThen
      <4>2. MayPay(pc[p], loc[p], t)
        BY <3>1, <4>1 DEF MayPay, Applied
      <4>3. r.now \in Nat /\ t \in Nat /\ t <= r.now
        BY <4>1, TimeNumbers DEF EconomyIInv, TypeOK, Call, MayPay
      <4>4. t > loc[p].now - loc[p].window \/ Since(e, t) \/ Late(e, t)
        <5>1. CASE r.window = loc[p].window
          BY <4>1, <5>1
        <5>2. CASE \A u \in 1 .. MaxTime : u > r.now - r.window => u > r.now \/ Since(r.eid, u)
          BY <3>1, <4>1, <4>3, <5>2
        <5> QED  BY <5>1, <5>2
      <4> QED  BY <2>2, <4>2, <4>4, ClaimsNow
    <3>7. Claims(e, t)' \subseteq Claims(e, t)
      BY <3>4, <3>5, <3>6, OtherClaims
    <3>8. Spare(e, t)' <= Spare(e, t)
      BY <3>3, <3>4, <3>5 DEF Spare
    <3> QED  BY <3>7, <3>8, TimeNoMore
  <2> QED  BY <2>1, <2>2
<1> QED  BY <1>2, <1>3, <1>4, TimePartsThen

-----------------------------------------------------------------------------
\* The steps that change nothing but the call of one goroutine.

\* A step that leaves the characters alone.
LEMMA SameCharacters ==
    ASSUME UNCHANGED characterVars
    PROVE  /\ rows' = rows /\ rowLock' = rowLock /\ read' = read /\ ledger' = ledger
           /\ derived' = derived /\ worn' = worn /\ (CharacterTypeOK => CharacterTypeOK')
  BY DEF characterVars, rowVars, statVars, CharacterTypeOK

\* A step that leaves the component stores alone.
LEMMA SameStores ==
    ASSUME UNCHANGED storeVars
    PROVE  /\ entities' = entities /\ wallet' = wallet /\ assigned' = assigned /\ levels' = levels
           /\ lastRun' = lastRun /\ Mirrored' = Mirrored /\ (StoreTypeOK => StoreTypeOK')
  BY DEF storeVars, StoreTypeOK, Mirrored

\* A goroutine's move and well typed stores make a well typed state.
LEMMA TypeKept ==
    ASSUME TypeOK, NEW p \in Proc, NEW s, NEW r, Moves(p, s, r), CharacterTypeOK', StoreTypeOK',
           clock' \in Nat, tickAt' \in Nat, entkey' \in Proc \cup {NoProc},
           items' \in [Character -> [Recipe -> Nat]], earned' \in [EntityId -> [Resource -> Nat]],
           credited' \in [EntityId -> [1 .. MaxTime -> Nat]], excess' \in [EntityId -> Nat]
    PROVE  TypeOK'
<1>1. pc' \in [Proc -> Steps] /\ loc' \in [Proc -> Call]
  BY MovesOne
<1> QED  BY <1>1 DEF TypeOK

\* A move that writes no row, wallet, level or last run keeps the invariant.
LEMMA QuietStep ==
    ASSUME EconomyIInv, NEW p \in Proc, NEW s, NEW r, Moves(p, s, r), CallAt(s, r), TimeInv',
           UNCHANGED <<characterVars, storeVars, clock, earned, credited>>,
           items' \in [Character -> [Recipe -> Nat]], excess' \in [EntityId -> Nat],
           tickAt' \in Nat, entkey' \in Proc \cup {NoProc},
           \A q \in Proc \ {p} : entkey = q => entkey' = q,
           s = "create" => entkey' = p /\ \A e \in Mirrored : entities[e] # r.char,
           s \in {"bank", "debited"} => \A x \in Resource : r.seen[x] <= earned[r.eid][x],
           s # "pay"
    PROVE  EconomyIInv'
<1>1. /\ rows' = rows /\ rowLock' = rowLock /\ read' = read /\ ledger' = ledger
      /\ (CharacterTypeOK => CharacterTypeOK')
  BY SameCharacters
<1>2. /\ entities' = entities /\ wallet' = wallet /\ assigned' = assigned /\ levels' = levels
      /\ Mirrored' = Mirrored /\ (StoreTypeOK => StoreTypeOK')
  BY SameStores
<1>3. TypeOK'
  <2>1. TypeOK /\ clock' = clock /\ earned' = earned /\ credited' = credited
    BY DEF EconomyIInv
  <2>2. /\ CharacterTypeOK' /\ StoreTypeOK' /\ clock' \in Nat /\ earned' \in [EntityId -> [Resource -> Nat]]
        /\ credited' \in [EntityId -> [1 .. MaxTime -> Nat]]
    BY <1>1, <1>2, <2>1 DEF TypeOK
  <2> QED  BY <2>1, <2>2, TypeKept
<1>4. CallInv'
  BY <1>2, CallsKept
<1>5. StoresInv'
  BY <1>2, StoresKept
<1>6. MirrorInv'
  BY <1>2, MirrorKept
<1>7. WalletInv'
  BY <1>2, WalletKept
<1>8. PayInv'
  BY <1>1, PayKept
<1> QED  BY <1>3, <1>4, <1>5, <1>6, <1>7, <1>8 DEF EconomyIInv

\* ... and neither the mutex, what is owned nor the time.
LEMMA QuietCall ==
    ASSUME EconomyIInv, NEW p \in Proc, NEW s, NEW r, Moves(p, s, r), CallAt(s, r), TimeInv',
           UNCHANGED <<characterVars, storeVars, timeVars, entkey, items, earned, credited>>,
           excess' \in [EntityId -> Nat], s \notin {"create", "pay", "bank", "debited"}
    PROVE  EconomyIInv'
<1>1. /\ clock' = clock /\ tickAt' = tickAt /\ entkey' = entkey /\ items' = items /\ earned' = earned
      /\ credited' = credited
  BY DEF timeVars
<1>2. /\ tickAt' \in Nat /\ entkey' \in Proc \cup {NoProc} /\ items' \in [Character -> [Recipe -> Nat]]
  BY <1>1 DEF EconomyIInv, TypeOK
<1> QED  BY <1>1, <1>2, QuietStep

\* Requests and steps of them that are not part of a tick.
LEMMA QuietLeave ==
    ASSUME EconomyIInv, NEW p \in Proc, NEW s, NEW r, Moves(p, s, r), CallAt(s, r), r.now <= clock,
           \A e \in EntityId : ~TicksAt(s, r, e) /\ ~(TicksAt(pc[p], loc[p], e) /\ Applied(p)),
           UNCHANGED <<characterVars, storeVars, timeVars, entkey, items, obsVars>>,
           s \notin {"create", "pay", "bank", "debited"}
    PROVE  EconomyIInv'
<1>1. earned' = earned /\ credited' = credited /\ excess' = excess /\ clock' = clock
  BY DEF obsVars, timeVars
<1>2. excess' \in [EntityId -> Nat] /\ lastRun' = lastRun
  BY <1>1, SameStores DEF EconomyIInv, TypeOK
<1>3. TimeInv'
  BY <1>1, <1>2, TimeLeave
<1> QED  BY <1>1, <1>2, <1>3, QuietCall

\* A call's time is not ahead of the clock.
LEMMA CallNow == ASSUME EconomyIInv, NEW p \in Proc PROVE loc[p].now <= clock /\ loc[p] \in Call
  BY TimeParts DEF EconomyIInv, TypeOK

\* An idle goroutine ticks nothing.
LEMMA NoCallNow == ASSUME EconomyIInv PROVE NoCall.now <= clock /\ \A s, e : ~TicksAt(s, NoCall, e)
  BY DEF EconomyIInv, TypeOK, NoCall, TicksAt

\* A request begins on an idle goroutine.
LEMMA BeginStep ==
    ASSUME EconomyIInv, NEW p \in Proc, NEW c \in Character,
           NEW op \in DOMAIN After \cup {"upgrade"}, NEW first \in {"mirror", "levels"},
           NEW a \in Activity \cup Recipe \cup {None, NoProc},
           op = "upgrade" <=> first = "levels",
           op \in {"balance", "debit"} => a \in Recipe, op = "upgrade" => a \in Building,
           Begin(p, op, c, a, first)
    PROVE  EconomyIInv'
<1> DEFINE r == [loc[p] EXCEPT !.op = op, !.char = c, !.arg = a]
<1>1. Moves(p, first, r) /\ CallAt(first, r)
  BY BeginForm
<1>2. loc[p].now <= clock /\ loc[p] \in Call
  BY CallNow
<1>3. r.now = loc[p].now
  BY <1>2 DEF Call
<1>4. pc[p] = "idle" /\ UNCHANGED <<characterVars, storeVars, timeVars, entkey, items, obsVars>>
  BY DEF Begin, At
<1>5. \A e \in EntityId : ~TicksAt(first, r, e) /\ ~TicksAt(pc[p], loc[p], e)
  BY <1>4 DEF TicksAt
<1> HIDE DEF r
<1> QED  BY <1>1, <1>2, <1>3, <1>4, <1>5, QuietLeave

\* Logins and the four handlers begin.
LEMMA RequestsStep ==
    ASSUME EconomyIInv, NEW p \in Proc, NEW u \in User, NEW c \in Character,
           \/ LoggedIn(p, c) /\ u = Owner[c]
           \/ StateHandler(p, u, c)
           \/ \E a \in Activity \cup {None} : AssignHandler(p, u, c, a)
           \/ \E x \in Recipe : CraftHandler(p, u, c, x)
           \/ \E b \in Building : UpgradeHandler(p, u, c, b)
    PROVE  EconomyIInv'
<1>1. CASE LoggedIn(p, c)
  BY <1>1, BeginStep, Ops DEF LoggedIn
<1>2. CASE StateHandler(p, u, c)
  BY <1>2, BeginStep, Ops DEF StateHandler
<1>3. CASE \E a \in Activity \cup {None} : AssignHandler(p, u, c, a)
  BY <1>3, BeginStep, Ops DEF AssignHandler
<1>4. CASE \E x \in Recipe : CraftHandler(p, u, c, x)
  BY <1>4, BeginStep, Ops DEF CraftHandler
<1>5. CASE \E b \in Building : UpgradeHandler(p, u, c, b)
  BY <1>5, BeginStep, Ops DEF UpgradeHandler, Activity
<1> QED  BY <1>1, <1>2, <1>3, <1>4, <1>5

\* The mirror finds an entity, or keeps its mutex to create one.
LEMMA MirrorLockStep == ASSUME EconomyIInv, NEW p \in Proc, MirrorLock(p) PROVE EconomyIInv'
<1>1. /\ pc[p] = "mirror" /\ entkey = NoProc
      /\ UNCHANGED <<characterVars, storeVars, timeVars, items, obsVars>>
  BY DEF MirrorLock, At
<1>2. clock' = clock /\ tickAt' = tickAt /\ items' = items /\ earned' = earned /\ credited' = credited /\ excess' = excess
  BY <1>1 DEF timeVars, obsVars
<1>3. loc[p].now <= clock /\ loc[p] \in Call /\ CallAt(pc[p], loc[p]) /\ loc[p].op \in DOMAIN After
  BY <1>1, CallNow, OpsAtStep DEF EconomyIInv, CallInv, CallAt
<1>4. \A e \in EntityId : ~TicksAt(pc[p], loc[p], e)
  BY <1>1 DEF TicksAt
<1>5. CASE /\ Moves(p, "create", loc[p]) /\ CallAt("create", loc[p])
           /\ entkey' = p /\ ListByOwner(loc[p].char) = {}
  <2>1. TimeInv'
    <3>1. \A e \in EntityId : ~TicksAt("create", loc[p], e)
      BY DEF TicksAt
    <3> QED  BY <1>1, <1>2, <1>3, <1>4, <1>5, <3>1, TimeLeave, SameStores
  <2>2. \A e \in Mirrored : entities[e] # loc[p].char
    BY <1>5 DEF ListByOwner, Mirrored
  <2>3. /\ tickAt' \in Nat /\ entkey' \in Proc \cup {NoProc} /\ items' \in [Character -> [Recipe -> Nat]]
        /\ excess' \in [EntityId -> Nat]
    BY <1>2, <1>5 DEF EconomyIInv, TypeOK
  <2>4. \A q \in Proc \ {p} : entkey = q => entkey' = q
    BY <1>1, NoProcIsNoProc
  <2> QED  BY <1>1, <1>2, <1>5, <2>1, <2>2, <2>3, <2>4, QuietStep
<1>6. CASE entkey' = entkey /\ \E e \in Mirrored :
             LET r == [loc[p] EXCEPT !.eid = e] IN
             Moves(p, After[loc[p].op], r) /\ CallAt(After[loc[p].op], r)
  <2>1. PICK e \in Mirrored :
             LET r == [loc[p] EXCEPT !.eid = e] IN
             Moves(p, After[loc[p].op], r) /\ CallAt(After[loc[p].op], r)
    BY <1>6
  <2> DEFINE r == [loc[p] EXCEPT !.eid = e]
             s == After[loc[p].op]
  <2>2. Moves(p, s, r) /\ CallAt(s, r)
    BY <2>1
  <2>3. s \in {"now", "view", "assign", "balance", "debit"}
    BY <1>3, Ops
  <2>4. r.now = loc[p].now
    BY <1>3 DEF Call
  <2> HIDE DEF r, s
  <2>5. \A f \in EntityId : ~TicksAt(s, r, f)
    BY <2>3 DEF TicksAt
  <2>6. UNCHANGED <<characterVars, storeVars, timeVars, entkey, items, obsVars>>
    BY <1>1, <1>6
  <2> QED  BY <1>3, <1>4, <2>2, <2>3, <2>4, <2>5, <2>6, QuietLeave
<1> QED  BY <1>5, <1>6, MirrorLockForm

\* A step of a request that ends it.
LEMMA EndStep ==
    ASSUME EconomyIInv, NEW p \in Proc, Moves(p, "idle", NoCall), CallAt("idle", NoCall),
           \A e \in EntityId : ~(TicksAt(pc[p], loc[p], e) /\ Applied(p)),
           UNCHANGED <<characterVars, storeVars, timeVars, entkey, items, obsVars>>
    PROVE  EconomyIInv'
  BY NoCallNow, QuietLeave

\* The state of an entity is shown.
LEMMA ViewStep == ASSUME EconomyIInv, NEW p \in Proc, View(p) PROVE EconomyIInv'
<1>1. pc[p] = "view" /\ Finish(p) /\ UNCHANGED <<characterVars, storeVars, timeVars, entkey, items, obsVars>>
  BY DEF View, At
<1>2. Moves(p, "idle", NoCall) /\ CallAt("idle", NoCall)
  BY <1>1, FinishMoves DEF EconomyIInv
<1> QED  BY <1>1, <1>2, EndStep DEF TicksAt

\* The ticker fires.
LEMMA TickerStep == ASSUME EconomyIInv, runTicker PROVE EconomyIInv'
<1> DEFINE r == [loc[Ticker] EXCEPT !.op = "tick"]
<1>1. Moves(Ticker, "query", r) /\ CallAt("query", r) /\ Ticker \in Proc
  BY TickerForm, TickerIsAProc
<1>2. /\ pc[Ticker] = "idle" /\ tickAt' = clock /\ clock' = clock
      /\ UNCHANGED <<characterVars, storeVars, entkey, items, obsVars>>
  BY DEF runTicker, At
<1>3. loc[Ticker].now <= clock /\ loc[Ticker] \in Call
  BY CallNow, TickerIsAProc
<1>4. r.now = loc[Ticker].now
  BY <1>3 DEF Call
<1> HIDE DEF r
<1>5. \A e \in EntityId : ~TicksAt("query", r, e) /\ ~TicksAt(pc[Ticker], loc[Ticker], e)
  BY <1>2 DEF TicksAt
<1>6. /\ tickAt' \in Nat /\ entkey' = entkey /\ entkey' \in Proc \cup {NoProc}
      /\ items' \in [Character -> [Recipe -> Nat]] /\ excess' \in [EntityId -> Nat]
      /\ earned' = earned /\ credited' = credited /\ excess' = excess
  BY <1>2 DEF EconomyIInv, TypeOK, obsVars
<1>7. TimeInv'
  BY <1>1, <1>2, <1>3, <1>4, <1>5, <1>6, SameStores, TimeLeave
<1> QED  BY <1>1, <1>2, <1>6, <1>7, QuietStep

\* A tick lists the assigned entities.
LEMMA TickAllStep == ASSUME EconomyIInv, NEW p \in Proc, TickAll(p) PROVE EconomyIInv'
<1> DEFINE r == [loc[p] EXCEPT !.todo = Query]
<1>1. Moves(p, "next", r) /\ CallAt("next", r)
  BY TickAllForm
<1>2. pc[p] = "query" /\ UNCHANGED <<characterVars, storeVars, timeVars, entkey, items, obsVars>>
  BY DEF TickAll, At
<1>3. loc[p].now <= clock /\ loc[p] \in Call
  BY CallNow
<1>4. r.now = loc[p].now
  BY <1>3 DEF Call
<1> HIDE DEF r
<1>5. \A e \in EntityId : ~TicksAt("next", r, e) /\ ~TicksAt(pc[p], loc[p], e)
  BY <1>2 DEF TicksAt
<1> QED  BY <1>1, <1>2, <1>3, <1>4, <1>5, QuietLeave

\* A tick goes on to its next entity, which another tick may be in.
LEMMA NextEntityStep == ASSUME EconomyIInv, NEW p \in Proc, NextEntity(p) PROVE EconomyIInv'
<1>1. pc[p] = "next" /\ UNCHANGED <<characterVars, storeVars, timeVars, entkey, items, obsVars>>
  BY DEF NextEntity, At
<1>2. loc[p].now <= clock /\ loc[p] \in Call
  BY CallNow
<1>3. \A e \in EntityId : ~TicksAt(pc[p], loc[p], e)
  BY <1>1 DEF TicksAt
<1>4. CASE Moves(p, "idle", NoCall) /\ CallAt("idle", NoCall)
  BY <1>1, <1>3, <1>4, EndStep
<1>5. CASE \E e \in Mirrored, T \in SUBSET EntityId :
             LET r == [loc[p] EXCEPT !.eid = e, !.todo = T] IN
             Moves(p, "now", r) /\ CallAt("now", r)
  <2>1. PICK e \in Mirrored, T \in SUBSET EntityId :
             LET r == [loc[p] EXCEPT !.eid = e, !.todo = T] IN
             Moves(p, "now", r) /\ CallAt("now", r)
    BY <1>5
  <2> DEFINE r == [loc[p] EXCEPT !.eid = e, !.todo = T]
  <2>2. Moves(p, "now", r) /\ CallAt("now", r)
    BY <2>1
  <2>3. r.now = loc[p].now
    BY <1>2 DEF Call
  <2> HIDE DEF r
  <2>4. \A f \in EntityId : ~TicksAt("now", r, f)
    BY DEF TicksAt
  <2> QED  BY <1>1, <1>2, <1>3, <2>2, <2>3, <2>4, QuietLeave
<1> QED  BY <1>4, <1>5, NextEntityForm

\* The output of a window is computed.
LEMMA AccrueStep == ASSUME EconomyIInv, NEW p \in Proc, Accrue(p) PROVE EconomyIInv'
<1>1. PICK o \in Output, c \in Character, s \in {"lock", "earn", "record"} :
             LET r == [loc[p] EXCEPT !.out = o, !.char = c] IN
             Moves(p, s, r) /\ CallAt(s, r) /\ (s = "record" => o = NoCall.out)
  BY AccrueForm
<1> DEFINE r == [loc[p] EXCEPT !.out = o, !.char = c]
<1>2. Moves(p, s, r) /\ CallAt(s, r)
  BY <1>1
<1>3. pc[p] = "accrue" /\ UNCHANGED <<characterVars, storeVars, timeVars, entkey, items, obsVars>>
  BY DEF Accrue, At
<1>4. loc[p] \in Call
  BY CallNow
<1>5. r.eid = loc[p].eid /\ r.now = loc[p].now /\ r.window = loc[p].window /\ r.op = loc[p].op
  BY <1>4 DEF Call
<1> HIDE DEF r
<1>6. earned' = earned /\ credited' = credited /\ excess' = excess /\ clock' = clock /\ excess' \in [EntityId -> Nat]
  BY <1>3 DEF obsVars, timeVars, EconomyIInv, TypeOK
<1>7. \A e : TicksAt(pc[p], loc[p], e) <=> TicksAt(s, r, e)
  BY <1>3, <1>5 DEF TicksAt
<1>8. ~Applied(p)
  BY <1>3 DEF Applied
<1>9. TimeInv'
  BY <1>2, <1>3, <1>5, <1>6, <1>7, <1>8, SameStores, TimeStay
<1> QED  BY <1>2, <1>3, <1>6, <1>9, QuietCall

\* A tick reads the time: what it may pay for was left for a tick to come, or it is
\* counted as one that gets in another's way.
LEMMA NowStep == ASSUME EconomyIInv, NEW p \in Proc, Now(p) PROVE EconomyIInv'
<1>0. PICK e : e = loc[p].eid
  OBVIOUS
<1> DEFINE r == [loc[p] EXCEPT !.now = clock, !.window = 0]
<1>1. Moves(p, "last", r) /\ CallAt("last", r)
  BY NowForm
<1>2. /\ pc[p] = "now" /\ UNCHANGED <<characterVars, storeVars, timeVars, entkey, items, earned, credited>>
      /\ excess' = IF Ticking(e) = {} THEN excess ELSE [excess EXCEPT ![e] = @ + 1]
  BY <1>0 DEF Now, At
<1>3. loc[p] \in Call /\ CallAt(pc[p], loc[p]) /\ clock \in Nat
  BY CallNow DEF EconomyIInv, CallInv, TypeOK
<1>4. r.eid = e /\ r.now = clock /\ r.window = 0 /\ r.op = loc[p].op
  BY <1>0, <1>3 DEF Call
<1>5. e \in EntityId /\ loc[p].op \in {"tick", "catchup"}
  BY <1>0, <1>2, <1>3, MirroredIds, OpsAtStep DEF CallAt, EconomyIInv
<1>6. /\ lastRun' = lastRun /\ clock' = clock /\ credited' = credited /\ excess' \in [EntityId -> Nat]
      /\ \A f \in EntityId \ {e} : excess'[f] = excess[f]
      /\ excess'[e] = IF Ticking(e) = {} THEN excess[e] ELSE excess[e] + 1
  <2>1. excess \in [EntityId -> Nat]
    BY WalletTypes
  <2>2. lastRun' = lastRun /\ clock' = clock /\ credited' = credited
    BY <1>2, SameStores DEF timeVars
  <2>3. CASE Ticking(e) = {}
    BY <1>2, <2>1, <2>2, <2>3
  <2>4. CASE Ticking(e) # {}
    BY <1>2, <1>5, <2>1, <2>2, <2>4
  <2> QED  BY <2>3, <2>4
<1> HIDE DEF r
<1>7. /\ pc'[p] = "last" /\ loc'[p] = r
      /\ \A q \in Proc \ {p} : pc'[q] = pc[q] /\ loc'[q] = loc[q]
  BY <1>1, MovesOne DEF EconomyIInv
<1>8. \A q \in Proc : loc'[q].now <= clock'
  BY <1>3, <1>4, <1>6, <1>7, TimeParts DEF EconomyIInv
<1>9. \A f \in EntityId : lastRun'[f] # None => lastRun'[f] <= clock'
  BY <1>6, TimeParts DEF EconomyIInv
<1>10. \A f \in EntityId : ~TicksAt(pc[p], loc[p], f)
  BY <1>2 DEF TicksAt
<1>11. TicksAt("last", r, e)
  BY <1>4, <1>5 DEF TicksAt
<1>12. ASSUME NEW f \in EntityId, NEW t \in 1 .. MaxTime, f # e PROVE TimeOf(f, t)'
  <2>1. ~TicksAt("last", r, f)
    BY <1>4, <1>12 DEF TicksAt
  <2> QED  BY <1>1, <1>6, <1>10, <1>12, <2>1, TimeElsewhere
<1>13. ASSUME NEW t \in 1 .. MaxTime PROVE TimeOf(e, t)'
  <2>1. t \in Nat /\ lastRun[e] \in Nat \cup {None} /\ (lastRun[e] # None => lastRun[e] <= clock)
    BY <1>5, EconomyBounds, WalletTypes, TimeParts DEF EconomyIInv
  <2>2. Since(e, t)' <=> Since(e, t)
    BY <1>6 DEF Since
  <2>3. \A q \in Proc : TicksAt(pc[q], loc[q], e) => q # p /\ TicksAt(pc'[q], loc'[q], e) /\ loc'[q] = loc[q]
    BY <1>5, <1>7, <1>10
  <2>4. Ticking(e)' # {}
    BY <1>7, <1>11, TickingThen
  <2>5. CASE clock < t
    <3>1. ASSUME NEW q \in Proc PROVE ~MayPay(pc'[q], loc'[q], t)
      <4>1. loc'[q].now <= clock /\ loc'[q].now \in Nat
        BY <1>1, <1>6, <1>8, MovesOne DEF EconomyIInv, Call
      <4> QED  BY <1>3, <2>1, <2>5, <4>1 DEF MayPay
    <3>2. Claims(e, t)' \subseteq Claims(e, t)
      BY <3>1, ClaimsThen
    <3>3. Spare(e, t) = 1
      <4>1. CASE Ticking(e) = {}
        <5>1. Since(e, t)
          BY <1>3, <2>1, <2>5 DEF Since
        <5> QED  BY <4>1, <5>1 DEF Spare
      <4>2. CASE Ticking(e) # {}
        <5>1. PICK q \in Proc : TicksAt(pc[q], loc[q], e)
          BY <4>2, TickingNow
        <5>2. loc[q].now <= clock /\ loc[q].now \in Nat
          BY CallNow DEF Call
        <5>3. loc[q].now < t
          BY <1>3, <2>1, <2>5, <5>2
        <5>4. Late(e, t)
          BY <5>1, <5>3, LateNow
        <5> QED  BY <5>4 DEF Spare
      <4> QED  BY <4>1, <4>2
    <3>4. Spare(e, t)' <= Spare(e, t)
      BY <3>3, SpareBit
    <3> QED  BY <1>5, <1>6, <3>2, <3>4, TimeNoMore
  <2>6. CASE t <= clock
    <3>1. Late(e, t)' <=> Late(e, t)
      <4>1. ~(clock < t)
        BY <1>3, <2>1, <2>6
      <4>2. Late(e, t)' => Late(e, t)
        BY <1>4, <1>7, <4>1, LateNow, LateThen
      <4>3. Late(e, t) => Late(e, t)'
        BY <2>3, LateNow, LateThen
      <4> QED  BY <4>2, <4>3
    <3>2. \A q \in Claims(e, t)' \ {p} : q \in Claims(e, t)
      BY <1>1, <2>2, <3>1, OtherClaims
    <3>3. Paying(e, t)' <= Paying(e, t) + 1
      BY <3>2, PayingMore
    <3>4. CASE Ticking(e) # {}
      <4>1. Spare(e, t)' <= Spare(e, t)
        BY <2>4, <3>1 DEF Spare
      <4> QED  BY <1>5, <1>6, <3>3, <3>4, <4>1, TimeNumbers DEF TimeOf
    <3>5. CASE Ticking(e) = {}
      <4>1. ~Late(e, t)
        BY <3>5 DEF Late
      <4>2. Spare(e, t)' = 0
        BY <2>4, <3>1, <4>1 DEF Spare
      <4>3. CASE Since(e, t)
        <5>1. Spare(e, t) = 1
          BY <3>5, <4>3 DEF Spare
        <5> QED  BY <1>5, <1>6, <3>3, <3>5, <4>2, <5>1, TimeNumbers DEF TimeOf
      <4>4. CASE ~Since(e, t)
        <5>1. p \notin Claims(e, t)'
          <6>1. ~(t > clock - 0)
            BY <1>3, <2>1, <2>6
          <6> QED  BY <1>4, <1>7, <2>2, <3>1, <4>1, <4>4, <6>1, ClaimsThen
        <5>2. Claims(e, t)' \subseteq Claims(e, t)
          BY <3>2, <5>1
        <5> QED  BY <1>5, <1>6, <3>5, <4>2, <5>2, SpareBit, TimeNoMore
      <4> QED  BY <4>3, <4>4
    <3> QED  BY <3>4, <3>5
  <2> QED  BY <1>3, <2>1, <2>5, <2>6
<1>14. TimeInv'
  BY <1>8, <1>9, <1>12, <1>13, TimePartsThen
<1> QED  BY <1>1, <1>2, <1>6, <1>14, QuietCall

\* The window of a tick reaches back to the last run, as that is by now.
LEMMA LastRunStep == ASSUME EconomyIInv, NEW p \in Proc, LastRun(p) PROVE EconomyIInv'
<1> DEFINE e == loc[p].eid
<1>1. PICK w \in Nat :
             LET r == [loc[p] EXCEPT !.window = w]
                 s == IF w = 0 THEN "record" ELSE "accrue" IN
             /\ Moves(p, s, r) /\ CallAt(s, r)
             /\ w # 0 /\ lastRun[loc[p].eid] # None => lastRun[loc[p].eid] <= loc[p].now - w
  BY LastRunForm
<1> DEFINE r == [loc[p] EXCEPT !.window = w]
           s == IF w = 0 THEN "record" ELSE "accrue"
<1>2. Moves(p, s, r) /\ CallAt(s, r) /\ (w # 0 /\ lastRun[e] # None => lastRun[e] <= loc[p].now - w)
  BY <1>1
<1>3. pc[p] = "last" /\ UNCHANGED <<characterVars, storeVars, timeVars, entkey, items, obsVars>>
  BY DEF LastRun, At
<1>4. loc[p] \in Call /\ CallAt(pc[p], loc[p]) /\ loc[p].now \in Nat
  BY CallNow DEF EconomyIInv, CallInv, Call
<1>5. r.eid = e /\ r.now = loc[p].now /\ r.window = w /\ r.op = loc[p].op
  BY <1>4 DEF Call
<1>6. e \in EntityId
  BY <1>3, <1>4, MirroredIds DEF CallAt, EconomyIInv
<1>7. s \in {"record", "accrue"}
  OBVIOUS
<1> HIDE DEF e, r, s
<1>8. earned' = earned /\ credited' = credited /\ excess' = excess /\ clock' = clock /\ excess' \in [EntityId -> Nat]
  BY <1>3 DEF obsVars, timeVars, EconomyIInv, TypeOK
<1>9. \A f : TicksAt(pc[p], loc[p], f) <=> TicksAt(s, r, f)
  BY <1>3, <1>5, <1>7 DEF TicksAt, e
<1>10. ~Applied(p) /\ pc[p] \notin {"stats", "record"}
  BY <1>3 DEF Applied
<1>11. ASSUME NEW t \in 1 .. MaxTime, t > r.now - r.window PROVE t > r.now \/ Since(r.eid, t)
  <2>1. t \in Nat /\ lastRun[e] \in Nat \cup {None}
    BY <1>6, EconomyBounds, WalletTypes
  <2>2. CASE w = 0
    BY <1>4, <1>5, <1>11, <2>1, <2>2
  <2>3. CASE w # 0
    BY <1>2, <1>4, <1>5, <1>11, <2>1, <2>3 DEF Since
  <2> QED  BY <2>2, <2>3
<1>12. lastRun' = lastRun
  BY <1>3, SameStores
<1>13. r.eid = loc[p].eid
  BY <1>5 DEF e
<1>14. \A t \in 1 .. MaxTime : t > r.now - r.window => t > r.now \/ Since(r.eid, t)
  BY <1>11
<1>15. r.op \in {"tick", "catchup"} =>
             /\ \A f : TicksAt(pc[p], loc[p], f) <=> TicksAt(s, r, f)
             /\ pc[p] \in {"stats", "record"} => s \in {"stats", "record"}
             /\ Applied(p) => r.out # NoCall.out
  BY <1>9, <1>10
<1>16. TimeInv'
  BY <1>2, <1>5, <1>8, <1>12, <1>13, <1>14, <1>15, TimeStay
<1> QED  BY <1>2, <1>3, <1>7, <1>8, <1>16, QuietCall

\* What is read of a wallet was banked.
LEMMA ReadBanked ==
    ASSUME EconomyIInv, NEW e \in EntityId
    PROVE  wallet[e] \in [Resource -> Nat] /\ \A x \in Resource : wallet[e][x] <= earned[e][x]
<1>1. wallet[e] \in [Resource -> Nat] /\ earned[e] \in [Resource -> Nat]
  BY DEF EconomyIInv, TypeOK, StoreTypeOK
<1> QED  BY <1>1 DEF EconomyIInv, WalletInv, WalletBacked

\* A tick reads the wallet it will add to.
LEMMA EarnReadStep == ASSUME EconomyIInv, NEW p \in Proc, EarnRead(p) PROVE EconomyIInv'
<1> DEFINE f == wallet[loc[p].eid]
           r == [loc[p] EXCEPT !.seen = f]
<1>1. Moves(p, "bank", r) /\ CallAt("bank", r) /\ loc[p].eid \in EntityId
  BY EarnReadForm
<1>2. pc[p] = "earn" /\ UNCHANGED <<characterVars, storeVars, timeVars, entkey, items, obsVars>>
  BY DEF EarnRead, At
<1>3. loc[p] \in Call
  BY CallNow
<1>4. \A x \in Resource : f[x] <= earned[loc[p].eid][x]
  BY <1>1, ReadBanked
<1> HIDE DEF f
<1>5. r.eid = loc[p].eid /\ r.now = loc[p].now /\ r.window = loc[p].window /\ r.op = loc[p].op /\ r.seen = f
  BY <1>3 DEF Call
<1> HIDE DEF r
<1>6. /\ earned' = earned /\ credited' = credited /\ excess' = excess /\ clock' = clock /\ excess' \in [EntityId -> Nat]
      /\ tickAt' \in Nat /\ entkey' = entkey /\ entkey' \in Proc \cup {NoProc} /\ items' \in [Character -> [Recipe -> Nat]]
  BY <1>2 DEF obsVars, timeVars, EconomyIInv, TypeOK
<1>7. \A e : TicksAt(pc[p], loc[p], e) <=> TicksAt("bank", r, e)
  BY <1>2, <1>5 DEF TicksAt
<1>8. ~Applied(p)
  BY <1>2 DEF Applied
<1>9. TimeInv'
  BY <1>1, <1>2, <1>5, <1>6, <1>7, <1>8, SameStores, TimeStay
<1> QED  BY <1>1, <1>2, <1>4, <1>5, <1>6, <1>9, QuietStep

\* A craft reads the wallet it will take from.
LEMMA DebitReadStep == ASSUME EconomyIInv, NEW p \in Proc, DebitRead(p) PROVE EconomyIInv'
<1> DEFINE f == wallet[loc[p].eid]
           r == [loc[p] EXCEPT !.seen = f]
<1>1. Moves(p, "debited", r) /\ CallAt("debited", r) /\ loc[p].eid \in EntityId
  BY DebitReadForm
<1>2. pc[p] = "debit" /\ UNCHANGED <<characterVars, storeVars, timeVars, entkey, items, obsVars>>
  BY DEF DebitRead, At
<1>3. loc[p].now <= clock /\ loc[p] \in Call
  BY CallNow
<1>4. \A x \in Resource : f[x] <= earned[loc[p].eid][x]
  BY <1>1, ReadBanked
<1> HIDE DEF f
<1>5. r.eid = loc[p].eid /\ r.now = loc[p].now /\ r.seen = f
  BY <1>3 DEF Call
<1> HIDE DEF r
<1>6. /\ earned' = earned /\ credited' = credited /\ excess' = excess /\ clock' = clock /\ excess' \in [EntityId -> Nat]
      /\ tickAt' \in Nat /\ entkey' = entkey /\ entkey' \in Proc \cup {NoProc} /\ items' \in [Character -> [Recipe -> Nat]]
  BY <1>2 DEF obsVars, timeVars, EconomyIInv, TypeOK
<1>7. \A e \in EntityId : ~TicksAt("debited", r, e) /\ ~TicksAt(pc[p], loc[p], e)
  BY <1>2 DEF TicksAt
<1>9. TimeInv'
  BY <1>1, <1>2, <1>3, <1>5, <1>6, <1>7, SameStores, TimeLeave
<1> QED  BY <1>1, <1>2, <1>4, <1>5, <1>6, <1>9, QuietStep

\* A craft checks what it costs.
LEMMA BalancesStep == ASSUME EconomyIInv, NEW p \in Proc, Balances(p) PROVE EconomyIInv'
<1>1. pc[p] = "balance" /\ UNCHANGED <<characterVars, storeVars, timeVars, entkey, items, obsVars>>
  BY DEF Balances, At
<1>2. loc[p].now <= clock /\ loc[p] \in Call /\ loc[p].op = "balance"
  BY <1>1, CallNow, OpsAtStep DEF EconomyIInv, CallInv, CallAt
<1>3. \A e \in EntityId : ~TicksAt(pc[p], loc[p], e)
  BY <1>1 DEF TicksAt
<1>4. CASE Moves(p, "idle", NoCall) /\ CallAt("idle", NoCall)
  BY <1>1, <1>3, <1>4, EndStep
<1>5. CASE Moves(p, "lock", loc[p]) /\ CallAt("lock", loc[p])
  <2>1. \A e \in EntityId : ~TicksAt("lock", loc[p], e)
    BY <1>2 DEF TicksAt
  <2> QED  BY <1>1, <1>2, <1>3, <1>5, <2>1, QuietLeave
<1>6. CASE \E s \in {"item", "mirror"} :
             LET r == [loc[p] EXCEPT !.op = "debit", !.due = Taken(loc[p].arg)] IN
             Moves(p, s, r) /\ CallAt(s, r)
  <2>1. PICK s \in {"item", "mirror"} :
             LET r == [loc[p] EXCEPT !.op = "debit", !.due = Taken(loc[p].arg)] IN
             Moves(p, s, r) /\ CallAt(s, r)
    BY <1>6
  <2> DEFINE r == [loc[p] EXCEPT !.op = "debit", !.due = Taken(loc[p].arg)]
  <2>4. Moves(p, s, r) /\ CallAt(s, r)
    BY <2>1
  <2>2. r.now = loc[p].now
    BY <1>2 DEF Call
  <2> HIDE DEF r
  <2>3. \A e \in EntityId : ~TicksAt(s, r, e)
    BY DEF TicksAt
  <2> QED  BY <1>1, <1>2, <1>3, <2>2, <2>3, <2>4, QuietLeave
<1> QED  BY <1>4, <1>5, <1>6, BalancesForm

\* An upgrade reads the building levels.
LEMMA ReadLevelsStep == ASSUME EconomyIInv, NEW p \in Proc, ReadLevels(p) PROVE EconomyIInv'
<1>1. pc[p] = "levels" /\ UNCHANGED <<characterVars, storeVars, timeVars, entkey, items, obsVars>>
  BY DEF ReadLevels, At
<1>2. loc[p].now <= clock /\ loc[p] \in Call /\ loc[p].op = "upgrade"
  BY <1>1, CallNow, OpsAtStep DEF EconomyIInv, CallInv, CallAt
<1>3. \A e \in EntityId : ~TicksAt(pc[p], loc[p], e)
  BY <1>1 DEF TicksAt
<1>4. CASE Moves(p, "idle", NoCall) /\ CallAt("idle", NoCall)
  BY <1>1, <1>3, <1>4, EndStep
<1>5. CASE \E e \in Mirrored :
                LET r == [loc[p] EXCEPT !.eid = e, !.level = levels[e]] IN
                Moves(p, "lock", r) /\ CallAt("lock", r) /\ entities[e] = loc[p].char
  <2>1. PICK e \in Mirrored :
                LET r == [loc[p] EXCEPT !.eid = e, !.level = levels[e]] IN
                Moves(p, "lock", r) /\ CallAt("lock", r) /\ entities[e] = loc[p].char
    BY <1>5
  <2> DEFINE r == [loc[p] EXCEPT !.eid = e, !.level = levels[e]]
  <2>2. Moves(p, "lock", r) /\ CallAt("lock", r)
    BY <2>1
  <2>3. r.now = loc[p].now /\ r.op = loc[p].op
    BY <1>2 DEF Call
  <2> HIDE DEF r
  <2>4. \A f \in EntityId : ~TicksAt("lock", r, f)
    BY <1>2, <2>3 DEF TicksAt
  <2> QED  BY <1>1, <1>2, <1>3, <2>2, <2>3, <2>4, QuietLeave
<1> QED  BY <1>4, <1>5, ReadLevelsForm

\* A craft hands its item out.
LEMMA GrantItemStep == ASSUME EconomyIInv, NEW p \in Proc, GrantItem(p) PROVE EconomyIInv'
<1>1. /\ pc[p] = "item" /\ Finish(p) /\ UNCHANGED <<characterVars, storeVars, timeVars, entkey, obsVars>>
      /\ \/ items' = [items EXCEPT ![loc[p].char][loc[p].arg] = @ + 1]
         \/ items' = items
  BY DEF GrantItem, At
<1>2. Moves(p, "idle", NoCall) /\ CallAt("idle", NoCall)
  BY <1>1, FinishMoves DEF EconomyIInv
<1>3. loc[p].char \in Character /\ loc[p].arg \in Recipe
  BY <1>1, Ops, OpsAtStep DEF EconomyIInv, CallInv, CallAt
<1>4. items' \in [Character -> [Recipe -> Nat]]
  <2>1. items \in [Character -> [Recipe -> Nat]]
    BY DEF EconomyIInv, TypeOK
  <2> QED  BY <1>1, <1>3, <2>1
<1>5. /\ earned' = earned /\ credited' = credited /\ excess' = excess /\ clock' = clock /\ excess' \in [EntityId -> Nat]
      /\ tickAt' \in Nat /\ entkey' = entkey /\ entkey' \in Proc \cup {NoProc}
  BY <1>1 DEF obsVars, timeVars, EconomyIInv, TypeOK
<1>6. \A e \in EntityId : ~TicksAt("idle", NoCall, e) /\ ~TicksAt(pc[p], loc[p], e)
  BY <1>1 DEF TicksAt
<1>7. TimeInv'
  BY <1>1, <1>2, <1>5, <1>6, NoCallNow, SameStores, TimeLeave
<1> QED  BY <1>1, <1>2, <1>4, <1>5, <1>7, QuietStep

\* Steps that write one component of an entity and end the request.
LEMMA WriteStep ==
    ASSUME EconomyIInv, NEW p \in Proc, Finish(p), NEW e \in Mirrored,
           \A f \in EntityId : ~TicksAt(pc[p], loc[p], f),
           UNCHANGED <<characterVars, entities, wallet, lastRun, timeVars, entkey, items, obsVars>>,
           \A f \in EntityId \ {e} : assigned'[f] = assigned[f] /\ levels'[f] = levels[f],
           assigned' \in [EntityId -> Activity \cup {None}], levels' \in [EntityId -> [Building -> Nat]]
    PROVE  EconomyIInv'
<1>1. Moves(p, "idle", NoCall) /\ CallAt("idle", NoCall)
  BY FinishMoves DEF EconomyIInv
<1>2. /\ rows' = rows /\ rowLock' = rowLock /\ read' = read /\ ledger' = ledger
      /\ (CharacterTypeOK => CharacterTypeOK')
  BY SameCharacters
<1>3. /\ entities' = entities /\ wallet' = wallet /\ lastRun' = lastRun /\ entkey' = entkey /\ items' = items
      /\ earned' = earned /\ credited' = credited /\ excess' = excess /\ clock' = clock /\ tickAt' = tickAt
  BY DEF obsVars, timeVars
<1>4. Mirrored' = Mirrored
  BY <1>3 DEF Mirrored
<1>5. TypeOK'
  <2>1. TypeOK
    BY DEF EconomyIInv
  <2>2. CharacterTypeOK'
    BY <1>2, <2>1 DEF TypeOK
  <2>3. StoreTypeOK'
    BY <1>3, <2>1 DEF TypeOK, StoreTypeOK
  <2>4. /\ clock' \in Nat /\ tickAt' \in Nat /\ entkey' \in Proc \cup {NoProc}
        /\ items' \in [Character -> [Recipe -> Nat]] /\ earned' \in [EntityId -> [Resource -> Nat]]
        /\ credited' \in [EntityId -> [1 .. MaxTime -> Nat]] /\ excess' \in [EntityId -> Nat]
    BY <1>3, <2>1 DEF TypeOK
  <2> QED  BY <1>1, <2>1, <2>2, <2>3, <2>4, TypeKept
<1>6. CallInv'
  BY <1>1, <1>3, CallsKept
<1>7. StoresInv'
  BY <1>4, StoresKept
<1>8. MirrorInv'
  BY <1>1, <1>3, MirrorKept
<1>9. WalletInv'
  BY <1>1, <1>3, WalletKept
<1>10. PayInv'
  BY <1>1, <1>2, PayKept
<1>11. TimeInv'
  BY <1>1, <1>3, NoCallNow, TimeLeave
<1> QED  BY <1>5, <1>6, <1>7, <1>8, <1>9, <1>10, <1>11 DEF EconomyIInv

\* An entity is given an activity.
LEMMA AssignStep == ASSUME EconomyIInv, NEW p \in Proc, Assign(p) PROVE EconomyIInv'
<1>1. /\ pc[p] = "assign" /\ Finish(p) /\ levels' = levels
      /\ UNCHANGED <<characterVars, entities, wallet, lastRun, timeVars, entkey, items, obsVars>>
      /\ \/ loc[p].arg \in Activity /\ assigned' = [assigned EXCEPT ![loc[p].eid] = loc[p].arg]
         \/ assigned' = assigned
  BY DEF Assign, At, AssignmentSet
<1>2. TypeOK /\ loc[p].eid \in Mirrored
  BY <1>1 DEF EconomyIInv, CallInv, CallAt
<1>3. loc[p].eid \in EntityId
  BY <1>2, MirroredIds
<1>4. assigned \in [EntityId -> Activity \cup {None}] /\ levels \in [EntityId -> [Building -> Nat]]
  BY <1>2 DEF TypeOK, StoreTypeOK
<1>5. assigned' \in [EntityId -> Activity \cup {None}] /\ \A f \in EntityId \ {loc[p].eid} : assigned'[f] = assigned[f]
  BY <1>1, <1>3, <1>4
<1>6. \A f \in EntityId : ~TicksAt(pc[p], loc[p], f)
  BY <1>1 DEF TicksAt
<1> QED  BY <1>1, <1>2, <1>4, <1>5, <1>6, WriteStep

\* A level is written from the levels read before the payment.
LEMMA RaiseForm ==
    ASSUME EconomyIInv, NEW p \in Proc, Raise(p)
    PROVE  /\ pc[p] = "raise" /\ loc[p].eid \in Mirrored /\ loc[p].eid \in EntityId /\ loc[p].arg \in Building
           /\ loc[p].char \in Character /\ entities[loc[p].eid] = loc[p].char /\ loc[p].op = "upgrade"
           /\ loc[p].level \in [Building -> Nat]
           /\ levels' = [levels EXCEPT ![loc[p].eid] = [loc[p].level EXCEPT ![loc[p].arg] = @ + 1]]
<1>1. pc[p] = "raise" /\ levels' = [levels EXCEPT ![loc[p].eid] = [loc[p].level EXCEPT ![loc[p].arg] = @ + 1]]
  BY DEF Raise, At, LevelsSet
<1>2. TypeOK /\ loc[p] \in Call /\ CallAt(pc[p], loc[p])
  BY DEF EconomyIInv, CallInv, TypeOK
<1>3. loc[p].level \in [Building -> Nat]
  BY <1>2 DEF Call
<1>4. /\ loc[p].eid \in Mirrored /\ loc[p].arg \in Building
      /\ loc[p].char \in Character /\ entities[loc[p].eid] = loc[p].char /\ loc[p].op = "upgrade"
  BY <1>1, <1>2, Ops, OpsAtStep DEF CallAt
<1> QED  BY <1>1, <1>2, <1>3, <1>4, MirroredIds

\* A building is raised.
LEMMA RaiseStep == ASSUME EconomyIInv, NEW p \in Proc, Raise(p) PROVE EconomyIInv'
<1>1. /\ Finish(p) /\ assigned' = assigned
      /\ UNCHANGED <<characterVars, entities, wallet, lastRun, timeVars, entkey, items, obsVars>>
  BY DEF Raise
<1>2. /\ pc[p] = "raise" /\ loc[p].eid \in Mirrored /\ loc[p].eid \in EntityId /\ loc[p].arg \in Building
      /\ loc[p].level \in [Building -> Nat]
      /\ levels' = [levels EXCEPT ![loc[p].eid] = [loc[p].level EXCEPT ![loc[p].arg] = @ + 1]]
  BY RaiseForm
<1>3. assigned \in [EntityId -> Activity \cup {None}] /\ levels \in [EntityId -> [Building -> Nat]]
  BY DEF EconomyIInv, TypeOK, StoreTypeOK
<1>4. [loc[p].level EXCEPT ![loc[p].arg] = @ + 1] \in [Building -> Nat]
  BY <1>2
<1>5. levels' \in [EntityId -> [Building -> Nat]] /\ \A f \in EntityId \ {loc[p].eid} : levels'[f] = levels[f]
  BY <1>2, <1>3, <1>4
<1>6. \A f \in EntityId : ~TicksAt(pc[p], loc[p], f)
  BY <1>2 DEF TicksAt
<1> QED  BY <1>1, <1>2, <1>3, <1>5, <1>6, WriteStep

\* An entity is created: under the mutex, for a character that had none.
LEMMA MirrorStep == ASSUME EconomyIInv, NEW p \in Proc, Mirror(p) PROVE EconomyIInv'
<1>1. /\ entities' = Append(entities, loc[p].char) /\ Len(entities) < MaxEntities
      /\ loc[p].char \in Character /\ pc[p] = "create" /\ entkey' = NoProc
  BY MirrorForm
<1>2. PICK r \in Call, s \in {"now", "view", "assign", "balance", "debit"} :
         /\ r = [loc[p] EXCEPT !.eid = Len(entities) + 1]
         /\ Moves(p, s, r) /\ CallAt(s, r)'
  BY MirrorForm
<1>3. UNCHANGED <<characterVars, wallet, assigned, levels, lastRun, timeVars, items, obsVars>>
  BY DEF Mirror
<1>4. /\ wallet' = wallet /\ lastRun' = lastRun /\ items' = items /\ assigned' = assigned /\ levels' = levels
      /\ earned' = earned /\ credited' = credited /\ excess' = excess /\ clock' = clock /\ tickAt' = tickAt
  BY <1>3 DEF obsVars, timeVars
<1>5. /\ rows' = rows /\ rowLock' = rowLock /\ read' = read /\ ledger' = ledger
      /\ (CharacterTypeOK => CharacterTypeOK')
  BY <1>3, SameCharacters
<1>6. TypeOK /\ entities \in Seq(Character) /\ Len(entities) \in Nat
  BY DEF EconomyIInv, TypeOK, StoreTypeOK
<1>7. /\ entities' \in Seq(Character) /\ Len(entities') = Len(entities) + 1
      /\ \A e \in 1 .. Len(entities) : entities'[e] = entities[e]
      /\ entities'[Len(entities) + 1] = loc[p].char
  BY <1>1, <1>6
<1>8. Mirrored' = Mirrored \cup {Len(entities) + 1} /\ Mirrored = 1 .. Len(entities)
  BY <1>6, <1>7 DEF Mirrored
<1>9. TypeOK'
  <2>2. CharacterTypeOK'
    BY <1>5, <1>6 DEF TypeOK
  <2>3. StoreTypeOK'
    BY <1>1, <1>4, <1>6, <1>7, EconomyBounds DEF TypeOK, StoreTypeOK
  <2>4. /\ clock' \in Nat /\ tickAt' \in Nat /\ entkey' \in Proc \cup {NoProc}
        /\ items' \in [Character -> [Recipe -> Nat]] /\ earned' \in [EntityId -> [Resource -> Nat]]
        /\ credited' \in [EntityId -> [1 .. MaxTime -> Nat]] /\ excess' \in [EntityId -> Nat]
    BY <1>1, <1>4, <1>6 DEF TypeOK
  <2> QED  BY <1>2, <1>6, <2>2, <2>3, <2>4, TypeKept
<1>10. CallInv'
  BY <1>1, <1>2, CallsGrow
<1>11. StoresInv'
  BY <1>4, <1>8, StoresKept
<1>12. MirrorInv'
  <2>1. /\ pc'[p] = s
        /\ \A q \in Proc \ {p} : pc'[q] = pc[q] /\ loc'[q] = loc[q]
    BY <1>2, <1>6, MovesOne
  <2>2. \A q \in Proc : pc'[q] # "create"
    BY <1>1, <2>1 DEF EconomyIInv, MirrorInv
  <2>3. \A e \in Mirrored : entities[e] # loc[p].char
    BY <1>1 DEF EconomyIInv, MirrorInv
  <2>4. \A e, f \in Mirrored : entities[e] = entities[f] => e = f
    BY DEF EconomyIInv, MirrorInv
  <2>5. \A e, f \in Mirrored' : entities'[e] = entities'[f] => e = f
    BY <1>7, <1>8, <2>3, <2>4
  <2> QED  BY <2>2, <2>5 DEF MirrorInv
<1>13. WalletInv'
  BY <1>2, <1>4, WalletKept
<1>14. PayInv'
  BY <1>2, <1>5, PayKept
<1>15. TimeInv'
  <2>1. loc[p].now <= clock /\ loc[p] \in Call
    BY CallNow
  <2>2. r.now = loc[p].now
    BY <1>2, <2>1 DEF Call
  <2>3. \A e \in EntityId : ~TicksAt(s, r, e) /\ ~TicksAt(pc[p], loc[p], e)
    BY <1>1 DEF TicksAt
  <2> QED  BY <1>2, <1>4, <2>1, <2>2, <2>3, TimeLeave
<1> QED  BY <1>9, <1>10, <1>11, <1>12, <1>13, <1>14, <1>15 DEF EconomyIInv

\* The window of a tick is counted, once.
LEMMA CountedType ==
    ASSUME TypeOK, NEW e \in EntityId, NEW now \in Nat, NEW window \in Nat,
           credited' = [credited EXCEPT ![e] = [t \in 1 .. MaxTime |->
                          IF t \in now - window + 1 .. now THEN @[t] + 1 ELSE @[t]]]
    PROVE  /\ credited' \in [EntityId -> [1 .. MaxTime -> Nat]]
           /\ \A f \in EntityId \ {e} : credited'[f] = credited[f]
           /\ \A t \in 1 .. MaxTime :
                credited'[e][t] = IF t \in now - window + 1 .. now THEN credited[e][t] + 1 ELSE credited[e][t]
<1>1. credited \in [EntityId -> [1 .. MaxTime -> Nat]]
  BY DEF TypeOK
<1> DEFINE new == [t \in 1 .. MaxTime |->
                     IF t \in now - window + 1 .. now THEN credited[e][t] + 1 ELSE credited[e][t]]
<1>2. credited' = [credited EXCEPT ![e] = new]
  OBVIOUS
<1>3. new \in [1 .. MaxTime -> Nat]
  <2>1. credited[e] \in [1 .. MaxTime -> Nat]
    BY <1>1
  <2>2. ASSUME NEW t \in 1 .. MaxTime
        PROVE  (IF t \in now - window + 1 .. now THEN credited[e][t] + 1 ELSE credited[e][t]) \in Nat
    <3>1. credited[e][t] \in Nat
      BY <2>1
    <3>2. credited[e][t] + 1 \in Nat
      BY <3>1
    <3> QED  BY <3>1, <3>2
  <2> QED  BY <2>2
<1>4. \A t \in 1 .. MaxTime : new[t] = IF t \in now - window + 1 .. now THEN credited[e][t] + 1 ELSE credited[e][t]
  OBVIOUS
<1> HIDE DEF new
<1> QED  BY <1>1, <1>2, <1>3, <1>4

\* What a tick credits, it could still pay for; it cannot pay again.
LEMMA TimeCredit ==
    ASSUME EconomyIInv, NEW p \in Proc, NEW s \in {"stats", "record"}, Moves(p, s, loc[p]),
           pc[p] \in {"bank", "pay"}, loc[p].op \in {"tick", "catchup"}, loc[p].out # NoCall.out,
           loc[p].eid \in EntityId, Counted(loc[p].eid, loc[p].now, loc[p].window),
           lastRun' = lastRun, clock' = clock, excess' = excess
    PROVE  TimeInv' /\ credited' \in [EntityId -> [1 .. MaxTime -> Nat]]
<1> DEFINE e == loc[p].eid
<1>1. TypeOK /\ loc[p] \in Call /\ clock \in Nat /\ credited \in [EntityId -> [1 .. MaxTime -> Nat]]
  BY CallNow DEF EconomyIInv, TypeOK
<1>2. loc[p].now \in Nat /\ loc[p].window \in Nat
  BY <1>1 DEF Call
<1>3. /\ credited' \in [EntityId -> [1 .. MaxTime -> Nat]]
      /\ \A f \in EntityId \ {e} : credited'[f] = credited[f]
      /\ \A t \in 1 .. MaxTime :
           credited'[e][t] = IF t \in loc[p].now - loc[p].window + 1 .. loc[p].now
                             THEN credited[e][t] + 1 ELSE credited[e][t]
  BY <1>1, <1>2, CountedType DEF Counted
<1>4. /\ pc'[p] = s /\ loc'[p] = loc[p]
      /\ \A q \in Proc \ {p} : pc'[q] = pc[q] /\ loc'[q] = loc[q]
  BY <1>1, MovesOne
<1>5. \A q \in Proc : loc'[q].now <= clock'
  BY <1>4, TimeParts DEF EconomyIInv
<1>6. \A f \in EntityId : lastRun'[f] # None => lastRun'[f] <= clock'
  BY TimeParts DEF EconomyIInv
<1>7. ASSUME NEW f \in EntityId, NEW t \in 1 .. MaxTime PROVE TimeOf(f, t)'
  <2>1. excess'[f] = excess[f] /\ lastRun'[f] = lastRun[f]
    OBVIOUS
  <2>2. CASE f # e
    <3>1. ~TicksAt(pc[p], loc[p], f) /\ ~TicksAt(s, loc[p], f)
      BY <2>2 DEF TicksAt
    <3> QED  BY <1>1, <1>3, <2>1, <2>2, <3>1, TimeElsewhere
  <2>3. CASE f = e
    <3>1. TicksAt(pc[p], loc[p], f) /\ TicksAt(s, loc[p], f)
      BY <2>3 DEF TicksAt
    <3>2. \A q \in Proc : /\ TicksAt(pc'[q], loc'[q], f) <=> TicksAt(pc[q], loc[q], f)
                          /\ loc'[q] = loc[q]
      BY <1>4, <3>1
    <3>3. Ticking(f)' = Ticking(f)
      BY <3>2, TickingNow, TickingThen
    <3>4. Late(f, t)' <=> Late(f, t)
      BY <3>2, LateNow, LateThen
    <3>5. Since(f, t)' <=> Since(f, t)
      BY <2>1 DEF Since
    <3>6. Spare(f, t)' <= Spare(f, t)
      BY <3>3, <3>4, <3>5 DEF Spare
    <3>7. p \notin Claims(f, t)'
      BY <1>4, ClaimsThen DEF MayPay
    <3>8. Claims(f, t)' \subseteq Claims(f, t) \ {p}
      BY <1>1, <3>4, <3>5, <3>7, OtherClaims
    <3>9. t \in Nat /\ credited[f][t] \in Nat
      BY <1>1, EconomyBounds
    <3>10. CASE t \in loc[p].now - loc[p].window + 1 .. loc[p].now
      <4>1. credited'[f][t] = credited[f][t] + 1
        BY <1>3, <2>3, <3>10
      <4>2. t <= loc[p].now /\ t > loc[p].now - loc[p].window
        BY <1>2, <3>9, <3>10
      <4>3. p \in Claims(f, t)
        BY <3>1, <4>2, ClaimsNow DEF MayPay
      <4>4. Paying(f, t)' + 1 <= Paying(f, t)
        BY <3>8, <4>3, PayingLess
      <4> QED  BY <2>1, <3>6, <4>1, <4>4, TimeNumbers DEF TimeOf
    <3>11. CASE ~(t \in loc[p].now - loc[p].window + 1 .. loc[p].now)
      <4>1. credited'[f][t] = credited[f][t]
        BY <1>3, <2>3, <3>11
      <4> QED  BY <2>1, <3>6, <3>8, <4>1, TimeNoMore
    <3> QED  BY <3>10, <3>11
  <2> QED  BY <2>2, <2>3
<1> QED  BY <1>3, <1>5, <1>6, <1>7, TimePartsThen

\* Steps that change wallets, rows, times or what is counted.
LEMMA Combined ==
    ASSUME EconomyIInv, NEW p \in Proc, NEW s, NEW r, Moves(p, s, r), CallAt(s, r), s # "create",
           UNCHANGED <<entities, assigned, levels, clock, tickAt, items>>,
           entkey' \in Proc \cup {NoProc}, \A q \in Proc \ {p} : entkey = q => entkey' = q,
           wallet' \in [EntityId -> [Resource -> Nat]], lastRun' \in [EntityId -> Nat \cup {None}],
           earned' \in [EntityId -> [Resource -> Nat]], credited' \in [EntityId -> [1 .. MaxTime -> Nat]],
           excess' \in [EntityId -> Nat], CharacterTypeOK', WalletInv', PayInv', TimeInv'
    PROVE  EconomyIInv'
<1>1. /\ entities' = entities /\ assigned' = assigned /\ levels' = levels /\ clock' = clock /\ tickAt' = tickAt
      /\ items' = items /\ Mirrored' = Mirrored
  BY DEF Mirrored
<1>2. TypeOK'
  <2>1. TypeOK
    BY DEF EconomyIInv
  <2>2. StoreTypeOK'
    BY <1>1, <2>1 DEF TypeOK, StoreTypeOK
  <2>3. clock' \in Nat /\ tickAt' \in Nat /\ items' \in [Character -> [Recipe -> Nat]]
    BY <1>1, <2>1 DEF TypeOK
  <2> QED  BY <2>1, <2>2, <2>3, TypeKept
<1>3. CallInv'
  BY <1>1, CallsKept
<1>4. StoresInv'
  BY <1>1, StoresKept
<1>5. MirrorInv'
  BY <1>1, MirrorKept
<1> QED  BY <1>2, <1>3, <1>4, <1>5 DEF EconomyIInv

\* A wallet is written: no more than was banked.
Banked(e, new, bank) ==
    /\ e \in EntityId /\ new \in [Resource -> Nat] /\ bank \in [Resource -> Nat]
    /\ wallet' = [wallet EXCEPT ![e] = new] /\ earned' = [earned EXCEPT ![e] = bank]
    /\ \A x \in Resource : new[x] <= bank[x] /\ earned[e][x] <= bank[x]

\* A wallet that is written with no more than was banked stays backed.
LEMMA WalletWrite ==
    ASSUME EconomyIInv, NEW p \in Proc, NEW s, NEW r, Moves(p, s, r), s \notin {"bank", "debited"},
           NEW e, NEW new, NEW bank, Banked(e, new, bank)
    PROVE  WalletInv' /\ wallet' \in [EntityId -> [Resource -> Nat]] /\ earned' \in [EntityId -> [Resource -> Nat]]
<1> USE DEF Banked
<1>1. /\ pc'[p] = s /\ loc'[p] = r /\ loc' \in [Proc -> Call]
      /\ \A q \in Proc \ {p} : pc'[q] = pc[q] /\ loc'[q] = loc[q]
  BY MovesOne DEF EconomyIInv
<1>2. wallet \in [EntityId -> [Resource -> Nat]] /\ earned \in [EntityId -> [Resource -> Nat]]
  BY WalletTypes
<1>3. wallet' \in [EntityId -> [Resource -> Nat]] /\ earned' \in [EntityId -> [Resource -> Nat]]
  BY <1>2
<1>4. \A f \in EntityId, x \in Resource : earned[f][x] <= earned'[f][x] /\ wallet'[f][x] <= earned'[f][x]
  <2>1. \A f \in EntityId, x \in Resource : wallet[f][x] <= earned[f][x] /\ earned[f][x] \in Nat
    BY <1>2, ReadBanked
  <2> QED  BY <1>2, <2>1
<1>5. WalletBacked'
  <2>1. \A f \in EntityId, x \in Resource : wallet'[f][x] \in Nat /\ earned'[f][x] \in Nat
    BY <1>3
  <2> QED  BY <1>4, <2>1 DEF WalletBacked
<1>6. ASSUME NEW q \in Proc, pc'[q] \in {"bank", "debited"}, NEW x \in Resource
      PROVE  loc'[q].seen[x] <= earned'[loc'[q].eid][x]
  <2>1. q # p /\ pc[q] = pc'[q] /\ loc'[q] = loc[q]
    BY <1>1, <1>6
  <2>2. loc[q].eid \in EntityId /\ loc[q].seen \in [Resource -> Nat]
    <3>1. loc[q].eid \in Mirrored
      BY <1>6, <2>1 DEF EconomyIInv, CallInv, CallAt
    <3>2. loc[q].eid \in EntityId
      BY <3>1, MirroredIds DEF EconomyIInv
    <3> QED  BY <3>2, CallNow DEF Call
  <2>3. loc[q].seen[x] <= earned[loc[q].eid][x]
    BY <1>6, <2>1 DEF EconomyIInv, WalletInv
  <2>4. loc[q].seen[x] \in Nat /\ earned[loc[q].eid][x] \in Nat /\ earned'[loc[q].eid][x] \in Nat
    BY <1>2, <1>3, <2>2
  <2> QED  BY <1>4, <2>1, <2>2, <2>3, <2>4
<1> QED  BY <1>3, <1>5, <1>6 DEF WalletInv

\* A tick banks resources.
LEMMA EarnStep == ASSUME EconomyIInv, NEW p \in Proc, Earn(p) PROVE EconomyIInv'
<1> DEFINE e == loc[p].eid
           new == [x \in Resource |-> loc[p].seen[x] + loc[p].out.res[x]]
           bank == [x \in Resource |-> earned[e][x] + loc[p].out.res[x]]
<1>1. Moves(p, "record", loc[p]) /\ CallAt("record", loc[p]) /\ e \in EntityId
  BY EarnForm
<1>2. /\ pc[p] = "bank" /\ wallet' = [wallet EXCEPT ![e] = new] /\ earned' = [earned EXCEPT ![e] = bank]
      /\ Counted(e, loc[p].now, loc[p].window)
      /\ UNCHANGED <<characterVars, entities, assigned, levels, lastRun, timeVars, entkey, items, excess>>
  BY DEF Earn, At, WalletSet
<1>3. clock' = clock /\ tickAt' = tickAt /\ excess' = excess /\ entkey' = entkey /\ lastRun' = lastRun
  BY <1>2 DEF timeVars
<1>4. /\ rows' = rows /\ rowLock' = rowLock /\ read' = read /\ ledger' = ledger
      /\ (CharacterTypeOK => CharacterTypeOK')
  BY <1>2, SameCharacters
<1>5. loc[p] \in Call /\ loc[p].op \in {"tick", "catchup"} /\ loc[p].out # NoCall.out
  <2>1. CallAt(pc[p], loc[p])
    BY DEF EconomyIInv, CallInv
  <2> QED  BY <1>2, <2>1, CallNow, OpsAtStep DEF CallAt
<1>6. \A x \in Resource : loc[p].seen[x] \in Nat /\ loc[p].out.res[x] \in Nat /\ earned[e][x] \in Nat
  <2>1. loc[p].seen \in [Resource -> Nat] /\ loc[p].out.res \in [Resource -> Nat]
    BY <1>5 DEF Call, Output
  <2>2. earned[e] \in [Resource -> Nat]
    BY <1>1, WalletTypes
  <2> QED  BY <2>1, <2>2
<1>7. \A x \in Resource : loc[p].seen[x] <= earned[e][x]
  BY <1>2 DEF EconomyIInv, WalletInv
<1>8. new \in [Resource -> Nat] /\ bank \in [Resource -> Nat]
  BY <1>6
<1>9. ASSUME NEW x \in Resource PROVE new[x] <= bank[x] /\ earned[e][x] <= bank[x]
  <2>1. new[x] = loc[p].seen[x] + loc[p].out.res[x] /\ bank[x] = earned[e][x] + loc[p].out.res[x]
    OBVIOUS
  <2> HIDE DEF new, bank
  <2> QED  BY <1>6, <1>7, <2>1
<1> HIDE DEF new, bank
<1>10. WalletInv' /\ wallet' \in [EntityId -> [Resource -> Nat]] /\ earned' \in [EntityId -> [Resource -> Nat]]
  <2>1. Banked(e, new, bank)
    BY <1>1, <1>2, <1>8, <1>9 DEF Banked
  <2> QED  BY <1>1, <2>1, WalletWrite
<1>11. PayInv'
  BY <1>1, <1>4, PayKept
<1>12. TimeInv' /\ credited' \in [EntityId -> [1 .. MaxTime -> Nat]]
  BY <1>1, <1>2, <1>3, <1>5, TimeCredit DEF Counted
<1> QED  BY <1>1, <1>2, <1>3, <1>4, <1>10, <1>11, <1>12, WalletTypes, Combined

\* A craft takes a resource from what it read of the wallet.
LEMMA CreditStep == ASSUME EconomyIInv, NEW p \in Proc, Credit(p) PROVE EconomyIInv'
<1> DEFINE e == loc[p].eid
           cost == Cost[loc[p].arg]
           After0(x) == IF loc[p].seen[x] < cost[x] THEN 0 ELSE loc[p].seen[x] - cost[x]
<1>1. e \in EntityId /\ loc[p].arg \in Recipe /\ pc[p] = "debited" /\ loc[p].op = "debit"
  BY CreditForm
<1>2. PICK x \in Resource, s \in {"item", "mirror"} :
         LET r == [loc[p] EXCEPT !.due = loc[p].due \ {x}] IN
         /\ Moves(p, s, r) /\ CallAt(s, r)
         /\ wallet' = [wallet EXCEPT ![loc[p].eid] =
                         [loc[p].seen EXCEPT ![x] = IF @ < Cost[loc[p].arg][x] THEN 0 ELSE @ - Cost[loc[p].arg][x]]]
  BY CreditForm
<1> DEFINE r == [loc[p] EXCEPT !.due = loc[p].due \ {x}]
           new == [loc[p].seen EXCEPT ![x] = After0(x)]
<1>3. Moves(p, s, r) /\ CallAt(s, r) /\ wallet' = [wallet EXCEPT ![e] = new]
  BY <1>2
<1>4. UNCHANGED <<characterVars, entities, assigned, levels, lastRun, timeVars, entkey, items, obsVars>>
  BY DEF Credit
<1>5. /\ clock' = clock /\ tickAt' = tickAt /\ excess' = excess /\ entkey' = entkey /\ lastRun' = lastRun
      /\ credited' = credited /\ earned' = earned
  BY <1>4 DEF timeVars, obsVars
<1>6. /\ rows' = rows /\ rowLock' = rowLock /\ read' = read /\ ledger' = ledger
      /\ (CharacterTypeOK => CharacterTypeOK')
  BY <1>4, SameCharacters
<1>7. loc[p] \in Call /\ loc[p].now <= clock
  BY CallNow
<1>8. r.now = loc[p].now
  BY <1>7 DEF Call
<1>9. loc[p].seen \in [Resource -> Nat] /\ cost \in [Resource -> Nat] /\ earned[e] \in [Resource -> Nat]
  BY <1>1, <1>7, ContentIsNatural, WalletTypes DEF Call
<1>10. \A y \in Resource : loc[p].seen[y] <= earned[e][y]
  BY <1>1 DEF EconomyIInv, WalletInv
<1>11. After0(x) \in Nat /\ After0(x) <= loc[p].seen[x]
  <2>1. loc[p].seen[x] \in Nat /\ cost[x] \in Nat
    BY <1>9
  <2> QED  BY <2>1
<1> HIDE DEF After0, cost, r
<1>12. new \in [Resource -> Nat] /\ \A y \in Resource : new[y] = IF y = x THEN After0(x) ELSE loc[p].seen[y]
  BY <1>9, <1>11
<1>13. ASSUME NEW y \in Resource PROVE new[y] <= earned[e][y] /\ earned[e][y] <= earned[e][y]
  <2>1. loc[p].seen[y] \in Nat /\ earned[e][y] \in Nat /\ loc[p].seen[y] <= earned[e][y]
    BY <1>9, <1>10
  <2> QED  BY <1>11, <1>12, <2>1
<1>14. earned' = [earned EXCEPT ![e] = earned[e]]
  BY <1>1, <1>5, WalletTypes
<1> HIDE DEF new
<1>15. WalletInv' /\ wallet' \in [EntityId -> [Resource -> Nat]] /\ earned' \in [EntityId -> [Resource -> Nat]]
  <2>1. Banked(e, new, earned[e])
    BY <1>1, <1>3, <1>9, <1>12, <1>13, <1>14 DEF Banked
  <2> QED  BY <1>3, <2>1, WalletWrite
<1>16. PayInv'
  BY <1>3, <1>6, PayKept
<1>17. TimeInv'
  <2>1. \A f \in EntityId : ~TicksAt(s, r, f) /\ ~TicksAt(pc[p], loc[p], f)
    BY <1>1 DEF TicksAt
  <2> QED  BY <1>3, <1>5, <1>7, <1>8, <2>1, TimeLeave
<1> QED  BY <1>3, <1>4, <1>5, <1>6, <1>15, <1>16, <1>17, WalletTypes, Combined

\* The end of a tick: what the time recorded leaves open, this late tick left open before.
LEMMA RecordStep == ASSUME EconomyIInv, NEW p \in Proc, Record(p) PROVE EconomyIInv'
<1> DEFINE e == loc[p].eid
<1>1. e \in EntityId /\ \E s \in {"idle", "next"}, r \in Call : Moves(p, s, r) /\ CallAt(s, r) /\ r.now = 0
  <2>1. NoCall.now = 0 /\ NoCall \in Call
    BY NoCallType DEF NoCall
  <2> QED  BY <2>1, RecordForm DEF Moves
<1>2. PICK s \in {"idle", "next"}, r \in Call : Moves(p, s, r) /\ CallAt(s, r) /\ r.now = 0
  BY <1>1
<1>3. /\ pc[p] = "record" /\ lastRun' = [lastRun EXCEPT ![e] = loc[p].now]
      /\ UNCHANGED <<characterVars, entities, wallet, assigned, levels, timeVars, entkey, items, obsVars>>
  BY DEF Record, At, LastRunSet
<1>4. /\ clock' = clock /\ tickAt' = tickAt /\ excess' = excess /\ entkey' = entkey
      /\ wallet' = wallet /\ credited' = credited /\ earned' = earned
  BY <1>3 DEF timeVars, obsVars
<1>5. /\ rows' = rows /\ rowLock' = rowLock /\ read' = read /\ ledger' = ledger
      /\ (CharacterTypeOK => CharacterTypeOK')
  BY <1>3, SameCharacters
<1>6. loc[p] \in Call /\ loc[p].now <= clock /\ loc[p].now \in Nat /\ clock \in Nat /\ loc[p].op \in {"tick", "catchup"}
  <2>1. CallAt(pc[p], loc[p]) /\ clock \in Nat
    BY DEF EconomyIInv, CallInv, TypeOK
  <2>2. loc[p] \in Call /\ loc[p].now <= clock
    BY CallNow
  <2> QED  BY <1>3, <2>1, <2>2, OpsAtStep DEF CallAt, Call
<1>7. lastRun' \in [EntityId -> Nat \cup {None}]
  BY <1>1, <1>3, <1>6, WalletTypes
<1>8. lastRun'[e] = loc[p].now /\ \A f \in EntityId \ {e} : lastRun'[f] = lastRun[f]
  BY <1>1, <1>3, WalletTypes
<1>9. /\ pc'[p] = s /\ loc'[p] = r
      /\ \A q \in Proc \ {p} : pc'[q] = pc[q] /\ loc'[q] = loc[q]
  BY <1>2, MovesOne DEF EconomyIInv
<1>10. WalletInv'
  BY <1>2, <1>4, WalletKept
<1>11. PayInv'
  BY <1>2, <1>5, PayKept
<1>12. TimeInv'
  <2>1. \A q \in Proc : loc'[q].now <= clock'
    BY <1>2, <1>4, <1>6, <1>9, TimeParts DEF EconomyIInv
  <2>2. \A f \in EntityId : lastRun'[f] # None => lastRun'[f] <= clock'
    BY <1>4, <1>6, <1>8, TimeParts DEF EconomyIInv
  <2>3. ASSUME NEW f \in EntityId, NEW t \in 1 .. MaxTime PROVE TimeOf(f, t)'
    <3>1. ~TicksAt(s, r, f) /\ excess'[f] = excess[f] /\ credited'[f] = credited[f]
      BY <1>4 DEF TicksAt
    <3>2. CASE f # e
      <4>1. ~TicksAt(pc[p], loc[p], f)
        BY <3>2 DEF TicksAt
      <4> QED  BY <1>2, <1>8, <3>1, <3>2, <4>1, TimeElsewhere
    <3>3. CASE f = e
      <4>1. TicksAt(pc[p], loc[p], f)
        BY <1>3, <1>6, <3>3 DEF TicksAt
      <4>2. Late(f, t)' => Late(f, t)
        BY <1>9, <3>1, LateNow, LateThen
      <4>3. p \notin Claims(f, t)'
        BY <1>9, <3>1, ClaimsThen
      <4>4. t \in Nat
        BY EconomyBounds
      <4>5. CASE t <= loc[p].now
        <5>1. ~Since(f, t)'
          BY <1>6, <1>8, <3>3, <4>4, <4>5, NoneIsNoTime DEF Since
        <5>2. Claims(f, t)' \subseteq Claims(f, t)
          BY <1>2, <4>2, <4>3, <5>1, OtherClaims
        <5>3. Spare(f, t)' <= Spare(f, t)
          BY <4>2, <5>1 DEF Spare
        <5> QED  BY <3>1, <5>2, <5>3, TimeNoMore
      <4>6. CASE loc[p].now < t
        <5>1. Late(f, t)
          BY <4>1, <4>6, LateNow
        <5>2. Claims(f, t)' \subseteq Claims(f, t)
          BY <1>2, <4>3, <5>1, OtherClaims
        <5>3. Spare(f, t)' <= Spare(f, t)
          BY <5>1, SpareBit DEF Spare
        <5> QED  BY <3>1, <5>2, <5>3, TimeNoMore
      <4> QED  BY <1>6, <4>4, <4>5, <4>6
    <3> QED  BY <3>2, <3>3
  <2> QED  BY <2>1, <2>2, <2>3, TimePartsThen
<1> QED  BY <1>2, <1>3, <1>4, <1>5, <1>7, <1>10, <1>11, <1>12, WalletTypes, Combined

\* The stats are recalculated.
LEMMA RecalculateStep == ASSUME EconomyIInv, NEW p \in Proc, RecalculateStats(p) PROVE EconomyIInv'
<1>1. Moves(p, "record", loc[p]) /\ CallAt("record", loc[p]) /\ loc[p].char \in Character
  BY RecalculateForm
<1>2. /\ pc[p] = "stats"
      /\ derived' = [derived EXCEPT ![loc[p].char] = [base |-> rows[loc[p].char].base, worn |-> worn[loc[p].char]]]
      /\ UNCHANGED <<rowVars, worn, ledger, storeVars, timeVars, entkey, items, obsVars>>
  BY DEF RecalculateStats, At
<1>3. /\ clock' = clock /\ tickAt' = tickAt /\ excess' = excess /\ entkey' = entkey
      /\ credited' = credited /\ earned' = earned /\ rows' = rows /\ rowLock' = rowLock /\ read' = read
      /\ entities' = entities /\ assigned' = assigned /\ levels' = levels /\ wallet' = wallet /\ lastRun' = lastRun
  BY <1>2, SameStores DEF timeVars, obsVars, rowVars
<1>4. CharacterTypeOK'
  <2>1. CharacterTypeOK
    BY WalletTypes
  <2>2. rows[loc[p].char] \in Row /\ worn[loc[p].char] \in Nat
    BY <1>1, <2>1 DEF CharacterTypeOK
  <2>3. [base |-> rows[loc[p].char].base, worn |-> worn[loc[p].char]] \in [base : Nat, worn : Nat]
    BY <2>2 DEF Row
  <2> QED  BY <1>1, <1>2, <1>3, <2>1, <2>3 DEF CharacterTypeOK
<1>5. WalletInv'
  BY <1>1, <1>3, WalletKept
<1>6. PayInv'
  BY <1>1, <1>2, <1>3, PayKept
<1>7. TimeInv'
  <2>1. \A e : TicksAt(pc[p], loc[p], e) <=> TicksAt("record", loc[p], e)
    BY <1>2 DEF TicksAt
  <2>2. Applied(p) => loc[p].out # NoCall.out
    BY DEF Applied
  <2> QED  BY <1>1, <1>3, <2>1, <2>2, TimeStay
<1> QED  BY <1>1, <1>2, <1>3, <1>4, <1>5, <1>6, <1>7, WalletTypes, Combined

\* The transaction reads the row it has locked.
LEMMA LockRowStep == ASSUME EconomyIInv, NEW p \in Proc, LockRow(p) PROVE EconomyIInv'
<1> DEFINE c == loc[p].char
<1>1. Moves(p, "pay", loc[p]) /\ CallAt("pay", loc[p]) /\ c \in Character
  BY LockRowForm
<1>2. /\ pc[p] = "lock" /\ rowLock[c] = NoProc /\ rowLock' = [rowLock EXCEPT ![c] = p]
      /\ read' = [read EXCEPT ![p] = rows[c]] /\ rows' = rows
      /\ UNCHANGED <<statVars, ledger, storeVars, timeVars, entkey, items, obsVars>>
  BY DEF LockRow, At, SelectForUpdate
<1>3. /\ clock' = clock /\ tickAt' = tickAt /\ excess' = excess /\ entkey' = entkey
      /\ credited' = credited /\ earned' = earned /\ ledger' = ledger /\ derived' = derived /\ worn' = worn
      /\ entities' = entities /\ assigned' = assigned /\ levels' = levels /\ wallet' = wallet /\ lastRun' = lastRun
  BY <1>2, SameStores DEF timeVars, obsVars, statVars
<1>4. CharacterTypeOK
  BY WalletTypes
<1>5. CharacterTypeOK'
  BY <1>1, <1>2, <1>3, <1>4 DEF CharacterTypeOK
<1>6. WalletInv'
  BY <1>1, <1>3, WalletKept
<1>7. PayInv'
  <2>1. /\ pc'[p] = "pay" /\ loc'[p] = loc[p]
        /\ \A q \in Proc \ {p} : pc'[q] = pc[q] /\ loc'[q] = loc[q]
    BY <1>1, MovesOne DEF EconomyIInv
  <2>2. RewardsAccounted'
    BY <1>2, <1>3 DEF EconomyIInv, PayInv, RewardsAccounted
  <2>3. /\ rowLock'[c] = p /\ read'[p] = rows[c] /\ (\A d \in Character \ {c} : rowLock'[d] = rowLock[d])
        /\ \A q \in Proc \ {p} : read'[q] = read[q]
    BY <1>1, <1>2, <1>4 DEF CharacterTypeOK
  <2>4. ASSUME NEW q \in Proc, pc'[q] = "pay"
        PROVE  rowLock'[loc'[q].char] = q /\ read'[q] = rows'[loc'[q].char]
    <3>1. CASE q = p
      BY <1>2, <2>1, <2>3, <3>1
    <3>2. CASE q # p
      <4>1. pc[q] = "pay" /\ loc'[q] = loc[q]
        BY <2>1, <2>4, <3>2
      <4>2. loc[q].char \in Character /\ rowLock[loc[q].char] = q /\ read[q] = rows[loc[q].char]
        BY <4>1 DEF EconomyIInv, PayInv, CallInv, CallAt
      <4>3. loc[q].char # c
        BY <1>2, <4>2, NoProcIsNoProc
      <4> QED  BY <1>2, <2>3, <3>2, <4>1, <4>2, <4>3
    <3> QED  BY <3>1, <3>2
  <2> QED  BY <2>2, <2>4 DEF PayInv
<1>8. TimeInv'
  <2>1. \A e : TicksAt(pc[p], loc[p], e) <=> TicksAt("pay", loc[p], e)
    BY <1>2 DEF TicksAt
  <2>2. ~Applied(p)
    BY <1>2 DEF Applied
  <2> QED  BY <1>1, <1>2, <1>3, <2>1, <2>2, TimeStay
<1> QED  BY <1>1, <1>2, <1>3, <1>5, <1>6, <1>7, <1>8, WalletTypes, Combined

-----------------------------------------------------------------------------
\* Transactions that change a row.

\* A row is what was granted minus what was spent.
Accounts(row, l) ==
    /\ row.gold = l.gold - l.spent
    /\ row.gold >= 0
    /\ XPBelow[row.level] + row.exp = l.exp
    /\ row.exp < XPForLevel(row.level)
    /\ row.base = (row.level - 1) * StatGainPerLevel

\* The accounts, row by row.
LEMMA AccountsNow == RewardsAccounted <=> \A c \in Character : Accounts(rows[c], ledger[c])
  BY DEF RewardsAccounted, Accounts

\* And after a step.
LEMMA AccountsThen == RewardsAccounted' <=> \A c \in Character : Accounts(rows'[c], ledger'[c])
  BY DEF RewardsAccounted, Accounts

\* The fields of a row are numbers.
LEMMA RowFields ==
    ASSUME NEW row \in Row
    PROVE  row.gold \in Nat /\ row.level \in Nat \ {0} /\ row.exp \in Nat /\ row.base \in Nat
  BY DEF Row

\* The transaction of p writes the row it has locked and ends.
Writes(p, row, l) ==
    LET c == loc[p].char IN
    /\ row \in Row /\ l \in [gold : Nat, exp : Nat, spent : Nat] /\ Accounts(row, l)
    /\ rows' = [rows EXCEPT ![c] = row] /\ ledger' = [ledger EXCEPT ![c] = l]
    /\ EndTx(p, c) /\ UNCHANGED statVars

\* A transaction that writes the row it locked, within its accounts, keeps them.
LEMMA RowWrite ==
    ASSUME EconomyIInv, NEW p \in Proc, pc[p] = "pay", NEW s, NEW r, Moves(p, s, r), s # "pay",
           NEW row, NEW l, Writes(p, row, l)
    PROVE  PayInv' /\ CharacterTypeOK'
<1> DEFINE c == loc[p].char
<1>1. c \in Character /\ rowLock[c] = p
  BY DEF EconomyIInv, CallInv, CallAt, PayInv
<1>2. /\ row \in Row /\ l \in [gold : Nat, exp : Nat, spent : Nat] /\ Accounts(row, l)
      /\ rows' = [rows EXCEPT ![c] = row] /\ ledger' = [ledger EXCEPT ![c] = l]
      /\ rowLock' = [rowLock EXCEPT ![c] = NoProc] /\ read' = [read EXCEPT ![p] = NewCharacter]
      /\ derived' = derived /\ worn' = worn
  BY DEF Writes, EndTx, statVars
<1>3. CharacterTypeOK
  BY WalletTypes
<1>4. NewCharacter \in Row
  BY DEF NewCharacter, Row
<1>5. CharacterTypeOK'
  <2>1. rows' \in [Character -> Row] /\ read' \in [Proc -> Row]
    BY <1>1, <1>2, <1>3, <1>4 DEF CharacterTypeOK
  <2>2. rowLock' \in [Character -> Proc \cup {NoProc}] /\ ledger' \in [Character -> [gold : Nat, exp : Nat, spent : Nat]]
    BY <1>1, <1>2, <1>3 DEF CharacterTypeOK
  <2> QED  BY <1>2, <1>3, <2>1, <2>2 DEF CharacterTypeOK
<1>6. RewardsAccounted'
  <2>1. \A d \in Character : Accounts(rows[d], ledger[d])
    BY AccountsNow DEF EconomyIInv, PayInv
  <2>2. ASSUME NEW d \in Character PROVE Accounts(rows'[d], ledger'[d])
    <3>1. CASE d = c
      <4>1. rows'[d] = row /\ ledger'[d] = l
        BY <1>1, <1>2, <1>3, <3>1 DEF CharacterTypeOK
      <4> QED  BY <1>2, <4>1
    <3>2. CASE d # c
      <4>1. rows'[d] = rows[d] /\ ledger'[d] = ledger[d]
        BY <1>1, <1>2, <1>3, <3>2 DEF CharacterTypeOK
      <4> QED  BY <2>1, <4>1
    <3> QED  BY <3>1, <3>2
  <2> QED  BY <2>2, AccountsThen
<1>7. ASSUME NEW q \in Proc, pc'[q] = "pay"
      PROVE  rowLock'[loc'[q].char] = q /\ read'[q] = rows'[loc'[q].char]
  <2>1. /\ pc'[p] = s
        /\ \A o \in Proc \ {p} : pc'[o] = pc[o] /\ loc'[o] = loc[o]
    BY MovesOne DEF EconomyIInv
  <2>2. q # p /\ pc[q] = "pay" /\ loc'[q] = loc[q]
    BY <1>7, <2>1
  <2>3. loc[q].char \in Character /\ rowLock[loc[q].char] = q /\ read[q] = rows[loc[q].char]
    BY <2>2 DEF EconomyIInv, PayInv, CallInv, CallAt
  <2>4. loc[q].char # c
    BY <1>1, <2>2, <2>3
  <2>5. rowLock'[loc[q].char] = rowLock[loc[q].char] /\ rows'[loc[q].char] = rows[loc[q].char]
    BY <1>1, <1>2, <1>3, <2>3, <2>4 DEF CharacterTypeOK
  <2>6. read'[q] = read[q]
    BY <1>2, <1>3, <2>2 DEF CharacterTypeOK
  <2> QED  BY <2>2, <2>3, <2>5, <2>6
<1> QED  BY <1>5, <1>6, <1>7 DEF PayInv

\* AddRewards: gold, experience and the levels they are worth.
LEMMA RewardedRow ==
    ASSUME NEW row \in Row, NEW l \in [gold : Nat, exp : Nat, spent : Nat], Accounts(row, l),
           NEW gold \in Nat, NEW exp \in Nat
    PROVE  LET new == ApplyExperience(row, exp)
               made == [gold |-> row.gold + gold, level |-> new.level, exp |-> new.exp,
                        base |-> IF new.level > row.level
                                 THEN ApplyLevelUpStatGains(row, new.level - row.level) ELSE row.base]
               entry == [l EXCEPT !.gold = @ + gold, !.exp = @ + exp] IN
           made \in Row /\ entry \in [gold : Nat, exp : Nat, spent : Nat] /\ Accounts(made, entry)
<1> DEFINE new == ApplyExperience(row, exp)
           made == [gold |-> row.gold + gold, level |-> new.level, exp |-> new.exp,
                    base |-> IF new.level > row.level
                             THEN ApplyLevelUpStatGains(row, new.level - row.level) ELSE row.base]
           entry == [l EXCEPT !.gold = @ + gold, !.exp = @ + exp]
<1>1. row.gold \in Nat /\ row.level \in Nat \ {0} /\ row.exp \in Nat /\ row.base \in Nat
  BY RowFields
<1>2. Result(row.level, row.exp + exp, new)
  BY <1>1, ApplyResult DEF ApplyExperience
<1> HIDE DEF new
<1>3. /\ new.level \in Nat /\ new.exp \in Nat /\ row.level <= new.level /\ new.exp < XPForLevel(new.level)
      /\ Total(new.level) + 6 * new.exp = Total(row.level) + 6 * (row.exp + exp)
  BY <1>2 DEF Result
<1>4. /\ XPBelow[row.level] \in Nat /\ 6 * XPBelow[row.level] = Total(row.level)
      /\ XPBelow[new.level] \in Nat /\ 6 * XPBelow[new.level] = Total(new.level)
  BY <1>1, <1>3, XPBelowTotal
<1>5. l.gold \in Nat /\ l.exp \in Nat /\ l.spent \in Nat
  OBVIOUS
<1>6. /\ row.gold = l.gold - l.spent /\ row.gold >= 0 /\ XPBelow[row.level] + row.exp = l.exp
      /\ row.base = (row.level - 1) * 2
  BY DEF Accounts, StatGainPerLevel
<1>7. XPBelow[new.level] + new.exp = l.exp + exp
  BY <1>1, <1>3, <1>4, <1>5, <1>6
<1>8. /\ made.gold = row.gold + gold /\ made.level = new.level /\ made.exp = new.exp
      /\ made.base = row.base + (new.level - row.level) * 2
  <2>1. CASE new.level > row.level
    BY <2>1 DEF ApplyLevelUpStatGains, StatGainPerLevel
  <2>2. CASE ~(new.level > row.level)
    <3>1. new.level - row.level = 0
      BY <1>1, <1>3, <2>2
    <3> QED  BY <1>1, <2>2, <3>1
  <2> QED  BY <2>1, <2>2
<1>9. entry.gold = l.gold + gold /\ entry.exp = l.exp + exp /\ entry.spent = l.spent
  OBVIOUS
<1>10. made.base = (made.level - 1) * 2 /\ made.base \in Nat
  <2> HIDE DEF made
  <2>1. row.level \in Int /\ new.level \in Int /\ new.level >= 1
    BY <1>1, <1>3
  <2>2. (row.level - 1) * 2 + (new.level - row.level) * 2 = (new.level - 1) * 2
    BY <2>1
  <2>3. (new.level - 1) * 2 \in Nat
    BY <2>1
  <2> QED  BY <1>6, <1>8, <2>2, <2>3
<1>11. made \in Row
  <2>1. made = [gold |-> made.gold, level |-> made.level, exp |-> made.exp, base |-> made.base]
    OBVIOUS
  <2>2. made.gold \in Nat /\ made.level \in Nat \ {0} /\ made.exp \in Nat
    BY <1>1, <1>3, <1>8
  <2> HIDE DEF made
  <2> QED  BY <1>10, <2>1, <2>2 DEF Row
<1>12. entry \in [gold : Nat, exp : Nat, spent : Nat]
  <2>1. l.gold + gold \in Nat /\ l.exp + exp \in Nat
    BY <1>5
  <2> DEFINE x == l.gold + gold
             y == l.exp + exp
  <2>2. entry = [l EXCEPT !.gold = x, !.exp = y] /\ x \in Nat /\ y \in Nat
    BY <2>1
  <2> HIDE DEF entry, x, y
  <2> QED  BY <2>2
<1> HIDE DEF made, entry
<1>13. Accounts(made, entry)
  BY <1>1, <1>3, <1>5, <1>6, <1>7, <1>8, <1>9, <1>10 DEF Accounts, StatGainPerLevel
<1> QED  BY <1>11, <1>12, <1>13 DEF made, entry, new

\* SpendGold: the gold that was read is what the row still has.
LEMMA ChargedRow ==
    ASSUME NEW row \in Row, NEW l \in [gold : Nat, exp : Nat, spent : Nat], Accounts(row, l),
           NEW amount \in Nat, row.gold >= amount
    PROVE  LET made == [row EXCEPT !.gold = @ - amount]
               entry == [l EXCEPT !.spent = @ + amount] IN
           made \in Row /\ entry \in [gold : Nat, exp : Nat, spent : Nat] /\ Accounts(made, entry)
<1> DEFINE made == [row EXCEPT !.gold = @ - amount]
           entry == [l EXCEPT !.spent = @ + amount]
<1>1. row.gold \in Nat /\ row.level \in Nat \ {0} /\ row.exp \in Nat /\ row.base \in Nat
  BY RowFields
<1>2. made.gold = row.gold - amount /\ made.level = row.level /\ made.exp = row.exp /\ made.base = row.base
  BY DEF Row
<1>3. entry.gold = l.gold /\ entry.exp = l.exp /\ entry.spent = l.spent + amount
  OBVIOUS
<1>4. row.gold - amount \in Nat /\ l.gold \in Nat /\ l.spent \in Nat
  BY <1>1
<1>5. made \in Row
  BY <1>4 DEF Row
<1>6. entry \in [gold : Nat, exp : Nat, spent : Nat]
  BY <1>4
<1> HIDE DEF made, entry
<1>7. Accounts(made, entry)
  BY <1>1, <1>2, <1>3, <1>4 DEF Accounts
<1> QED  BY <1>5, <1>6, <1>7 DEF made, entry

\* A reward is written with the levels it brings.
LEMMA AddRewardsStep == ASSUME EconomyIInv, NEW p \in Proc, AddRewards(p) PROVE EconomyIInv'
<1> DEFINE c == loc[p].char
           out == loc[p].out
<1>1. PICK s \in {"stats", "record"} :
             /\ Moves(p, s, loc[p]) /\ CallAt(s, loc[p])
             /\ loc[p].eid \in EntityId /\ loc[p].char \in Character
             /\ loc[p].out # NoCall.out
  BY AddRewardsForm
<1>2. /\ pc[p] = "pay" /\ loc[p].op \in {"tick", "catchup"} /\ WriteRewards(p, c, out.gold, out.exp)
      /\ Counted(loc[p].eid, loc[p].now, loc[p].window)
      /\ UNCHANGED <<statVars, storeVars, timeVars, entkey, items, earned, excess>>
  BY DEF AddRewards, At
<1>3. /\ clock' = clock /\ tickAt' = tickAt /\ excess' = excess /\ entkey' = entkey /\ earned' = earned
      /\ entities' = entities /\ assigned' = assigned /\ levels' = levels /\ wallet' = wallet /\ lastRun' = lastRun
  BY <1>2, SameStores DEF timeVars
<1>4. read[p] = rows[c]
  BY <1>2 DEF EconomyIInv, PayInv
<1>5. rows[c] \in Row /\ ledger[c] \in [gold : Nat, exp : Nat, spent : Nat] /\ Accounts(rows[c], ledger[c])
  <2>1. rows[c] \in Row /\ ledger[c] \in [gold : Nat, exp : Nat, spent : Nat]
    BY <1>1, WalletTypes DEF CharacterTypeOK
  <2> QED  BY <1>1, <2>1, AccountsNow DEF EconomyIInv, PayInv
<1>6. out.gold \in Nat /\ out.exp \in Nat
  BY CallNow DEF Call, Output
<1> DEFINE new == ApplyExperience(rows[c], out.exp)
           made == [gold |-> rows[c].gold + out.gold, level |-> new.level, exp |-> new.exp,
                    base |-> IF new.level > rows[c].level
                             THEN ApplyLevelUpStatGains(rows[c], new.level - rows[c].level)
                             ELSE rows[c].base]
           entry == [ledger[c] EXCEPT !.gold = @ + out.gold, !.exp = @ + out.exp]
<1>7. made \in Row /\ entry \in [gold : Nat, exp : Nat, spent : Nat] /\ Accounts(made, entry)
  BY <1>5, <1>6, RewardedRow
<1>8. rows' = [rows EXCEPT ![c] = made] /\ ledger' = [ledger EXCEPT ![c] = entry] /\ EndTx(p, c) /\ UNCHANGED statVars
  BY <1>2, <1>4 DEF WriteRewards, leveledUp
<1> HIDE DEF made, entry
<1>9. Writes(p, made, entry)
  BY <1>7, <1>8 DEF Writes
<1>10. PayInv' /\ CharacterTypeOK'
  BY <1>1, <1>2, <1>9, RowWrite
<1>11. WalletInv'
  BY <1>1, <1>3, WalletKept
<1>12. TimeInv' /\ credited' \in [EntityId -> [1 .. MaxTime -> Nat]]
  BY <1>1, <1>2, <1>3, TimeCredit DEF Counted
<1> QED  BY <1>1, <1>2, <1>3, <1>10, <1>11, <1>12, WalletTypes, Combined

\* The loop of UpgradeCost: a table of the first n doublings, and that there is one.
IsTable(g, n) ==
    g \in [0 .. n -> Nat] /\ g[0] = 1 /\ \A k \in 0 .. n - 1 : g[k + 1] = 2 * g[k]

\* Doublings can be tabulated up to any number.
LEMMA TableExists == ASSUME NEW n \in Nat PROVE \E g : IsTable(g, n)
<1> DEFINE S == {m \in Nat : ~\E g : IsTable(g, m)}
<1>1. SUFFICES ASSUME S # {} PROVE FALSE
  OBVIOUS
<1>2. PICK m \in S : \A j \in S : m <= j
  <2>1. S \subseteq Nat
    OBVIOUS
  <2> HIDE DEF S
  <2> QED  BY <1>1, <2>1, LeastNatural
<1>3. m \in Nat /\ ~\E g : IsTable(g, m)
  OBVIOUS
<1>4. CASE m = 0
  <2> DEFINE g == [k \in 0 .. 0 |-> 1]
  <2>1. IsTable(g, 0)
    BY DEF IsTable
  <2> QED  BY <1>3, <1>4, <2>1
<1>5. CASE m # 0
  <2>1. m - 1 \in Nat /\ m - 1 \notin S
    BY <1>2, <1>3, <1>5
  <2>2. PICK g : IsTable(g, m - 1)
    BY <2>1
  <2> DEFINE h == [k \in 0 .. m |-> IF k = m THEN 2 * g[m - 1] ELSE g[k]]
  <2>3. \A k \in 0 .. m - 1 : g[k] \in Nat
    BY <1>3, <2>2 DEF IsTable
  <2>4. h \in [0 .. m -> Nat]
    BY <1>3, <1>5, <2>3
  <2>5. h[0] = 1
    BY <1>3, <1>5, <2>2 DEF IsTable
  <2>6. ASSUME NEW k \in 0 .. m - 1 PROVE h[k + 1] = 2 * h[k]
    <3>1. CASE k = m - 1
      BY <1>3, <3>1
    <3>2. CASE k # m - 1
      <4>1. k \in 0 .. (m - 1) - 1 /\ k + 1 # m /\ k # m
        BY <1>3, <3>2
      <4> QED  BY <1>3, <2>2, <4>1 DEF IsTable
    <3> QED  BY <3>1, <3>2
  <2> HIDE DEF h
  <2>7. IsTable(h, m)
    BY <2>4, <2>5, <2>6 DEF IsTable
  <2> QED  BY <1>3, <2>7
<1> QED  BY <1>4, <1>5

\* Longer tables agree with shorter ones.
LEMMA TablesAgree ==
    ASSUME NEW n \in Nat, NEW g, NEW h, IsTable(g, n), IsTable(h, n + 1)
    PROVE  \A k \in 0 .. n : g[k] = h[k]
<1> DEFINE S == {k \in 0 .. n : g[k] # h[k]}
<1>1. SUFFICES ASSUME S # {} PROVE FALSE
  OBVIOUS
<1>2. PICK k \in S : \A j \in S : k <= j
  <2>1. S \subseteq Nat
    OBVIOUS
  <2> HIDE DEF S
  <2> QED  BY <1>1, <2>1, LeastNatural
<1>3. k \in 0 .. n /\ g[k] # h[k]
  OBVIOUS
<1>4. k # 0
  BY <1>3 DEF IsTable
<1>5. k - 1 \in 0 .. n /\ k - 1 \notin S
  BY <1>2, <1>3, <1>4
<1>6. g[k - 1] = h[k - 1]
  BY <1>5
<1>7. k - 1 \in 0 .. n - 1 /\ k - 1 \in 0 .. (n + 1) - 1 /\ (k - 1) + 1 = k
  BY <1>3, <1>4
<1>8. g[k] = 2 * g[k - 1] /\ h[k] = 2 * h[k - 1]
  BY <1>7 DEF IsTable
<1> QED  BY <1>3, <1>6, <1>8

\* So the recursive function of the doublings exists.
LEMMA DoublingsExist ==
    Doublings = [n \in Nat |-> IF n = 0 THEN 1 ELSE 2 * Doublings[n - 1]]
<1> DEFINE G(h) == [n \in Nat |-> IF n = 0 THEN 1 ELSE 2 * h[n - 1]]
           T(n) == CHOOSE g : IsTable(g, n)
           f == [n \in Nat |-> T(n)[n]]
<1>1. ASSUME NEW n \in Nat PROVE IsTable(T(n), n)
  BY TableExists
<1> HIDE DEF T
<1>2. ASSUME NEW n \in Nat PROVE f[n] = IF n = 0 THEN 1 ELSE 2 * f[n - 1]
  <2>1. CASE n = 0
    <3>1. IsTable(T(n), n)
      BY <1>1
    <3> QED  BY <2>1, <3>1 DEF IsTable
  <2>2. CASE n # 0
    <3>1. n - 1 \in Nat /\ (n - 1) + 1 = n /\ n - 1 \in 0 .. n - 1
      BY <2>2
    <3>2. IsTable(T(n), n) /\ IsTable(T(n - 1), n - 1)
      BY <1>1, <3>1
    <3>3. T(n)[n] = 2 * T(n)[n - 1]
      BY <3>1, <3>2 DEF IsTable
    <3>4. T(n - 1)[n - 1] = T(n)[n - 1]
      BY <3>1, <3>2, TablesAgree
    <3> QED  BY <2>2, <3>1, <3>3, <3>4
  <2> QED  BY <2>1, <2>2
<1>3. f = [n \in Nat |-> f[n]]
  OBVIOUS
<1> HIDE DEF f
<1>4. f = G(f)
  BY <1>2, <1>3
<1>5. \E h : h = G(h)
  BY <1>4
<1>6. Doublings = CHOOSE h : h = G(h)
  BY DEF Doublings
<1> HIDE DEF G
<1>7. Doublings = G(Doublings)
  BY <1>5, <1>6
<1> QED  BY <1>7 DEF G

\* Doublings are numbers.
LEMMA DoublingsType == ASSUME NEW n \in Nat PROVE Doublings[n] \in Nat
<1> DEFINE S == {m \in Nat : Doublings[m] \notin Nat}
<1>1. SUFFICES ASSUME S # {} PROVE FALSE
  OBVIOUS
<1>2. PICK m \in S : \A j \in S : m <= j
  <2>1. S \subseteq Nat
    OBVIOUS
  <2> HIDE DEF S
  <2> QED  BY <1>1, <2>1, LeastNatural
<1>3. m \in Nat /\ Doublings[m] \notin Nat
  OBVIOUS
<1>4. Doublings[m] = IF m = 0 THEN 1 ELSE 2 * Doublings[m - 1]
  BY <1>3, DoublingsExist, Zenon
<1>5. m # 0
  BY <1>3, <1>4
<1>6. m - 1 \in Nat /\ m - 1 \notin S
  BY <1>2, <1>3, <1>5
<1>7. Doublings[m - 1] \in Nat
  BY <1>6
<1> QED  BY <1>3, <1>4, <1>5, <1>7

\* What an upgrade costs.
LEMMA CostType == ASSUME NEW b \in Building, NEW n \in Nat PROVE UpgradeCost(b, n) \in Nat
<1>1. BaseCost[b] \in Nat /\ Doublings[n] \in Nat
  BY ContentIsNatural, DoublingsType
<1> QED  BY <1>1 DEF UpgradeCost

\* What a craft or an upgrade costs is a number.
LEMMA PriceType ==
    ASSUME EconomyIInv, NEW p \in Proc, pc[p] = "pay", loc[p].op \in {"balance", "upgrade"}
    PROVE  Price(p) \in Nat
<1>1. loc[p] \in Call /\ CallAt(pc[p], loc[p])
  BY CallNow DEF EconomyIInv, CallInv
<1>2. CASE loc[p].op = "balance"
  <2>1. loc[p].arg \in Recipe
    BY <1>1, <1>2 DEF CallAt
  <2> QED  BY <1>2, <2>1, ContentIsNatural DEF Price
<1>3. CASE loc[p].op = "upgrade"
  <2>1. loc[p].arg \in Building /\ loc[p].level \in [Building -> Nat]
    BY <1>1, <1>3 DEF CallAt, Call
  <2>2. loc[p].level[loc[p].arg] \in Nat
    BY <2>1
  <2> QED  BY <1>3, <2>1, <2>2, CostType DEF Price
<1> QED  BY <1>2, <1>3

\* A transaction that ends without a change.
LEMMA EndTxStep ==
    ASSUME EconomyIInv, NEW p \in Proc, pc[p] = "pay", NEW s, NEW r, Moves(p, s, r), s # "pay",
           EndTx(p, loc[p].char), UNCHANGED <<rows, ledger, statVars>>
    PROVE  PayInv' /\ CharacterTypeOK'
<1> DEFINE c == loc[p].char
<1>1. c \in Character
  BY DEF EconomyIInv, CallInv, CallAt
<1>2. rows[c] \in Row /\ ledger[c] \in [gold : Nat, exp : Nat, spent : Nat] /\ Accounts(rows[c], ledger[c])
  <2>1. rows[c] \in Row /\ ledger[c] \in [gold : Nat, exp : Nat, spent : Nat]
    BY <1>1, WalletTypes DEF CharacterTypeOK
  <2> QED  BY <1>1, <2>1, AccountsNow DEF EconomyIInv, PayInv
<1>3. rows' = [rows EXCEPT ![c] = rows[c]] /\ ledger' = [ledger EXCEPT ![c] = ledger[c]]
  BY <1>1, WalletTypes DEF CharacterTypeOK
<1>4. Writes(p, rows[c], ledger[c])
  BY <1>2, <1>3 DEF Writes
<1> QED  BY <1>4, RowWrite

\* Gold is spent by the database, if there is enough.
LEMMA SpendGoldStep == ASSUME EconomyIInv, NEW p \in Proc, SpendGold(p) PROVE EconomyIInv'
<1> DEFINE c == loc[p].char
           amount == Price(p)
<1>1. c \in Character /\ pc[p] = "pay" /\ loc[p].op \in {"balance", "upgrade"}
  BY SpendForm DEF SpendGold
<1>2. UNCHANGED <<statVars, storeVars, timeVars, entkey, items, obsVars>>
  BY DEF SpendGold
<1>3. /\ clock' = clock /\ tickAt' = tickAt /\ excess' = excess /\ entkey' = entkey /\ earned' = earned /\ credited' = credited
      /\ entities' = entities /\ assigned' = assigned /\ levels' = levels /\ wallet' = wallet /\ lastRun' = lastRun
  BY <1>2, SameStores DEF timeVars, obsVars
<1>4. read[p] = rows[c] /\ amount \in Nat
  BY <1>1, PriceType DEF EconomyIInv, PayInv
<1>5. rows[c] \in Row /\ ledger[c] \in [gold : Nat, exp : Nat, spent : Nat] /\ Accounts(rows[c], ledger[c])
  <2>1. rows[c] \in Row /\ ledger[c] \in [gold : Nat, exp : Nat, spent : Nat]
    BY <1>1, WalletTypes DEF CharacterTypeOK
  <2> QED  BY <1>1, <2>1, AccountsNow DEF EconomyIInv, PayInv
<1>6. loc[p] \in Call /\ loc[p].now <= clock /\ \A e \in EntityId : ~TicksAt(pc[p], loc[p], e)
  BY <1>1, CallNow DEF TicksAt
<1> HIDE DEF amount
<1>7. ASSUME WriteSpend(p, c, amount), NEW s \in {"raise", "item", "mirror"}, NEW r, r.now = loc[p].now,
             r.op \notin {"tick", "catchup"}, Moves(p, s, r), CallAt(s, r)
      PROVE  EconomyIInv'
  <2> DEFINE made == [rows[c] EXCEPT !.gold = @ - amount]
             entry == [ledger[c] EXCEPT !.spent = @ + amount]
  <2>2. Moves(p, s, r) /\ CallAt(s, r)
    BY <1>7
  <2>3. r.now = loc[p].now
    BY <1>7
  <2>4. rows[c].gold >= amount /\ rows' = [rows EXCEPT ![c].gold = @ - amount]
        /\ ledger' = [ledger EXCEPT ![c].spent = @ + amount] /\ EndTx(p, c)
    BY <1>4, <1>7 DEF WriteSpend, CanSpend
  <2>5. made \in Row /\ entry \in [gold : Nat, exp : Nat, spent : Nat] /\ Accounts(made, entry)
    BY <1>4, <1>5, <2>4, ChargedRow
  <2>6. rows' = [rows EXCEPT ![c] = made] /\ ledger' = [ledger EXCEPT ![c] = entry]
    BY <2>4
  <2> HIDE DEF made, entry
  <2>7. Writes(p, made, entry)
    BY <1>2, <2>4, <2>5, <2>6 DEF Writes
  <2>8. PayInv' /\ CharacterTypeOK'
    BY <1>1, <2>2, <2>7, RowWrite
  <2>9. WalletInv'
    BY <1>3, <2>2, WalletKept
  <2>10. TimeInv'
    <3>1. \A e \in EntityId : ~TicksAt(s, r, e)
      BY DEF TicksAt
    <3> QED  BY <1>3, <1>6, <2>2, <2>3, <3>1, TimeLeave
  <2> QED  BY <1>2, <1>3, <2>2, <2>8, <2>9, <2>10, WalletTypes, Combined
<1>8. CASE /\ RefuseSpend(p, c, amount)
           /\ Moves(p, "idle", NoCall) /\ CallAt("idle", NoCall)
  <2>1. PayInv' /\ CharacterTypeOK'
    BY <1>1, <1>2, <1>8, EndTxStep DEF RefuseSpend
  <2>2. WalletInv'
    BY <1>3, <1>8, WalletKept
  <2>3. TimeInv'
    BY <1>3, <1>6, <1>8, NoCallNow, TimeLeave
  <2> QED  BY <1>2, <1>3, <1>8, <2>1, <2>2, <2>3, WalletTypes, Combined
<1>9. CASE /\ WriteSpend(p, c, amount) /\ loc[p].op = "upgrade"
           /\ Moves(p, "raise", loc[p]) /\ CallAt("raise", loc[p])
  BY <1>7, <1>9
<1>10. CASE /\ WriteSpend(p, c, amount) /\ loc[p].op = "balance"
            /\ \E s \in {"item", "mirror"} :
                 LET r == [loc[p] EXCEPT !.op = "debit", !.due = Taken(loc[p].arg)] IN
                 Moves(p, s, r) /\ CallAt(s, r)
  <2>1. PICK s \in {"item", "mirror"} :
                 LET r == [loc[p] EXCEPT !.op = "debit", !.due = Taken(loc[p].arg)] IN
                 Moves(p, s, r) /\ CallAt(s, r)
    BY <1>10
  <2> DEFINE r == [loc[p] EXCEPT !.op = "debit", !.due = Taken(loc[p].arg)]
  <2>2. Moves(p, s, r) /\ CallAt(s, r)
    BY <2>1
  <2>3. r.now = loc[p].now /\ r.op = "debit"
    BY <1>6 DEF Call
  <2> HIDE DEF r
  <2> QED  BY <1>7, <1>10, <2>2, <2>3
<1> QED  BY <1>8, <1>9, <1>10, SpendForm DEF amount

-----------------------------------------------------------------------------
\* Sums over finite sets.

Pick(s) == CHOOSE x \in s : TRUE

\* The recursion of SumFunctionOnSet.
SumRule(f, S, g) == [s \in SUBSET S |-> IF s = {} THEN 0 ELSE f[Pick(s)] + g[s \ {Pick(s)}]]

Sums(f, S) == CHOOSE g : g = SumRule(f, S, g)

\* The library's sum over a set is the recursive function over its subsets.
LEMMA SumIs == ASSUME NEW f, NEW S PROVE SumFunctionOnSet(f, S) = Sums(f, S)[S]
  BY DEF SumFunctionOnSet, FoldFunctionOnSet, MapThenFoldSet, Sums, SumRule, Pick

\* A table of the sums over the subsets of at most n elements.
Small(S, n) == {s \in SUBSET S : Cardinality(s) <= n}

IsSumTable(f, S, n, g) ==
    /\ g \in [Small(S, n) -> Nat]
    /\ \A s \in Small(S, n) : g[s] = IF s = {} THEN 0 ELSE f[Pick(s)] + g[s \ {Pick(s)}]

\* Subsets of a finite set, and taking an element away.
LEMMA TakenOut ==
    ASSUME NEW S, IsFiniteSet(S), NEW s \in SUBSET S
    PROVE  /\ IsFiniteSet(s) /\ Cardinality(s) \in Nat /\ Cardinality(s) <= Cardinality(S)
           /\ Cardinality(S) \in Nat
           /\ s # {} => Pick(s) \in s
           /\ \A x \in s : s \ {x} \in SUBSET S /\ Cardinality(s \ {x}) = Cardinality(s) - 1
           /\ Cardinality(s) = 0 <=> s = {}
<1>1. IsFiniteSet(s) /\ Cardinality(s) <= Cardinality(S)
  BY FS_Subset
<1>2. Cardinality(s) \in Nat /\ Cardinality(S) \in Nat
  BY <1>1, FS_CardinalityType
<1>3. \A x \in s : s \ {x} \in SUBSET S /\ Cardinality(s \ {x}) = Cardinality(s) - 1
  BY <1>1, FS_RemoveElement
<1>4. Cardinality(s) = 0 <=> s = {}
  BY <1>1, FS_EmptySet
<1>5. s # {} => Pick(s) \in s
  BY DEF Pick
<1> QED  BY <1>1, <1>2, <1>3, <1>4, <1>5

\* Sums can be tabulated up to any number of elements.
LEMMA SumTableExists ==
    ASSUME NEW S, IsFiniteSet(S), NEW f, \A x \in S : f[x] \in Nat, NEW n \in Nat
    PROVE  \E g : IsSumTable(f, S, n, g)
<1> DEFINE B == {m \in Nat : ~\E g : IsSumTable(f, S, m, g)}
<1>1. SUFFICES ASSUME B # {} PROVE FALSE
  OBVIOUS
<1>2. PICK m \in B : \A j \in B : m <= j
  <2>1. B \subseteq Nat
    OBVIOUS
  <2> HIDE DEF B
  <2> QED  BY <1>1, <2>1, LeastNatural
<1>3. m \in Nat /\ ~\E g : IsSumTable(f, S, m, g)
  OBVIOUS
<1>4. CASE m = 0
  <2> DEFINE g == [s \in Small(S, 0) |-> 0]
  <2>1. \A s \in Small(S, 0) : s = {}
    BY TakenOut DEF Small
  <2>2. IsSumTable(f, S, 0, g)
    BY <2>1 DEF IsSumTable
  <2> QED  BY <1>3, <1>4, <2>2
<1>5. CASE m # 0
  <2>1. m - 1 \in Nat /\ m - 1 \notin B
    BY <1>2, <1>3, <1>5
  <2>2. PICK g : IsSumTable(f, S, m - 1, g)
    BY <2>1
  <2> DEFINE rest(s) == s \ {Pick(s)}
             h == [s \in Small(S, m) |-> IF s = {} THEN 0 ELSE f[Pick(s)] + g[rest(s)]]
  <2>3. ASSUME NEW s \in Small(S, m), s # {}
        PROVE  rest(s) \in Small(S, m - 1) /\ rest(s) \in Small(S, m) /\ f[Pick(s)] \in Nat
    <3>1. s \in SUBSET S /\ Cardinality(s) <= m
      BY DEF Small
    <3>2. Pick(s) \in s /\ rest(s) \in SUBSET S /\ Cardinality(rest(s)) = Cardinality(s) - 1 /\ Cardinality(s) \in Nat
      BY <2>3, <3>1, TakenOut
    <3>3. Cardinality(rest(s)) <= m - 1 /\ Cardinality(rest(s)) <= m
      BY <1>3, <3>1, <3>2
    <3> QED  BY <3>1, <3>2, <3>3 DEF Small
  <2>4. \A s \in Small(S, m - 1) : g[s] \in Nat
    BY <2>2 DEF IsSumTable
  <2>5. h \in [Small(S, m) -> Nat]
    <3>1. ASSUME NEW s \in Small(S, m)
          PROVE (IF s = {} THEN 0 ELSE f[Pick(s)] + g[rest(s)]) \in Nat
      <4>1. CASE s = {}
        BY <4>1
      <4>2. CASE s # {}
        <5>1. f[Pick(s)] \in Nat /\ g[rest(s)] \in Nat
          BY <2>3, <2>4, <4>2
        <5> QED  BY <4>2, <5>1
      <4> QED  BY <4>1, <4>2
    <3> QED  BY <3>1
  <2>6. \A s \in Small(S, m - 1) : s \in Small(S, m) /\ g[s] = h[s]
    <3>1. SUFFICES ASSUME NEW s \in Small(S, m - 1) PROVE s \in Small(S, m) /\ g[s] = h[s]
      OBVIOUS
    <3>2. s \in SUBSET S /\ Cardinality(s) <= m - 1
      BY DEF Small
    <3>3. Cardinality(s) \in Nat
      BY <3>2, TakenOut
    <3>4. s \in Small(S, m)
      BY <1>3, <3>2, <3>3 DEF Small
    <3>5. g[s] = IF s = {} THEN 0 ELSE f[Pick(s)] + g[rest(s)]
      BY <2>2 DEF IsSumTable
    <3> QED  BY <3>4, <3>5
  <2>7. ASSUME NEW s \in Small(S, m)
        PROVE  h[s] = IF s = {} THEN 0 ELSE f[Pick(s)] + h[s \ {Pick(s)}]
    <3>1. CASE s = {}
      BY <3>1
    <3>2. CASE s # {}
      <4>1. g[rest(s)] = h[rest(s)]
        BY <2>3, <2>6, <3>2
      <4>2. h[s] = f[Pick(s)] + g[rest(s)]
        BY <3>2
      <4> HIDE DEF h
      <4> QED  BY <3>2, <4>1, <4>2
    <3> QED  BY <3>1, <3>2
  <2> HIDE DEF h
  <2>8. IsSumTable(f, S, m, h)
    BY <2>5, <2>7 DEF IsSumTable
  <2> QED  BY <1>3, <2>8
<1> QED  BY <1>4, <1>5

\* The recursion has a solution.
LEMMA SumsExist ==
    ASSUME NEW S, IsFiniteSet(S), NEW f, \A x \in S : f[x] \in Nat
    PROVE  Sums(f, S) = SumRule(f, S, Sums(f, S))
<1>1. Cardinality(S) \in Nat /\ Small(S, Cardinality(S)) = SUBSET S
  <2>1. Cardinality(S) \in Nat
    BY FS_CardinalityType
  <2>2. \A s \in SUBSET S : Cardinality(s) <= Cardinality(S)
    BY TakenOut
  <2> QED  BY <2>1, <2>2 DEF Small
<1>2. PICK g : IsSumTable(f, S, Cardinality(S), g)
  BY <1>1, SumTableExists
<1>3. g \in [SUBSET S -> Nat] /\ \A s \in SUBSET S : g[s] = IF s = {} THEN 0 ELSE f[Pick(s)] + g[s \ {Pick(s)}]
  BY <1>1, <1>2 DEF IsSumTable
<1>4. g = SumRule(f, S, g)
  BY <1>3 DEF SumRule
<1>5. \E h : h = SumRule(f, S, h)
  BY <1>4
<1> QED  BY <1>5 DEF Sums

\* A sum is one element's value and the sum of the others.
LEMMA SumStep ==
    ASSUME NEW S, IsFiniteSet(S), NEW f, \A x \in S : f[x] \in Nat, NEW s \in SUBSET S
    PROVE  Sums(f, S)[s] = IF s = {} THEN 0 ELSE f[Pick(s)] + Sums(f, S)[s \ {Pick(s)}]
<1> DEFINE g == Sums(f, S)
<1>1. g = SumRule(f, S, g)
  BY SumsExist
<1> HIDE DEF g
<1>2. g[s] = SumRule(f, S, g)[s]
  BY <1>1
<1>3. SumRule(f, S, g)[s] = IF s = {} THEN 0 ELSE f[Pick(s)] + g[s \ {Pick(s)}]
  BY DEF SumRule
<1> QED  BY <1>2, <1>3 DEF g

\* A set of subsets has one of least cardinality.
LEMMA LeastSubset ==
    ASSUME NEW S, IsFiniteSet(S), NEW B, B \subseteq SUBSET S, B # {}
    PROVE  \E s \in B : \A u \in B : Cardinality(s) <= Cardinality(u)
<1> DEFINE N == {Cardinality(s) : s \in B}
<1>1. N \subseteq Nat /\ N # {}
  BY TakenOut
<1>2. \E m \in N : \A k \in N : m <= k
  <2> HIDE DEF N
  <2> QED  BY <1>1, LeastNatural
<1> QED  BY <1>2

\* Sums of numbers are numbers.
LEMMA SumNat ==
    ASSUME NEW S, IsFiniteSet(S), NEW f, \A x \in S : f[x] \in Nat, NEW s \in SUBSET S
    PROVE  Sums(f, S)[s] \in Nat
<1> DEFINE g == Sums(f, S)
           B == {u \in SUBSET S : g[u] \notin Nat}
<1>1. SUFFICES ASSUME B # {} PROVE FALSE
  OBVIOUS
<1>2. PICK u \in B : \A v \in B : Cardinality(u) <= Cardinality(v)
  <2>1. B \subseteq SUBSET S
    OBVIOUS
  <2> HIDE DEF B
  <2> QED  BY <1>1, <2>1, LeastSubset
<1>3. u \in SUBSET S /\ g[u] \notin Nat
  OBVIOUS
<1>4. g[u] = IF u = {} THEN 0 ELSE f[Pick(u)] + g[u \ {Pick(u)}]
  BY <1>3, SumStep
<1>5. u # {}
  BY <1>3, <1>4
<1>6. Pick(u) \in u /\ u \ {Pick(u)} \in SUBSET S /\ Cardinality(u \ {Pick(u)}) = Cardinality(u) - 1 /\ Cardinality(u) \in Nat
  BY <1>3, <1>5, TakenOut
<1>7. u \ {Pick(u)} \notin B
  BY <1>2, <1>6
<1>8. g[u \ {Pick(u)}] \in Nat /\ f[Pick(u)] \in Nat
  BY <1>3, <1>6, <1>7
<1> HIDE DEF g, B
<1> QED  BY <1>3, <1>4, <1>5, <1>8

\* Any element may be taken first.
LEMMA SumTake ==
    ASSUME NEW S, IsFiniteSet(S), NEW f, \A x \in S : f[x] \in Nat, NEW s \in SUBSET S, NEW y \in s
    PROVE  Sums(f, S)[s] = f[y] + Sums(f, S)[s \ {y}]
<1> DEFINE g == Sums(f, S)
           B == {u \in SUBSET S : \E z \in u : g[u] # f[z] + g[u \ {z}]}
<1>1. SUFFICES ASSUME B # {} PROVE FALSE
  OBVIOUS
<1>2. PICK u \in B : \A v \in B : Cardinality(u) <= Cardinality(v)
  <2>1. B \subseteq SUBSET S
    OBVIOUS
  <2> HIDE DEF B
  <2> QED  BY <1>1, <2>1, LeastSubset
<1>3. u \in SUBSET S
  OBVIOUS
<1>4. PICK z \in u : g[u] # f[z] + g[u \ {z}]
  OBVIOUS
<1> DEFINE x == Pick(u)
<1>5. g[u] = f[x] + g[u \ {x}]
  BY <1>3, <1>4, SumStep
<1>6. x \in u /\ Cardinality(u) \in Nat
  BY <1>3, <1>4, TakenOut
<1>7. x # z
  BY <1>4, <1>5
<1>8. /\ u \ {x} \in SUBSET S /\ Cardinality(u \ {x}) = Cardinality(u) - 1
      /\ u \ {z} \in SUBSET S /\ Cardinality(u \ {z}) = Cardinality(u) - 1
  BY <1>3, <1>4, <1>6, TakenOut
<1>9. u \ {x} \notin B /\ u \ {z} \notin B
  BY <1>2, <1>6, <1>8
<1>10. z \in u \ {x} /\ x \in u \ {z} /\ (u \ {x}) \ {z} = (u \ {z}) \ {x}
  BY <1>4, <1>6, <1>7
<1>11. g[u \ {x}] = f[z] + g[(u \ {x}) \ {z}] /\ g[u \ {z}] = f[x] + g[(u \ {z}) \ {x}]
  BY <1>8, <1>9, <1>10
<1>12. (u \ {x}) \ {z} \in SUBSET S /\ f[x] \in Nat /\ f[z] \in Nat
  BY <1>3, <1>4, <1>6
<1>13. g[(u \ {x}) \ {z}] \in Nat
  BY <1>12, SumNat
<1> DEFINE w == g[(u \ {x}) \ {z}]
           a == f[x]
           b == f[z]
<1>14. w \in Nat /\ a \in Nat /\ b \in Nat /\ g[u \ {x}] = b + w /\ g[u \ {z}] = a + w
  BY <1>10, <1>11, <1>12, <1>13
<1> HIDE DEF w, a, b, g, B, x
<1>15. g[u] = a + (b + w) /\ g[u] # b + (a + w)
  BY <1>4, <1>5, <1>14 DEF a, b
<1> QED  BY <1>14, <1>15

\* A sum depends on the summands alone.
LEMMA SumAgree ==
    ASSUME NEW S, IsFiniteSet(S), NEW f, \A x \in S : f[x] \in Nat, NEW g, \A x \in S : g[x] \in Nat,
           NEW s \in SUBSET S, \A x \in s : f[x] = g[x]
    PROVE  Sums(f, S)[s] = Sums(g, S)[s]
<1> DEFINE F == Sums(f, S)
           G == Sums(g, S)
           B == {u \in SUBSET s : F[u] # G[u]}
<1>1. SUFFICES ASSUME B # {} PROVE FALSE
  OBVIOUS
<1>2. PICK u \in B : \A v \in B : Cardinality(u) <= Cardinality(v)
  <2>1. B \subseteq SUBSET S
    OBVIOUS
  <2> HIDE DEF B
  <2> QED  BY <1>1, <2>1, LeastSubset
<1>3. u \in SUBSET s /\ u \in SUBSET S /\ F[u] # G[u]
  OBVIOUS
<1>4. /\ F[u] = IF u = {} THEN 0 ELSE f[Pick(u)] + F[u \ {Pick(u)}]
      /\ G[u] = IF u = {} THEN 0 ELSE g[Pick(u)] + G[u \ {Pick(u)}]
  BY <1>3, SumStep
<1>5. u # {}
  BY <1>3, <1>4
<1>6. Pick(u) \in u /\ u \ {Pick(u)} \in SUBSET s /\ Cardinality(u \ {Pick(u)}) = Cardinality(u) - 1 /\ Cardinality(u) \in Nat
  BY <1>3, <1>5, TakenOut
<1>7. u \ {Pick(u)} \notin B
  BY <1>2, <1>6
<1>8. F[u \ {Pick(u)}] = G[u \ {Pick(u)}] /\ f[Pick(u)] = g[Pick(u)]
  BY <1>3, <1>6, <1>7
<1> HIDE DEF F, G, B
<1> QED  BY <1>3, <1>4, <1>5, <1>8

\* One summand changes.
LEMMA SumChange ==
    ASSUME NEW S, IsFiniteSet(S), NEW f, \A x \in S : f[x] \in Nat, NEW g, \A x \in S : g[x] \in Nat,
           NEW y \in S, \A x \in S \ {y} : f[x] = g[x]
    PROVE  /\ SumFunctionOnSet(f, S) \in Nat /\ SumFunctionOnSet(g, S) \in Nat
           /\ SumFunctionOnSet(f, S) + g[y] = SumFunctionOnSet(g, S) + f[y]
<1> DEFINE a == Sums(f, S)[S \ {y}]
<1>1. S \in SUBSET S /\ S \ {y} \in SUBSET S
  OBVIOUS
<1>2. Sums(f, S)[S] = f[y] + a
  BY <1>1, SumTake
<1>3. Sums(g, S)[S] = g[y] + Sums(g, S)[S \ {y}]
  BY <1>1, SumTake
<1>4. Sums(g, S)[S \ {y}] = a
  BY <1>1, SumAgree
<1>5. a \in Nat /\ f[y] \in Nat /\ g[y] \in Nat
  BY <1>1, SumNat
<1> HIDE DEF a
<1>6. SumFunctionOnSet(f, S) = f[y] + a /\ SumFunctionOnSet(g, S) = g[y] + a
  BY <1>2, <1>3, <1>4, SumIs
<1> QED  BY <1>5, <1>6

\* Sums of equal values are equal.
LEMMA SumSame ==
    ASSUME NEW S, IsFiniteSet(S), NEW f, \A x \in S : f[x] \in Nat, NEW g, \A x \in S : g[x] \in Nat,
           \A x \in S : f[x] = g[x]
    PROVE  SumFunctionOnSet(f, S) \in Nat /\ SumFunctionOnSet(f, S) = SumFunctionOnSet(g, S)
<1>1. S \in SUBSET S
  OBVIOUS
<1> QED  BY <1>1, SumAgree, SumNat, SumIs

\* Sums of nothing, of zeros and of one summand.
LEMMA SumEmpty == ASSUME NEW f PROVE SumFunctionOnSet(f, {}) = 0
<1>1. IsFiniteSet({}) /\ {} \in SUBSET {}
  BY FS_EmptySet
<1>2. \A x \in {} : f[x] \in Nat
  OBVIOUS
<1>3. Sums(f, {})[{}] = 0
  BY <1>1, <1>2, SumStep
<1> QED  BY <1>3, SumIs

\* The sum over one element.
LEMMA SumOne ==
    ASSUME NEW f, NEW e, f[e] \in Nat
    PROVE  SumFunctionOnSet(f, {e}) = f[e]
<1>1. IsFiniteSet({e}) /\ {e} \in SUBSET {e} /\ {} \in SUBSET {e} /\ {e} \ {e} = {} /\ e \in {e}
  BY FS_Singleton
<1>2. \A x \in {e} : f[x] \in Nat
  OBVIOUS
<1>3. Sums(f, {e})[{e}] = f[e] + Sums(f, {e})[{e} \ {e}]
  BY <1>1, <1>2, SumTake
<1>4. Sums(f, {e})[{}] = 0
  BY <1>1, <1>2, SumStep
<1>5. Sums(f, {e})[{e}] = f[e] + 0
  BY <1>1, <1>3, <1>4, Zenon
<1>6. SumFunctionOnSet(f, {e}) = Sums(f, {e})[{e}]
  BY SumIs
<1> QED  BY <1>5, <1>6

\* The sum of zeros.
LEMMA SumZero ==
    ASSUME NEW S, IsFiniteSet(S), NEW f, \A x \in S : f[x] = 0
    PROVE  SumFunctionOnSet(f, S) = 0
<1> DEFINE g == Sums(f, S)
           B == {u \in SUBSET S : g[u] # 0}
<1>0. \A x \in S : f[x] \in Nat
  OBVIOUS
<1>1. SUFFICES ASSUME B # {} PROVE FALSE
  <2>1. g[S] = SumFunctionOnSet(f, S)
    BY SumIs
  <2> QED  BY <2>1
<1>2. PICK u \in B : \A v \in B : Cardinality(u) <= Cardinality(v)
  <2>1. B \subseteq SUBSET S
    OBVIOUS
  <2> HIDE DEF B
  <2> QED  BY <1>1, <2>1, LeastSubset
<1>3. u \in SUBSET S /\ g[u] # 0
  OBVIOUS
<1>4. g[u] = IF u = {} THEN 0 ELSE f[Pick(u)] + g[u \ {Pick(u)}]
  BY <1>0, <1>3, SumStep
<1>5. u # {}
  BY <1>3, <1>4
<1>6. Pick(u) \in u /\ u \ {Pick(u)} \in SUBSET S /\ Cardinality(u \ {Pick(u)}) = Cardinality(u) - 1 /\ Cardinality(u) \in Nat
  BY <1>3, <1>5, TakenOut
<1>7. u \ {Pick(u)} \notin B
  BY <1>2, <1>6
<1>8. g[u \ {Pick(u)}] = 0 /\ f[Pick(u)] = 0
  BY <1>3, <1>6, <1>7
<1> HIDE DEF g, B
<1> QED  BY <1>3, <1>4, <1>5, <1>8

-----------------------------------------------------------------------------
\* What levels have cost.

\* The recursive function of the costs below a level exists.
LEMMA CostBelowExists ==
    CostBelow = [n \in Nat |-> [b \in Building |->
                   IF n = 0 THEN 0 ELSE CostBelow[n - 1][b] + UpgradeCost(b, n - 1)]]
<1> DEFINE G(h) == [n \in Nat |-> [b \in Building |->
                      IF n = 0 THEN 0 ELSE h[n - 1][b] + UpgradeCost(b, n - 1)]]
           f == [n \in Nat |-> [b \in Building |-> BaseCost[b] * (Doublings[n] - 1)]]
<1>1. ASSUME NEW n \in Nat, NEW b \in Building PROVE f[n][b] = G(f)[n][b]
  <2>1. BaseCost[b] \in Nat /\ Doublings[n] \in Nat
    BY ContentIsNatural, DoublingsType
  <2>2. Doublings[n] = IF n = 0 THEN 1 ELSE 2 * Doublings[n - 1]
    BY DoublingsExist, Zenon
  <2>3. CASE n = 0
    BY <2>1, <2>2, <2>3
  <2>4. CASE n # 0
    <3>1. n - 1 \in Nat /\ Doublings[n - 1] \in Nat
      BY <2>4, DoublingsType
    <3> DEFINE a == BaseCost[b]
               d == Doublings[n - 1]
    <3>2. f[n][b] = a * (Doublings[n] - 1) /\ f[n - 1][b] = a * (d - 1) /\ UpgradeCost(b, n - 1) = a * d
      BY <3>1 DEF UpgradeCost
    <3>3. Doublings[n] = 2 * d /\ a \in Nat /\ d \in Nat
      BY <2>1, <2>2, <2>4, <3>1
    <3>4. a * (2 * d - 1) = a * (d - 1) + a * d
      <4> HIDE DEF a, d
      <4> QED  BY <3>3
    <3>5. f[n][b] = f[n - 1][b] + UpgradeCost(b, n - 1)
      BY <3>2, <3>3, <3>4
    <3> HIDE DEF f
    <3> QED  BY <2>4, <3>5
  <2> QED  BY <2>3, <2>4
<1>2. f = G(f)
  <2>1. f = [n \in Nat |-> [b \in Building |-> f[n][b]]]
    OBVIOUS
  <2>2. G(f) = [n \in Nat |-> [b \in Building |-> G(f)[n][b]]]
    OBVIOUS
  <2> HIDE DEF G, f
  <2> QED  BY <1>1, <2>1, <2>2
<1> HIDE DEF f
<1>3. \E h : h = G(h)
  BY <1>2
<1>4. CostBelow = CHOOSE h : h = G(h)
  BY DEF CostBelow
<1> HIDE DEF G
<1>5. CostBelow = G(CostBelow)
  BY <1>3, <1>4
<1> QED  BY <1>5 DEF G

\* A level adds its cost to those below.
LEMMA CostBelowStep ==
    ASSUME NEW n \in Nat, NEW b \in Building
    PROVE  CostBelow[n][b] = IF n = 0 THEN 0 ELSE CostBelow[n - 1][b] + UpgradeCost(b, n - 1)
<1>1. CostBelow[n] = [x \in Building |-> IF n = 0 THEN 0 ELSE CostBelow[n - 1][x] + UpgradeCost(x, n - 1)]
  BY CostBelowExists, Zenon
<1> QED  BY <1>1, Zenon

\* Costs are numbers.
LEMMA CostBelowType == ASSUME NEW n \in Nat, NEW b \in Building PROVE CostBelow[n][b] \in Nat
<1> DEFINE S == {m \in Nat : CostBelow[m][b] \notin Nat}
<1>1. SUFFICES ASSUME S # {} PROVE FALSE
  OBVIOUS
<1>2. PICK m \in S : \A j \in S : m <= j
  <2>1. S \subseteq Nat
    OBVIOUS
  <2> HIDE DEF S
  <2> QED  BY <1>1, <2>1, LeastNatural
<1>3. m \in Nat /\ CostBelow[m][b] \notin Nat
  OBVIOUS
<1>4. CostBelow[m][b] = IF m = 0 THEN 0 ELSE CostBelow[m - 1][b] + UpgradeCost(b, m - 1)
  BY <1>3, CostBelowStep
<1>5. m # 0
  BY <1>3, <1>4
<1>6. m - 1 \in Nat /\ m - 1 \notin S
  BY <1>2, <1>3, <1>5
<1>7. CostBelow[m - 1][b] \in Nat /\ UpgradeCost(b, m - 1) \in Nat
  BY <1>6, CostType
<1> HIDE DEF S
<1> QED  BY <1>3, <1>4, <1>5, <1>7

\* One more level costs what Upgrade asks for it.
LEMMA LevelsCostRaised ==
    ASSUME NEW v \in [Building -> Nat], NEW b \in Building
    PROVE  /\ LevelsCost(v) \in Nat
           /\ LevelsCost([v EXCEPT ![b] = @ + 1]) = LevelsCost(v) + UpgradeCost(b, v[b])
<1> DEFINE w == [v EXCEPT ![b] = v[b] + 1]
           f == [x \in Building |-> CostBelow[v[x]][x]]
           g == [x \in Building |-> CostBelow[w[x]][x]]
<1>1. v[b] \in Nat /\ w \in [Building -> Nat] /\ w[b] = v[b] + 1 /\ \A x \in Building \ {b} : w[x] = v[x]
  OBVIOUS
<1> HIDE DEF w
<1>2. \A x \in Building : f[x] \in Nat /\ g[x] \in Nat
  BY <1>1, CostBelowType
<1>3. \A x \in Building \ {b} : f[x] = g[x]
  BY <1>1
<1>4. g[b] = f[b] + UpgradeCost(b, v[b])
  <2>1. v[b] + 1 \in Nat /\ v[b] + 1 # 0 /\ (v[b] + 1) - 1 = v[b]
    BY <1>1
  <2>2. CostBelow[v[b] + 1][b] = CostBelow[v[b]][b] + UpgradeCost(b, v[b])
    BY <2>1, CostBelowStep
  <2> QED  BY <1>1, <2>2
<1>5. LevelsCost(v) = SumFunctionOnSet(f, Building) /\ LevelsCost(w) = SumFunctionOnSet(g, Building)
  BY DEF LevelsCost
<1>6. UpgradeCost(b, v[b]) \in Nat /\ f[b] \in Nat
  BY <1>1, <1>2, CostType
<1> HIDE DEF f, g
<1>7. /\ SumFunctionOnSet(f, Building) \in Nat /\ SumFunctionOnSet(g, Building) \in Nat
      /\ SumFunctionOnSet(f, Building) + g[b] = SumFunctionOnSet(g, Building) + f[b]
  BY <1>2, <1>3, ContentIsFinite, SumChange
<1> QED  BY <1>4, <1>5, <1>6, <1>7 DEF w

\* What the levels of an entity cost is a number.
LEMMA LevelsCostType == ASSUME NEW v \in [Building -> Nat] PROVE LevelsCost(v) \in Nat
<1> DEFINE f == [x \in Building |-> CostBelow[v[x]][x]]
<1>1. \A x \in Building : f[x] \in Nat
  BY CostBelowType
<1> HIDE DEF f
<1>2. SumFunctionOnSet(f, Building) \in Nat
  BY <1>1, ContentIsFinite, SumSame
<1> QED  BY <1>2 DEF LevelsCost, f

\* No levels cost nothing.
LEMMA NoLevelsCost == LevelsCost([b \in Building |-> 0]) = 0
<1> DEFINE v == [b \in Building |-> 0]
           f == [x \in Building |-> CostBelow[v[x]][x]]
<1>1. \A x \in Building : f[x] = 0
  BY CostBelowStep
<1> HIDE DEF f
<1>2. SumFunctionOnSet(f, Building) = 0
  BY <1>1, ContentIsFinite, SumZero
<1> QED  BY <1>2 DEF LevelsCost, f

-----------------------------------------------------------------------------
\* Faults, time and the start.

\* A tick that dies after it was applied marks its entity.
LEMMA DeadMarked ==
    ASSUME NEW ps, NEW p \in ps, NEW e \in EntityId, p \in Ticking(e), Applied(p)
    PROVE  e \in Dead(ps)
  BY DEF Dead, Applied

\* A statement fails; the tick it ends may have applied what it did not record.
LEMMA DbErrorStep == ASSUME EconomyIInv, NEW p \in Proc, DbError(p) PROVE EconomyIInv'
<1>1. /\ Finish(p) /\ entkey' = IF entkey = p THEN NoProc ELSE entkey
      /\ excess' = [e \in EntityId |-> IF e \in Dead({p}) THEN excess[e] + 1 ELSE excess[e]]
      /\ UNCHANGED <<statVars, storeVars, timeVars, items, earned, credited>>
      /\ IF pc[p] = "pay" THEN EndTx(p, loc[p].char) /\ UNCHANGED <<rows, ledger>>
         ELSE UNCHANGED <<rows, ledger, rowLock, read>>
  BY DEF DbError, At, Rollback
<1>2. Moves(p, "idle", NoCall) /\ CallAt("idle", NoCall)
  BY <1>1, FinishMoves DEF EconomyIInv
<1>3. /\ clock' = clock /\ tickAt' = tickAt /\ earned' = earned /\ credited' = credited
      /\ entities' = entities /\ assigned' = assigned /\ levels' = levels /\ wallet' = wallet /\ lastRun' = lastRun
      /\ derived' = derived /\ worn' = worn
  BY <1>1, SameStores DEF timeVars, statVars
<1>4. entkey' \in Proc \cup {NoProc} /\ \A q \in Proc \ {p} : entkey = q => entkey' = q
  BY <1>1, WalletTypes
<1>5. /\ excess' \in [EntityId -> Nat]
      /\ \A e \in EntityId : excess'[e] = IF e \in Dead({p}) THEN excess[e] + 1 ELSE excess[e]
  <2>1. excess \in [EntityId -> Nat]
    BY WalletTypes
  <2> QED  BY <1>1, <2>1
<1>6. PayInv' /\ CharacterTypeOK'
  <2>1. CASE pc[p] = "pay"
    BY <1>1, <1>2, <2>1, EndTxStep
  <2>2. CASE pc[p] # "pay"
    <3>1. rows' = rows /\ ledger' = ledger /\ rowLock' = rowLock /\ read' = read
      BY <1>1, <2>2
    <3>2. CharacterTypeOK'
      BY <1>3, <3>1, WalletTypes DEF CharacterTypeOK
    <3> QED  BY <1>2, <3>1, <3>2, PayKept
  <2> QED  BY <2>1, <2>2
<1>7. WalletInv'
  BY <1>2, <1>3, WalletKept
<1>8. TimeInv'
  <2>1. ASSUME NEW e \in EntityId
        PROVE  \/ excess'[e] = excess[e] /\ ~(TicksAt(pc[p], loc[p], e) /\ Applied(p))
               \/ excess'[e] = excess[e] + 1
    <3>1. TicksAt(pc[p], loc[p], e) /\ Applied(p) => e \in Dead({p})
      BY TickingNow, DeadMarked
    <3> QED  BY <1>5, <3>1
  <2> QED  BY <1>2, <1>3, <1>5, <2>1, NoCallNow, TimeLeave
<1> QED  BY <1>1, <1>2, <1>3, <1>4, <1>5, <1>6, <1>7, <1>8, WalletTypes, Combined

\* Nothing is in memory that a restart would miss, but ticks half way.
LEMMA CrashStep == ASSUME EconomyIInv, Crash PROVE EconomyIInv'
<1>1. /\ pc' = [p \in Proc |-> "idle"] /\ loc' = [p \in Proc |-> NoCall]
      /\ rowLock' = [c \in Character |-> NoProc] /\ read' = [p \in Proc |-> NewCharacter]
      /\ entkey' = NoProc /\ tickAt' = clock
      /\ excess' = [e \in EntityId |-> IF e \in Dead(Proc) THEN excess[e] + 1 ELSE excess[e]]
      /\ UNCHANGED <<rows, statVars, ledger, storeVars, clock, items, earned, credited>>
  BY DEF Crash
<1>2. /\ clock' = clock /\ earned' = earned /\ credited' = credited /\ items' = items
      /\ entities' = entities /\ assigned' = assigned /\ levels' = levels /\ wallet' = wallet /\ lastRun' = lastRun
      /\ derived' = derived /\ worn' = worn /\ rows' = rows /\ ledger' = ledger /\ Mirrored' = Mirrored
      /\ (StoreTypeOK => StoreTypeOK')
  BY <1>1, SameStores DEF statVars
<1>3. \A p \in Proc : pc'[p] = "idle" /\ loc'[p] = NoCall
  BY <1>1
<1>4. TypeOK'
  <2>1. NewCharacter \in Row
    BY DEF NewCharacter, Row
  <2>2. TypeOK /\ CharacterTypeOK /\ StoreTypeOK
    BY DEF EconomyIInv, TypeOK
  <2>3. CharacterTypeOK'
    BY <1>1, <1>2, <2>1, <2>2 DEF CharacterTypeOK
  <2>4. pc' \in [Proc -> Steps] /\ loc' \in [Proc -> Call]
    BY <1>1, NoCallType DEF Steps
  <2>5. excess' \in [EntityId -> Nat]
    BY <1>1, WalletTypes
  <2> QED  BY <1>1, <1>2, <2>2, <2>3, <2>4, <2>5 DEF TypeOK
<1>5. CallInv'
  <2>1. CallAt("idle", NoCall)'
    BY EndedCall, NoCallType, Ops, OpsAtStep DEF CallAt, NoCall
  <2> QED  BY <1>3, <2>1 DEF CallInv
<1>6. StoresInv'
  BY <1>2, StoresKept
<1>7. MirrorInv'
  BY <1>2, <1>3 DEF EconomyIInv, MirrorInv
<1>8. WalletInv'
  <2>1. WalletBacked'
    BY <1>2 DEF EconomyIInv, WalletInv, WalletBacked
  <2> QED  BY <1>3, <2>1 DEF WalletInv
<1>9. PayInv'
  <2>1. RewardsAccounted'
    BY <1>2 DEF EconomyIInv, PayInv, RewardsAccounted
  <2> QED  BY <1>3, <2>1 DEF PayInv
<1>10. TimeInv'
  <2>1. \A q \in Proc : loc'[q].now <= clock'
    BY <1>2, <1>3, NoCallNow
  <2>2. \A f \in EntityId : lastRun'[f] # None => lastRun'[f] <= clock'
    BY <1>2, TimeParts DEF EconomyIInv
  <2>3. ASSUME NEW f \in EntityId, NEW t \in 1 .. MaxTime PROVE TimeOf(f, t)'
    <3>1. excess'[f] = IF f \in Dead(Proc) THEN excess[f] + 1 ELSE excess[f]
      BY <1>1
    <3>2. \A q \in Proc : ~TicksAt(pc'[q], loc'[q], f)
      BY <1>3 DEF TicksAt
    <3>3. Claims(f, t)' \subseteq Claims(f, t) /\ ~Late(f, t)' /\ \A q : q \notin Claims(f, t)'
      BY <3>2, ClaimsThen, LateThen
    <3>4. Since(f, t)' <=> Since(f, t)
      BY <1>2 DEF Since
    <3>5. credited'[f][t] = credited[f][t]
      BY <1>2
    <3>6. CASE Spare(f, t)' <= Spare(f, t)
      BY <3>1, <3>3, <3>5, <3>6, TimeNoMore
    <3>7. CASE f \in Dead(Proc)
      BY <3>1, <3>3, <3>5, <3>7, PayingKept, TimeNumbers DEF TimeOf
    <3>8. CASE ~(Spare(f, t)' <= Spare(f, t)) /\ f \notin Dead(Proc)
      <4>1. Spare(f, t)' = 1 /\ Spare(f, t) = 0
        BY <3>8, SpareBit
      <4>2. ~Late(f, t) /\ Since(f, t) /\ Ticking(f) # {}
        BY <3>3, <3>4, <4>1 DEF Spare
      <4>3. PICK q \in Proc : TicksAt(pc[q], loc[q], f)
        BY <4>2, TickingNow
      <4>4. ~Applied(q)
        BY <3>8, <4>3, TickingNow, DeadMarked
      <4>5. t <= loc[q].now
        <5>1. t \in Nat /\ loc[q].now \in Nat
          BY CallNow, EconomyBounds DEF Call
        <5> QED  BY <4>2, <4>3, <5>1, LateNow
      <4>6. q \in Claims(f, t)
        BY <4>2, <4>3, <4>4, <4>5, ClaimsNow DEF MayPay, Applied
      <4>7. Paying(f, t)' + 1 <= Paying(f, t)
        BY <3>3, <4>6, PayingLess
      <4> QED  BY <3>1, <3>5, <3>8, <4>1, <4>7, TimeNumbers DEF TimeOf
    <3> QED  BY <3>6, <3>7, <3>8
  <2> QED  BY <2>1, <2>2, <2>3, TimePartsThen
<1> QED  BY <1>4, <1>5, <1>6, <1>7, <1>8, <1>9, <1>10 DEF EconomyIInv

\* Time passes, or nothing happens.
LEMMA SameVars ==
    ASSUME EconomyIInv, clock' \in Nat, clock <= clock', tickAt' = tickAt,
           UNCHANGED <<characterVars, storeVars, entkey, pc, loc, items, obsVars>>
    PROVE  EconomyIInv'
<1>1. /\ rows' = rows /\ rowLock' = rowLock /\ read' = read /\ ledger' = ledger
      /\ (CharacterTypeOK => CharacterTypeOK')
  BY SameCharacters
<1>2. /\ entities' = entities /\ wallet' = wallet /\ assigned' = assigned /\ levels' = levels
      /\ lastRun' = lastRun /\ Mirrored' = Mirrored /\ (StoreTypeOK => StoreTypeOK')
  BY SameStores
<1>3. /\ entkey' = entkey /\ pc' = pc /\ loc' = loc /\ items' = items
      /\ earned' = earned /\ credited' = credited /\ excess' = excess
  BY DEF obsVars
<1>4. TypeOK'
  BY <1>1, <1>2, <1>3 DEF EconomyIInv, TypeOK
<1>5. CallInv' /\ StoresInv' /\ MirrorInv'
  BY <1>2, <1>3 DEF EconomyIInv, CallInv, CallAt, StoresInv, MirrorInv
<1>6. WalletInv'
  BY <1>2, <1>3 DEF EconomyIInv, WalletInv, WalletBacked
<1>7. PayInv'
  BY <1>1, <1>3 DEF EconomyIInv, PayInv, RewardsAccounted
<1>8. TimeInv'
  <2>1. TypeOK /\ clock \in Nat
    BY DEF EconomyIInv, TypeOK
  <2>2. \A q \in Proc : loc'[q].now <= clock'
    <3>1. \A q \in Proc : loc[q].now \in Nat /\ loc[q].now <= clock
      BY CallNow DEF Call
    <3> QED  BY <1>3, <2>1, <3>1
  <2>3. \A f \in EntityId : lastRun'[f] # None => lastRun'[f] <= clock'
    <3>1. \A f \in EntityId : lastRun[f] \in Nat \cup {None} /\ (lastRun[f] # None => lastRun[f] <= clock)
      BY WalletTypes, TimeParts DEF EconomyIInv
    <3> QED  BY <1>2, <2>1, <3>1
  <2>4. ASSUME NEW f \in EntityId, NEW t \in 1 .. MaxTime PROVE TimeOf(f, t)'
    <3>1. \A q : q \in Ticking(f)' <=> q \in Ticking(f)
      BY <1>3, TickingNow, TickingThen
    <3>2. (Late(f, t)' <=> Late(f, t)) /\ (Since(f, t)' <=> Since(f, t))
      BY <1>2, <1>3, LateNow, LateThen DEF Since
    <3>3. Claims(f, t)' \subseteq Claims(f, t)
      BY <1>3, <3>2, ClaimsNow, ClaimsThen
    <3>4. Spare(f, t)' <= Spare(f, t)
      BY <3>1, <3>2 DEF Spare
    <3> QED  BY <1>3, <3>3, <3>4, TimeNoMore
  <2> QED  BY <2>2, <2>3, <2>4, TimePartsThen
<1> QED  BY <1>4, <1>5, <1>6, <1>7, <1>8 DEF EconomyIInv

\* The clock ticks.
LEMMA TickStep == ASSUME EconomyIInv, Tick PROVE EconomyIInv'
<1>1. clock \in Nat
  BY DEF EconomyIInv, TypeOK
<1>2. clock' \in Nat /\ clock <= clock'
  BY <1>1 DEF Tick
<1> QED  BY <1>2, SameVars DEF Tick

\* The first level costs nothing, nothing has been earned towards it, and all gold
\* earned so far is spent.
LEMMA NewAccounts ==
    ASSUME NEW n \in Nat
    PROVE  Accounts(NewCharacter, [gold |-> n, exp |-> 0, spent |-> n]) /\ NewCharacter \in Row
<1>1. XPBelow[1] = 0
  BY XPBelowExists
<1>2. XPForLevel(1) = CurveBase /\ CurveBase > 0
  BY CurveBaseIsPositive DEF XPForLevel
<1> QED  BY <1>1, <1>2 DEF Accounts, NewCharacter, Row, StatGainPerLevel

\* A character that was mirrored by an earlier run, or none, with what was earned for it.
LEMMA InitStores ==
    ASSUME Init
    PROVE  /\ StoreTypeOK /\ earned \in [EntityId -> [Resource -> Nat]]
           /\ wallet = earned
           /\ \A e \in EntityId : lastRun[e] \in {None, 0}
           /\ \A e, f \in Mirrored : e = f
           /\ StoresInv
           /\ \A c \in Character : \E n \in Nat :
                /\ ledger[c] = [gold |-> n, exp |-> 0, spent |-> n]
                /\ \A e \in Mirrored : entities[e] = c => LevelsCost(levels[e]) = n
           /\ ledger \in [Character -> [gold : Nat, exp : Nat, spent : Nat]]
<1>1. Empty \in [Resource -> Nat] /\ Empty = [r \in Resource |-> 0] /\ [b \in Building |-> 0] \in [Building -> Nat]
  BY DEF Empty
<1>2. CASE NewTables
  <2>1. /\ entities = <<>> /\ wallet = [e \in EntityId |-> Empty]
        /\ assigned = [e \in EntityId |-> None] /\ levels = [e \in EntityId |-> [b \in Building |-> 0]]
        /\ lastRun = [e \in EntityId |-> None] /\ earned = [e \in EntityId |-> Empty]
        /\ ledger = [c \in Character |-> [gold |-> 0, exp |-> 0, spent |-> 0]]
    BY <1>1, <1>2 DEF NewTables, StoresInit, NothingYet
  <2>2. Mirrored = {}
    BY <2>1 DEF Mirrored
  <2>3. StoreTypeOK /\ earned \in [EntityId -> [Resource -> Nat]] /\ wallet = earned
    BY <1>1, <2>1, EconomyBounds DEF StoreTypeOK
  <2>4. StoresInv
    BY <2>1 DEF StoresInv
  <2>5. ASSUME NEW c \in Character PROVE ledger[c] = [gold |-> 0, exp |-> 0, spent |-> 0]
    BY <2>1
  <2> QED  BY <2>1, <2>2, <2>3, <2>4, <2>5
<1>3. CASE \E c \in Character, kept \in Earlier : KeptTables(c, kept)
  <2>1. PICK c \in Character, kept \in Earlier : KeptTables(c, kept)
    BY <1>3
  <2> DEFINE n == LevelsCost(kept.levels)
  <2>2. /\ kept.wallet \in [Resource -> Nat] /\ kept.levels \in [Building -> Nat]
        /\ kept.assigned \in Activity \cup {None}
    BY EarlierIsStored DEF Activity
  <2>3. n \in Nat
    BY <2>2, LevelsCostType
  <2> HIDE DEF n
  <2>4. /\ entities = <<c>> /\ wallet = [e \in EntityId |-> IF e = 1 THEN kept.wallet ELSE Empty]
        /\ assigned = [e \in EntityId |-> IF e = 1 THEN kept.assigned ELSE None]
        /\ levels = [e \in EntityId |-> IF e = 1 THEN kept.levels ELSE [b \in Building |-> 0]]
        /\ lastRun = [e \in EntityId |-> IF e = 1 THEN 0 ELSE None]
        /\ earned = [e \in EntityId |-> IF e = 1 THEN kept.wallet ELSE Empty]
    BY <1>1, <2>1 DEF KeptTables, StoresOf
  <2>5. ledger = [d \in Character |-> IF d = c THEN [gold |-> n, exp |-> 0, spent |-> n]
                                      ELSE [gold |-> 0, exp |-> 0, spent |-> 0]]
    BY <2>1 DEF KeptTables, NothingYet, n
  <2>6. 1 \in EntityId /\ Mirrored = {1}
    BY <2>4, EconomyBounds DEF EntityId, Mirrored
  <2>7. entities \in Seq(Character) /\ Len(entities) <= MaxEntities
    BY <2>4, EconomyBounds
  <2>8. StoreTypeOK
    <3>1. wallet \in [EntityId -> [Resource -> Nat]] /\ levels \in [EntityId -> [Building -> Nat]]
      BY <1>1, <2>2, <2>4
    <3>2. assigned \in [EntityId -> Activity \cup {None}] /\ lastRun \in [EntityId -> Nat \cup {None}]
      BY <2>2, <2>4
    <3> QED  BY <2>7, <3>1, <3>2 DEF StoreTypeOK
  <2>9. earned \in [EntityId -> [Resource -> Nat]] /\ wallet = earned
    BY <1>1, <2>2, <2>4
  <2>10. StoresInv
    BY <2>4, <2>6 DEF StoresInv
  <2>11. ASSUME NEW d \in Character
         PROVE  \E m \in Nat : /\ ledger[d] = [gold |-> m, exp |-> 0, spent |-> m]
                               /\ \A e \in Mirrored : entities[e] = d => LevelsCost(levels[e]) = m
    <3>1. CASE d = c
      <4>1. ledger[d] = [gold |-> n, exp |-> 0, spent |-> n]
        BY <2>5, <3>1
      <4>2. levels[1] = kept.levels
        BY <2>4, <2>6
      <4>3. \A e \in Mirrored : LevelsCost(levels[e]) = n
        BY <2>6, <4>2 DEF n
      <4> QED  BY <2>3, <4>1, <4>3
    <3>2. CASE d # c
      <4>1. ledger[d] = [gold |-> 0, exp |-> 0, spent |-> 0]
        BY <2>5, <3>2
      <4>2. \A e \in Mirrored : entities[e] # d
        BY <2>4, <2>6, <3>2
      <4> QED  BY <4>1, <4>2
    <3> QED  BY <3>1, <3>2
  <2>12. ledger \in [Character -> [gold : Nat, exp : Nat, spent : Nat]]
    BY <2>3, <2>5
  <2>13. \A e \in EntityId : lastRun[e] \in {None, 0}
    BY <2>4
  <2> QED  BY <2>6, <2>8, <2>9, <2>10, <2>11, <2>12, <2>13
<1> QED  BY <1>2, <1>3 DEF Init

\* The first state satisfies the invariant.
LEMMA InitInv == ASSUME Init PROVE EconomyIInv
<1>1. /\ rows = [c \in Character |-> NewCharacter] /\ rowLock = [c \in Character |-> NoProc]
      /\ read = [p \in Proc |-> NewCharacter] /\ derived = [c \in Character |-> [base |-> 0, worn |-> 0]]
      /\ worn = [c \in Character |-> 0]
  BY DEF Init, RowsInit
<1>2. /\ StoreTypeOK /\ earned \in [EntityId -> [Resource -> Nat]] /\ wallet = earned
      /\ \A e \in EntityId : lastRun[e] \in {None, 0}
      /\ \A e, f \in Mirrored : e = f
      /\ StoresInv
      /\ ledger \in [Character -> [gold : Nat, exp : Nat, spent : Nat]]
  BY InitStores
<1>3. /\ clock = 0 /\ tickAt = 0 /\ entkey = NoProc /\ pc = [p \in Proc |-> "idle"]
      /\ loc = [p \in Proc |-> NoCall] /\ items = [c \in Character |-> [x \in Recipe |-> 0]]
      /\ credited = [e \in EntityId |-> [t \in 1 .. MaxTime |-> 0]]
      /\ excess = [e \in EntityId |-> 0]
  BY DEF Init
<1>4. \A p \in Proc : pc[p] = "idle" /\ loc[p] = NoCall
  BY <1>3
<1>5. TypeOK
  <2>1. CharacterTypeOK
    <3>1. NewCharacter \in Row
      BY DEF NewCharacter, Row
    <3> QED  BY <1>1, <1>2, <3>1 DEF CharacterTypeOK
  <2>2. pc \in [Proc -> Steps] /\ loc \in [Proc -> Call]
    BY <1>3, NoCallType DEF Steps
  <2>3. [t \in 1 .. MaxTime |-> 0] \in [1 .. MaxTime -> Nat]
    OBVIOUS
  <2>4. credited \in [EntityId -> [1 .. MaxTime -> Nat]] /\ excess \in [EntityId -> Nat]
    BY <1>3, <2>3
  <2> QED  BY <1>2, <1>3, <2>1, <2>2, <2>4 DEF TypeOK
<1>6. CallInv
  BY <1>4, EndedCall DEF CallInv
<1>7. MirrorInv
  BY <1>2, <1>4 DEF MirrorInv
<1>8. WalletInv
  <2>1. \A e \in EntityId, r \in Resource : wallet[e][r] \in Nat /\ wallet[e][r] = earned[e][r]
    BY <1>2 DEF StoreTypeOK
  <2>2. WalletBacked
    BY <2>1 DEF WalletBacked
  <2> QED  BY <1>4, <2>2 DEF WalletInv
<1>9. PayInv
  <2>1. ASSUME NEW c \in Character PROVE Accounts(rows[c], ledger[c])
    <3>1. PICK n \in Nat : ledger[c] = [gold |-> n, exp |-> 0, spent |-> n]
      BY InitStores
    <3>2. rows[c] = NewCharacter
      BY <1>1
    <3> QED  BY <3>1, <3>2, NewAccounts
  <2>2. RewardsAccounted
    BY <2>1, AccountsNow
  <2> QED  BY <1>4, <2>2 DEF PayInv
<1>10. TimeInv
  <2>1. \A p \in Proc : loc[p].now <= clock
    <3>1. NoCall.now = 0
      BY DEF NoCall
    <3>2. clock = 0
      BY <1>3
    <3>3. ASSUME NEW p \in Proc PROVE loc[p].now <= clock
      <4>1. loc[p].now = 0
        BY <1>4, <3>1, Zenon
      <4> QED  BY <3>2, <4>1
    <3> QED  BY <3>3
  <2>2. \A e \in EntityId : lastRun[e] # None => lastRun[e] <= clock
    BY <1>2, <1>3
  <2>3. ASSUME NEW e \in EntityId, NEW t \in 1 .. MaxTime PROVE TimeOf(e, t)
    <3>1. Claims(e, t) = {}
      BY <1>4, ClaimsNow DEF TicksAt
    <3>2. Paying(e, t) = 0
      BY <3>1, FS_EmptySet DEF Paying
    <3>3. credited[e][t] = 0 /\ excess[e] = 0
      BY <1>3
    <3> QED  BY <3>2, <3>3, SpareBit DEF TimeOf
  <2> QED  BY <2>1, <2>2, <2>3, TimeParts
<1> QED  BY <1>2, <1>5, <1>6, <1>7, <1>8, <1>9, <1>10 DEF EconomyIInv

\* Every step keeps it.
LEMMA NextInv == ASSUME EconomyIInv, [Next]_vars PROVE EconomyIInv'
<1>1. CASE Tick
  BY <1>1, TickStep
<1>2. CASE runTicker
  BY <1>2, TickerStep
<1>3. CASE Crash
  BY <1>3, CrashStep
<1>4. ASSUME NEW p \in Proc, Step(p) PROVE EconomyIInv'
  BY <1>4, MirrorLockStep, MirrorStep, ViewStep, AssignStep, TickAllStep, NextEntityStep, NowStep, LastRunStep,
     AccrueStep, EarnReadStep, EarnStep, RecordStep, LockRowStep, AddRewardsStep, RecalculateStep,
     SpendGoldStep, BalancesStep, DebitReadStep, CreditStep, GrantItemStep, ReadLevelsStep, RaiseStep
     DEF Step
<1>5. ASSUME NEW p \in Proc, DbError(p) PROVE EconomyIInv'
  BY <1>5, DbErrorStep
<1>6. ASSUME NEW p \in Proc, NEW u \in User, NEW c \in Character,
           \/ LoggedIn(p, c) /\ u = Owner[c]
           \/ StateHandler(p, u, c)
           \/ \E a \in Activity \cup {None} : AssignHandler(p, u, c, a)
           \/ \E x \in Recipe : CraftHandler(p, u, c, x)
           \/ \E b \in Building : UpgradeHandler(p, u, c, b)
      PROVE  EconomyIInv'
  BY <1>6, RequestsStep
<1>7. CASE UNCHANGED vars
  <2>1. clock \in Nat
    BY DEF EconomyIInv, TypeOK
  <2> QED  BY <1>7, <2>1, SameVars DEF vars, timeVars
<1> QED  BY <1>1, <1>2, <1>3, <1>4, <1>5, <1>6, <1>7 DEF Next

-----------------------------------------------------------------------------
\* Theorems.

\* The inductive invariant of ticks, logins, crafts and upgrades: what each call has
\* established at its step, the mutex of mirror, the row locks and what the
\* transactions have read, what was banked and which time was paid for.
THEOREM EconomyInvariant == Spec => []EconomyIInv
<1>1. Init => EconomyIInv
  BY InitInv
<1>2. EconomyIInv /\ [Next]_vars => EconomyIInv'
  BY NextInv
<1> QED  BY <1>1, <1>2, PTL DEF Spec

\* Rows, stores, calls and counts stay of their types (natural balances among them).
THEOREM EconomyTypes == Spec => []TypeOK
<1>1. EconomyIInv => TypeOK
  BY DEF EconomyIInv
<1> QED  BY <1>1, EconomyInvariant, PTL

\* However many logins and requests are the first to mirror a character, it has one
\* entity (idlekit/plugin.go:177).
THEOREM MirroredOnce == Spec => []OneMirror
<1>1. ASSUME EconomyIInv PROVE OneMirror
  <2>1. SUFFICES ASSUME NEW c \in Character PROVE Cardinality(ListByOwner(c)) <= 1
    BY DEF OneMirror
  <2>2. \A e, f \in ListByOwner(c) : e = f
    BY <1>1 DEF EconomyIInv, MirrorInv, Mirrored, ListByOwner
  <2>3. CASE ListByOwner(c) = {}
    BY <2>3, FS_EmptySet
  <2>4. CASE ListByOwner(c) # {}
    <3>1. PICK e : ListByOwner(c) = {e}
      BY <2>2, <2>4
    <3> QED  BY <3>1, FS_Singleton
  <2> QED  BY <2>3, <2>4
<1> QED  BY <1>1, EconomyInvariant, PTL

\* Wallets are read and written back without a lock, and yet no balance is negative
\* or more than was banked (economy.go's Earn and Credit).
THEOREM WalletsBacked == Spec => []WalletBacked
<1>1. EconomyIInv => WalletBacked
  BY DEF EconomyIInv, WalletInv
<1> QED  BY <1>1, EconomyInvariant, PTL

\* A second of an entity's time is paid for once, and once more at the most for each of
\* its ticks that began while another was under way or that failed after it was
\* applied; late statements and overwritten last runs pay for nothing else
\* (scheduler.go:88-100).
THEOREM PaidOnce == Spec => []TimePaidOnce
<1>1. ASSUME EconomyIInv PROVE TimePaidOnce
  <2>1. SUFFICES ASSUME NEW e \in EntityId, NEW t \in 1 .. MaxTime PROVE credited[e][t] <= 1 + excess[e]
    BY DEF TimePaidOnce
  <2> QED  BY <1>1, TimeNumbers DEF TimeOf
<1> QED  BY <1>1, EconomyInvariant, PTL

\* A character's row is what was granted minus what was spent, and its level is the
\* one its experience is worth, whoever pays and charges it at the same time
\* (repository.go:187-305, with the loop of progression.Apply).
THEOREM RowsAccounted == Spec => []RewardsAccounted
<1>1. EconomyIInv => RewardsAccounted
  BY DEF EconomyIInv, PayInv
<1> QED  BY <1>1, EconomyInvariant, PTL

-----------------------------------------------------------------------------
\* What items and calls in progress have cost.

\* What items have cost.
LEMMA ItemsCostType ==
    ASSUME TypeOK, NEW c \in Character
    PROVE  ItemsCost(c) \in Nat
<1> DEFINE f == [x \in Recipe |-> items[c][x] * GoldCost[x]]
<1>1. ASSUME NEW x \in Recipe PROVE f[x] \in Nat
  <2>1. items[c] \in [Recipe -> Nat] /\ GoldCost[x] \in Nat
    BY ContentIsNatural DEF TypeOK
  <2>2. items[c][x] \in Nat
    BY <2>1
  <2> QED  BY <2>1, <2>2
<1> HIDE DEF f
<1>2. SumFunctionOnSet(f, Recipe) \in Nat
  BY <1>1, ContentIsFinite, SumSame
<1> QED  BY <1>2 DEF ItemsCost, f

\* An item adds its recipe's cost to its owner's items.
LEMMA ItemGranted ==
    ASSUME TypeOK, NEW c \in Character, NEW x \in Recipe, items' = [items EXCEPT ![c][x] = @ + 1]
    PROVE  /\ ItemsCost(c)' = ItemsCost(c) + GoldCost[x]
           /\ \A d \in Character \ {c} : ItemsCost(d)' = ItemsCost(d)
<1> DEFINE f == [y \in Recipe |-> items[c][y] * GoldCost[y]]
           g == [y \in Recipe |-> items'[c][y] * GoldCost[y]]
<1>1. items \in [Character -> [Recipe -> Nat]]
  BY DEF TypeOK
<1>2. /\ items'[c] \in [Recipe -> Nat] /\ items[c] \in [Recipe -> Nat] /\ items'[c][x] = items[c][x] + 1
      /\ \A y \in Recipe \ {x} : items'[c][y] = items[c][y]
      /\ \A d \in Character \ {c} : items'[d] = items[d]
  BY <1>1
<1>3. ASSUME NEW y \in Recipe
      PROVE  GoldCost[y] \in Nat /\ items[c][y] \in Nat /\ items'[c][y] \in Nat
  BY <1>2, ContentIsNatural
<1>4. \A y \in Recipe : f[y] \in Nat /\ g[y] \in Nat
  BY <1>3
<1>5. \A y \in Recipe \ {x} : f[y] = g[y]
  BY <1>2
<1>6. g[x] = f[x] + GoldCost[x]
  <2> DEFINE n == items[c][x]
             a == GoldCost[x]
  <2>1. f[x] = n * a /\ g[x] = (n + 1) * a /\ n \in Nat /\ a \in Nat
    BY <1>2, <1>3
  <2> HIDE DEF n, a, f, g
  <2>2. (n + 1) * a = n * a + a
    BY <2>1
  <2> QED  BY <2>1, <2>2 DEF a
<1>7. ItemsCost(c) = SumFunctionOnSet(f, Recipe) /\ ItemsCost(c)' = SumFunctionOnSet(g, Recipe)
  BY DEF ItemsCost
<1>8. \A d \in Character \ {c} : ItemsCost(d)' = ItemsCost(d)
  BY <1>2 DEF ItemsCost
<1>9. GoldCost[x] \in Nat /\ f[x] \in Nat
  BY <1>3, <1>4
<1> HIDE DEF f, g
<1>10. /\ SumFunctionOnSet(f, Recipe) \in Nat /\ SumFunctionOnSet(g, Recipe) \in Nat
       /\ SumFunctionOnSet(f, Recipe) + g[x] = SumFunctionOnSet(g, Recipe) + f[x]
  BY <1>4, <1>5, ContentIsFinite, SumChange
<1> QED  BY <1>6, <1>7, <1>8, <1>9, <1>10

\* The calls whose debt Owed can put in gold.
Priced(s, r) ==
    /\ r \in Call
    /\ r.op = "debit" => r.arg \in Recipe
    /\ s = "raise" => r.arg \in Building

\* Every call at its step is one of them, now and after a step.
LEMMA PricedNow ==
    ASSUME NEW s, NEW r \in Call, CallAt(s, r)
    PROVE  Priced(s, r)
  BY OpsAtStep DEF CallAt, Priced

\* What a paid call still owes its owner has a price.
LEMMA PricedCalls ==
    ASSUME EconomyIInv, NEW q \in Proc
    PROVE  Priced(pc[q], loc[q])
<1>1. loc[q] \in Call /\ CallAt(pc[q], loc[q])
  BY DEF EconomyIInv, TypeOK, CallInv
<1> QED  BY <1>1, PricedNow

\* A debt is an amount of gold.
LEMMA OwedType ==
    ASSUME NEW s, NEW r, Priced(s, r), NEW c
    PROVE  Owed(s, r, c) \in Nat
<1>1. r.op = "debit" => GoldCost[r.arg] \in Nat
  BY ContentIsNatural DEF Priced
<1>2. s = "raise" => UpgradeCost(r.arg, r.level[r.arg]) \in Nat
  <2>1. s = "raise" => r.arg \in Building /\ r.level[r.arg] \in Nat
    BY DEF Priced, Call
  <2> QED  BY <2>1, CostType
<1> QED  BY <1>1, <1>2 DEF Owed

\* When one goroutine moves, the debts change by its own.
LEMMA PendingMoves ==
    ASSUME EconomyIInv, NEW p \in Proc, NEW s, NEW r, Moves(p, s, r), Priced(s, r), NEW c \in Character
    PROVE  /\ Pending(c) \in Nat /\ Pending(c)' \in Nat
           /\ Owed(s, r, c) \in Nat /\ Owed(pc[p], loc[p], c) \in Nat
           /\ Pending(c)' + Owed(pc[p], loc[p], c) = Pending(c) + Owed(s, r, c)
<1> DEFINE f == [q \in Proc |-> Owed(pc[q], loc[q], c)]
           g == [q \in Proc |-> Owed(pc'[q], loc'[q], c)]
<1>1. pc'[p] = s /\ loc'[p] = r /\ \A q \in Proc \ {p} : pc'[q] = pc[q] /\ loc'[q] = loc[q]
  BY MovesOne DEF EconomyIInv
<1>2. Owed(s, r, c) \in Nat /\ \A q \in Proc : Owed(pc[q], loc[q], c) \in Nat
  BY PricedCalls, OwedType
<1>3. \A q \in Proc : f[q] \in Nat
  BY <1>2
<1>4. f[p] = Owed(pc[p], loc[p], c) /\ g[p] = Owed(s, r, c)
  BY <1>1
<1>5. \A q \in Proc \ {p} : g[q] = f[q]
  BY <1>1
<1>6. Pending(c) = SumFunctionOnSet(f, Proc) /\ Pending(c)' = SumFunctionOnSet(g, Proc)
  BY DEF Pending, Owed
<1> HIDE DEF f, g
<1>7. \A q \in Proc : g[q] \in Nat
  BY <1>2, <1>3, <1>4, <1>5
<1>8. /\ SumFunctionOnSet(f, Proc) \in Nat /\ SumFunctionOnSet(g, Proc) \in Nat
      /\ SumFunctionOnSet(f, Proc) + g[p] = SumFunctionOnSet(g, Proc) + f[p]
  BY <1>3, <1>5, <1>7, ContentIsFinite, SumChange
<1> QED  BY <1>2, <1>4, <1>6, <1>8

\* A step in which p pays, is granted or forgets no more than it had to leaves what
\* was covered covered.
Balanced(p, s, r, c) ==
    ItemsCost(c)' + Owed(s, r, c) + ledger[c].spent <= ItemsCost(c) + Owed(pc[p], loc[p], c) + ledger'[c].spent

StillCovered(c, v) == LevelsCost(v) + ItemsCost(c)' + Pending(c)' <= ledger'[c].spent

\* Amounts of gold.
LEMMA Amounts ==
    ASSUME EconomyIInv, EconomyIInv', NEW c \in Character
    PROVE  /\ ItemsCost(c) \in Nat /\ ItemsCost(c)' \in Nat
           /\ ledger[c].spent \in Nat /\ ledger'[c].spent \in Nat
<1>1. TypeOK /\ TypeOK'
  BY DEF EconomyIInv
<1>2. ItemsCost(c) \in Nat
  BY <1>1, ItemsCostType
<1>3. ItemsCost(c)' \in Nat
  <2> DEFINE f == [x \in Recipe |-> items'[c][x] * GoldCost[x]]
  <2>1. ASSUME NEW x \in Recipe PROVE f[x] \in Nat
    <3>1. items'[c] \in [Recipe -> Nat] /\ GoldCost[x] \in Nat
      BY <1>1, ContentIsNatural DEF TypeOK
    <3>2. items'[c][x] \in Nat
      BY <3>1
    <3> QED  BY <3>1, <3>2
  <2> HIDE DEF f
  <2>2. SumFunctionOnSet(f, Recipe) \in Nat
    BY <2>1, ContentIsFinite, SumSame
  <2> QED  BY <2>2 DEF ItemsCost, f
<1>4. ledger[c] \in [gold : Nat, exp : Nat, spent : Nat] /\ ledger'[c] \in [gold : Nat, exp : Nat, spent : Nat]
  BY <1>1 DEF TypeOK, CharacterTypeOK
<1> QED  BY <1>2, <1>3, <1>4

\* Levels stay covered when a call's debt and the owner's spending balance.
LEMMA CoveredKept ==
    ASSUME EconomyIInv, EconomyIInv', NEW p \in Proc, NEW s, NEW r, Moves(p, s, r), Priced(s, r),
           NEW c \in Character, Balanced(p, s, r, c), NEW v \in [Building -> Nat], Covered(c, v)
    PROVE  StillCovered(c, v)
<1>1. /\ ItemsCost(c) \in Nat /\ ItemsCost(c)' \in Nat
      /\ ledger[c].spent \in Nat /\ ledger'[c].spent \in Nat
  BY Amounts
<1>2. /\ Pending(c) \in Nat /\ Pending(c)' \in Nat
      /\ Owed(s, r, c) \in Nat /\ Owed(pc[p], loc[p], c) \in Nat
      /\ Pending(c)' + Owed(pc[p], loc[p], c) = Pending(c) + Owed(s, r, c)
  BY PendingMoves
<1>3. LevelsCost(v) \in Nat
  BY LevelsCostType
<1> QED  BY <1>1, <1>2, <1>3 DEF Balanced, Covered, StillCovered

\* What is left to show of PurchaseInv' when StillCovered is known.
LEMMA CoveredThen ==
    ASSUME EconomyIInv, NEW p \in Proc, NEW s, NEW r, Moves(p, s, r),
           \A c \in Character :
              /\ StillCovered(c, [b \in Building |-> 0])
              /\ \A e \in Mirrored' : entities'[e] = c => StillCovered(c, levels'[e])
              /\ \A q \in Proc \ {p} : Upgrading(pc[q], loc[q], c) => StillCovered(c, loc[q].level)
              /\ Upgrading(s, r, c) => StillCovered(c, r.level)
    PROVE  PurchaseInv'
<1>1. pc'[p] = s /\ loc'[p] = r /\ \A q \in Proc \ {p} : pc'[q] = pc[q] /\ loc'[q] = loc[q]
  BY MovesOne DEF EconomyIInv
<1>2. \A c, v : StillCovered(c, v) <=> LevelsCost(v) + ItemsCost(c)' + Pending(c)' <= ledger'[c].spent
  BY DEF StillCovered
<1>3. ASSUME NEW c \in Character, NEW q \in Proc, Upgrading(pc'[q], loc'[q], c)
      PROVE  StillCovered(c, loc'[q].level)
  BY <1>1, <1>3
<1>4. ASSUME NEW c \in Character, NEW q \in Proc, Upgrading(pc[q], loc[q], c)'
      PROVE  Covered(c, loc[q].level)'
  <2>1. Upgrading(pc'[q], loc'[q], c)
    BY <1>4 DEF Upgrading
  <2> QED  BY <1>3, <2>1 DEF Covered, StillCovered
<1>5. ASSUME NEW c \in Character
      PROVE  /\ Covered(c, [b \in Building |-> 0])'
             /\ \A e \in Mirrored' : entities'[e] = c => Covered(c, levels[e])'
  BY DEF Covered, StillCovered
<1> QED  BY <1>4, <1>5 DEF PurchaseInv

\* Steps that change no level.
LEMMA PurchaseStep ==
    ASSUME EconomyIInv, EconomyIInv', PurchaseInv, NEW p \in Proc, NEW s, NEW r, Moves(p, s, r), Priced(s, r),
           entities' = entities, levels' = levels,
           \A c \in Character : Balanced(p, s, r, c),
           \A c \in Character : Upgrading(s, r, c) => Covered(c, r.level)
    PROVE  PurchaseInv'
<1>1. /\ Mirrored' = Mirrored /\ r \in Call /\ levels \in [EntityId -> [Building -> Nat]] /\ loc \in [Proc -> Call]
      /\ Mirrored \subseteq EntityId
  BY MirroredIds DEF Mirrored, Moves, EconomyIInv, TypeOK, StoreTypeOK
<1>2. ASSUME NEW c \in Character
      PROVE  /\ StillCovered(c, [b \in Building |-> 0])
             /\ \A e \in Mirrored' : entities'[e] = c => StillCovered(c, levels'[e])
             /\ \A q \in Proc \ {p} : Upgrading(pc[q], loc[q], c) => StillCovered(c, loc[q].level)
             /\ Upgrading(s, r, c) => StillCovered(c, r.level)
  <2>1. \A v \in [Building -> Nat] : Covered(c, v) => StillCovered(c, v)
    BY CoveredKept
  <2>2. /\ [b \in Building |-> 0] \in [Building -> Nat] /\ r.level \in [Building -> Nat]
        /\ \A q \in Proc : loc[q].level \in [Building -> Nat]
        /\ \A e \in Mirrored : levels[e] \in [Building -> Nat]
    BY <1>1 DEF Call
  <2>3. /\ Covered(c, [b \in Building |-> 0])
        /\ \A e \in Mirrored : entities[e] = c => Covered(c, levels[e])
        /\ \A q \in Proc : Upgrading(pc[q], loc[q], c) => Covered(c, loc[q].level)
    BY DEF PurchaseInv
  <2> QED  BY <1>1, <2>1, <2>2, <2>3
<1> QED  BY <1>2, CoveredThen

\* Nothing is paid, granted or raised.
Idle == entities' = entities /\ levels' = levels /\ items' = items
        /\ \A c \in Character : ledger'[c].spent = ledger[c].spent

\* The same items cost the same.
LEMMA SameItems == ASSUME items' = items PROVE \A c : ItemsCost(c)' = ItemsCost(c)
  BY DEF ItemsCost

\* A call that has paid for nothing.
LEMMA PurchaseCalm ==
    ASSUME EconomyIInv, EconomyIInv', PurchaseInv, NEW p \in Proc, NEW s, NEW r, Moves(p, s, r), CallAt(s, r),
           Idle, r.op # "debit", r.op = "upgrade" => s = "levels"
    PROVE  PurchaseInv'
<1>1. s # "raise" /\ r \in Call
  BY OpsAtStep DEF CallAt, Moves
<1>2. Priced(s, r)
  BY <1>1, PricedNow
<1>3. ASSUME NEW c \in Character PROVE Balanced(p, s, r, c) /\ ~Upgrading(s, r, c)
  <2>1. Owed(s, r, c) = 0 /\ ~Upgrading(s, r, c)
    BY <1>1 DEF Owed, Upgrading
  <2>2. Owed(pc[p], loc[p], c) \in Nat
    BY PricedCalls, OwedType
  <2>3. ItemsCost(c) \in Nat /\ ledger[c].spent \in Nat /\ ledger'[c].spent \in Nat
    BY Amounts
  <2>4. ItemsCost(c)' = ItemsCost(c) /\ ledger'[c].spent = ledger[c].spent
    BY SameItems DEF Idle
  <2> QED  BY <2>1, <2>2, <2>3, <2>4 DEF Balanced
<1> QED  BY <1>2, <1>3, PurchaseStep DEF Idle

\* A call that goes on as what it was.
LEMMA PurchaseSame ==
    ASSUME EconomyIInv, EconomyIInv', PurchaseInv, NEW p \in Proc, NEW s, NEW r, Moves(p, s, r), Priced(s, r),
           Idle, r.op = loc[p].op, r.char = loc[p].char, r.arg = loc[p].arg, r.level = loc[p].level,
           s # "raise", pc[p] # "raise", r.op = "upgrade" => pc[p] \in {"lock", "pay"}
    PROVE  PurchaseInv'
<1>1. ASSUME NEW c \in Character PROVE Balanced(p, s, r, c)
  <2>1. Owed(s, r, c) = Owed(pc[p], loc[p], c)
    BY DEF Owed
  <2>2. Owed(pc[p], loc[p], c) \in Nat
    BY PricedCalls, OwedType
  <2>3. ItemsCost(c) \in Nat /\ ledger[c].spent \in Nat /\ ledger'[c].spent \in Nat
    BY Amounts
  <2>4. ItemsCost(c)' = ItemsCost(c) /\ ledger'[c].spent = ledger[c].spent
    BY SameItems DEF Idle
  <2> QED  BY <2>1, <2>2, <2>3, <2>4 DEF Balanced
<1>2. ASSUME NEW c \in Character, Upgrading(s, r, c) PROVE Covered(c, r.level)
  BY <1>2 DEF Upgrading, PurchaseInv
<1> QED  BY <1>1, <1>2, PurchaseStep DEF Idle

\* Steps that leave characters, stores and items alone.
LEMMA NothingBought ==
    ASSUME UNCHANGED <<characterVars, storeVars, items>>
    PROVE  Idle
<1>1. entities' = entities /\ levels' = levels /\ items' = items /\ ledger' = ledger
  BY DEF characterVars, storeVars, rowVars, statVars
<1> QED  BY <1>1 DEF Idle

\* A call that ends without a purchase leaves them paid.
LEMMA PurchaseEnds ==
    ASSUME EconomyIInv, EconomyIInv', PurchaseInv, NEW p \in Proc, Moves(p, "idle", NoCall), Idle
    PROVE  PurchaseInv'
<1>1. NoCall.op = "none"
  BY DEF NoCall
<1> QED  BY <1>1, EndedCall, PurchaseCalm

\* The state of the proof that a step keeps PurchaseInv.
Paid == EconomyIInv /\ EconomyIInv' /\ PurchaseInv

\* A request arrives.
LEMMA BeginPaid ==
    ASSUME Paid, NEW p \in Proc, NEW c \in Character,
           NEW op \in DOMAIN After \cup {"upgrade"}, NEW first \in {"mirror", "levels"},
           NEW a \in Activity \cup Recipe \cup {None, NoProc},
           op = "upgrade" <=> first = "levels", op # "debit",
           op \in {"balance", "debit"} => a \in Recipe, op = "upgrade" => a \in Building,
           Begin(p, op, c, a, first)
    PROVE  PurchaseInv'
<1> DEFINE r == [loc[p] EXCEPT !.op = op, !.char = c, !.arg = a]
<1>1. EconomyIInv /\ EconomyIInv' /\ PurchaseInv
  BY DEF Paid
<1>2. Moves(p, first, r) /\ CallAt(first, r)
  BY <1>1, BeginForm
<1>3. r.op = op
  BY <1>1 DEF EconomyIInv, TypeOK, Call
<1>4. Idle
  BY NothingBought DEF Begin
<1> HIDE DEF r
<1> QED  BY <1>1, <1>2, <1>3, <1>4, PurchaseCalm

\* Requests that begin owe nothing yet.
LEMMA RequestsPaid ==
    ASSUME Paid, NEW p \in Proc, NEW u \in User, NEW c \in Character,
           \/ LoggedIn(p, c) /\ u = Owner[c]
           \/ StateHandler(p, u, c)
           \/ \E a \in Activity \cup {None} : AssignHandler(p, u, c, a)
           \/ \E x \in Recipe : CraftHandler(p, u, c, x)
           \/ \E b \in Building : UpgradeHandler(p, u, c, b)
    PROVE  PurchaseInv'
<1>1. CASE LoggedIn(p, c)
  BY <1>1, BeginPaid, Ops DEF LoggedIn
<1>2. CASE StateHandler(p, u, c)
  BY <1>2, BeginPaid, Ops DEF StateHandler
<1>3. CASE \E a \in Activity \cup {None} : AssignHandler(p, u, c, a)
  BY <1>3, BeginPaid, Ops DEF AssignHandler
<1>4. CASE \E x \in Recipe : CraftHandler(p, u, c, x)
  BY <1>4, BeginPaid, Ops DEF CraftHandler
<1>5. CASE \E b \in Building : UpgradeHandler(p, u, c, b)
  BY <1>5, BeginPaid, Ops DEF UpgradeHandler, Activity
<1> QED  BY <1>1, <1>2, <1>3, <1>4, <1>5

\* Goroutines that tick, and requests that end.
LEMMA TicksPaid ==
    ASSUME Paid, NEW p \in Proc, NEW s, NEW r, Moves(p, s, r), CallAt(s, r), Idle,
           s \in {"query", "next", "now", "last", "accrue", "earn", "bank", "record", "stats"}
    PROVE  PurchaseInv'
<1>1. r.op \in {"tick", "catchup"}
  BY OpsAtStep DEF CallAt
<1> QED  BY <1>1, PurchaseCalm DEF Paid

\* The ticker buys nothing.
LEMMA TickerPaid == ASSUME Paid, runTicker PROVE PurchaseInv'
<1>1. Idle
  BY NothingBought DEF runTicker
<1> QED  BY <1>1, TicksPaid, TickerForm, TickerIsAProc DEF Paid

\* Nor does a tick on its way, or a view.
LEMMA TickingPaid ==
    ASSUME Paid, NEW p \in Proc,
           \/ View(p) \/ TickAll(p) \/ NextEntity(p) \/ Now(p) \/ LastRun(p) \/ EarnRead(p)
    PROVE  PurchaseInv'
<1>1. Idle
  BY NothingBought DEF View, TickAll, NextEntity, Now, LastRun, EarnRead
<1>2. CASE View(p)
  BY <1>1, <1>2, FinishMoves, PurchaseEnds DEF Paid, View, EconomyIInv
<1>3. CASE TickAll(p)
  BY <1>1, <1>3, TickAllForm, TicksPaid DEF Paid
<1>4. CASE NextEntity(p)
  BY <1>1, <1>4, NextEntityForm, TicksPaid, PurchaseEnds DEF Paid
<1>5. CASE LastRun(p)
  BY <1>1, <1>5, LastRunForm, TicksPaid DEF Paid
<1>6. CASE EarnRead(p)
  BY <1>1, <1>6, EarnReadForm, TicksPaid DEF Paid
<1>7. CASE Now(p)
  BY <1>1, <1>7, NowForm, TicksPaid DEF Paid
<1> QED  BY <1>2, <1>3, <1>4, <1>5, <1>6, <1>7

\* Nor the computation of output.
LEMMA AccruePaid == ASSUME Paid, NEW p \in Proc, Accrue(p) PROVE PurchaseInv'
<1>1. Idle
  BY NothingBought DEF Accrue
<1>2. loc[p] \in Call /\ pc[p] = "accrue" /\ CallAt(pc[p], loc[p])
  BY DEF Paid, Accrue, At, EconomyIInv, TypeOK, CallInv
<1>3. PICK o \in Output, c \in Character, s \in {"lock", "earn", "record"} :
        LET r == [loc[p] EXCEPT !.out = o, !.char = c] IN Moves(p, s, r) /\ CallAt(s, r)
  BY AccrueForm DEF Paid
<1> DEFINE r == [loc[p] EXCEPT !.out = o, !.char = c]
<1>4. r.op \in {"tick", "catchup"} /\ Moves(p, s, r) /\ CallAt(s, r)
  BY <1>2, <1>3, OpsAtStep DEF CallAt, Call
<1> HIDE DEF r
<1> QED  BY <1>1, <1>4, PurchaseCalm DEF Paid

\* Ticks that write.
LEMMA WritingPaid ==
    ASSUME Paid, NEW p \in Proc, \/ Earn(p) \/ Record(p) \/ Assign(p) \/ RecalculateStats(p)
    PROVE  PurchaseInv'
<1>1. Idle
  BY DEF Earn, Record, Assign, RecalculateStats, characterVars, Idle, storeVars
<1>2. CASE Earn(p)
  BY <1>1, <1>2, EarnForm, TicksPaid DEF Paid
<1>3. CASE Record(p)
  BY <1>1, <1>3, RecordForm, TicksPaid, PurchaseEnds DEF Paid
<1>4. CASE Assign(p)
  BY <1>1, <1>4, FinishMoves, PurchaseEnds DEF Paid, Assign, EconomyIInv
<1>5. CASE RecalculateStats(p)
  BY <1>1, <1>5, RecalculateForm, TicksPaid DEF Paid
<1> QED  BY <1>2, <1>3, <1>4, <1>5

\* Rewards leave what was spent as it is.
LEMMA AddRewardsPaid == ASSUME Paid, NEW p \in Proc, AddRewards(p) PROVE PurchaseInv'
<1> DEFINE c == loc[p].char
<1>1. PICK s \in {"stats", "record"} : Moves(p, s, loc[p]) /\ CallAt(s, loc[p]) /\ c \in Character
  BY AddRewardsForm DEF Paid
<1>2. ledger \in [Character -> [gold : Nat, exp : Nat, spent : Nat]]
  BY DEF Paid, EconomyIInv, TypeOK, CharacterTypeOK
<1>3. ledger' = [ledger EXCEPT ![c].gold = @ + loc[p].out.gold, ![c].exp = @ + loc[p].out.exp]
      /\ entities' = entities /\ levels' = levels /\ items' = items
  BY DEF AddRewards, WriteRewards, storeVars
<1>4. \A d \in Character : ledger'[d].spent = ledger[d].spent
  BY <1>1, <1>2, <1>3
<1>5. Idle
  BY <1>3, <1>4 DEF Idle
<1> QED  BY <1>1, <1>5, TicksPaid DEF Paid

\* Calls that only learn something.
LEMMA MirrorLockPaid == ASSUME Paid, NEW p \in Proc, MirrorLock(p) PROVE PurchaseInv'
<1>1. Idle
  BY NothingBought DEF MirrorLock
<1>2. loc[p] \in Call /\ pc[p] = "mirror" /\ CallAt(pc[p], loc[p])
  BY DEF Paid, MirrorLock, At, EconomyIInv, TypeOK, CallInv
<1>3. loc[p].op # "upgrade" /\ After[loc[p].op] # "raise"
  BY <1>2, Ops, OpsAtStep DEF CallAt
<1>4. CASE Moves(p, "create", loc[p]) /\ CallAt("create", loc[p])
  <2>1. Priced("create", loc[p])
    BY <1>2, <1>4, PricedNow
  <2> QED  BY <1>1, <1>2, <1>3, <1>4, <2>1, PurchaseSame DEF Paid
<1>5. ASSUME NEW e \in Mirrored, NEW r, r = [loc[p] EXCEPT !.eid = e],
             Moves(p, After[loc[p].op], r), CallAt(After[loc[p].op], r)
      PROVE  PurchaseInv'
  <2>1. r.op = loc[p].op /\ r.char = loc[p].char /\ r.arg = loc[p].arg /\ r.level = loc[p].level /\ r \in Call
    BY <1>2, <1>5 DEF Call, Moves
  <2>2. Priced(After[loc[p].op], r)
    BY <1>5, <2>1, PricedNow
  <2> QED  BY <1>1, <1>2, <1>3, <1>5, <2>1, <2>2, PurchaseSame DEF Paid
<1> QED  BY <1>4, <1>5, MirrorLockForm DEF Paid

\* A lock changes no account.
LEMMA LockRowPaid == ASSUME Paid, NEW p \in Proc, LockRow(p) PROVE PurchaseInv'
<1>1. Idle /\ pc[p] = "lock"
  BY DEF LockRow, Idle, storeVars, At
<1>2. Moves(p, "pay", loc[p]) /\ CallAt("pay", loc[p])
  BY LockRowForm DEF Paid
<1>3. Priced("pay", loc[p])
  BY <1>2, PricedNow DEF Moves
<1> QED  BY <1>1, <1>2, <1>3, PurchaseSame DEF Paid

\* Nor does the read of a wallet.
LEMMA DebitReadPaid == ASSUME Paid, NEW p \in Proc, DebitRead(p) PROVE PurchaseInv'
<1> DEFINE r == [loc[p] EXCEPT !.seen = wallet[loc[p].eid]]
<1>1. Idle
  BY NothingBought DEF DebitRead
<1>2. loc[p] \in Call /\ pc[p] = "debit" /\ CallAt(pc[p], loc[p])
  BY DEF Paid, DebitRead, At, EconomyIInv, TypeOK, CallInv
<1>3. Moves(p, "debited", r) /\ CallAt("debited", r)
  BY DebitReadForm DEF Paid
<1>4. r.op = loc[p].op /\ r.char = loc[p].char /\ r.arg = loc[p].arg /\ r.level = loc[p].level /\ r.op = "debit"
  BY <1>2, OpsAtStep DEF Call, CallAt
<1> HIDE DEF r
<1>5. Priced("debited", r)
  BY <1>3, PricedNow DEF Moves
<1> QED  BY <1>1, <1>2, <1>3, <1>4, <1>5, PurchaseSame DEF Paid

\* A craft of which a resource is taken has paid its gold.
LEMMA CreditPaid == ASSUME Paid, NEW p \in Proc, Credit(p) PROVE PurchaseInv'
<1>1. Idle /\ pc[p] = "debited" /\ loc[p] \in Call
  BY DEF Credit, Idle, storeVars, At, characterVars, Paid, EconomyIInv, TypeOK
<1>2. PICK x \in Resource, s \in {"item", "mirror"} :
        LET r == [loc[p] EXCEPT !.due = loc[p].due \ {x}] IN
        /\ Moves(p, s, r) /\ CallAt(s, r)
        /\ wallet' = [wallet EXCEPT ![loc[p].eid] =
                        [loc[p].seen EXCEPT ![x] = IF @ < Cost[loc[p].arg][x] THEN 0 ELSE @ - Cost[loc[p].arg][x]]]
  BY CreditForm DEF Paid
<1>3. loc[p].op = "debit"
  BY CreditForm DEF Paid
<1> DEFINE r == [loc[p] EXCEPT !.due = loc[p].due \ {x}]
<1>4. Moves(p, s, r) /\ CallAt(s, r)
  BY <1>2
<1>5. r.op = loc[p].op /\ r.char = loc[p].char /\ r.arg = loc[p].arg /\ r.level = loc[p].level
  BY <1>1 DEF Call
<1> HIDE DEF r
<1>6. Priced(s, r) /\ s # "raise"
  <2>1. r \in Call
    BY <1>4 DEF Moves
  <2> QED  BY <1>4, <2>1, PricedNow
<1> QED  BY <1>1, <1>3, <1>4, <1>5, <1>6, PurchaseSame DEF Paid

\* A recipe without a price in gold goes on to the debit: it owes nothing.
LEMMA BalancesPaid == ASSUME Paid, NEW p \in Proc, Balances(p) PROVE PurchaseInv'
<1>1. Idle
  BY NothingBought DEF Balances
<1>2. loc[p] \in Call /\ pc[p] = "balance" /\ CallAt(pc[p], loc[p])
  BY DEF Paid, Balances, At, EconomyIInv, TypeOK, CallInv
<1>3. loc[p].op = "balance"
  BY <1>2, OpsAtStep DEF CallAt
<1>4. CASE Moves(p, "idle", NoCall)
  BY <1>1, <1>4, PurchaseEnds DEF Paid
<1>5. CASE Moves(p, "lock", loc[p]) /\ CallAt("lock", loc[p])
  BY <1>1, <1>3, <1>5, PurchaseCalm DEF Paid
<1>6. ASSUME NEW s \in {"item", "mirror"}, NEW due, NEW r, r = [loc[p] EXCEPT !.op = "debit", !.due = due],
             Moves(p, s, r), CallAt(s, r), ~(GoldCost[loc[p].arg] > 0)
      PROVE  PurchaseInv'
  <2>1. r.op = "debit" /\ r.arg = loc[p].arg /\ r \in Call
    BY <1>2, <1>6 DEF Call, Moves
  <2>2. Priced(s, r)
    BY <1>6, <2>1, PricedNow
  <2>3. GoldCost[r.arg] = 0
    <3>1. GoldCost[r.arg] \in Nat
      BY <2>1, <2>2, ContentIsNatural DEF Priced
    <3> QED  BY <1>6, <2>1, <3>1
  <2>4. ASSUME NEW c \in Character PROVE Balanced(p, s, r, c) /\ ~Upgrading(s, r, c)
    <3>1. Owed(s, r, c) = 0 /\ ~Upgrading(s, r, c)
      BY <2>1, <2>3 DEF Owed, Upgrading
    <3>2. Owed(pc[p], loc[p], c) \in Nat
      BY PricedCalls, OwedType DEF Paid
    <3>3. ItemsCost(c) \in Nat /\ ledger[c].spent \in Nat /\ ledger'[c].spent \in Nat
      BY Amounts DEF Paid
    <3>4. ItemsCost(c)' = ItemsCost(c) /\ ledger'[c].spent = ledger[c].spent
      BY <1>1, SameItems DEF Idle
    <3> QED  BY <3>1, <3>2, <3>3, <3>4 DEF Balanced
  <2> QED  BY <1>1, <1>6, <2>2, <2>4, PurchaseStep DEF Paid, Idle
<1> QED  BY <1>4, <1>5, <1>6, BalancesForm DEF Paid

\* What SpendGold takes is what the call is owed afterwards.
LEMMA SpendGoldPaid == ASSUME Paid, NEW p \in Proc, SpendGold(p) PROVE PurchaseInv'
<1> DEFINE c == loc[p].char
           amount == Price(p)
<1>1. /\ loc[p] \in Call /\ pc[p] = "pay" /\ CallAt(pc[p], loc[p]) /\ loc[p].op \in {"balance", "upgrade"}
      /\ entities' = entities /\ levels' = levels /\ items' = items
      /\ ledger \in [Character -> [gold : Nat, exp : Nat, spent : Nat]]
  BY DEF Paid, SpendGold, At, EconomyIInv, TypeOK, CharacterTypeOK, CallInv, storeVars
<1>2. c \in Character /\ amount \in Nat
  BY <1>1, PriceType, SpendForm DEF Paid
<1>3. CASE RefuseSpend(p, c, amount) /\ Moves(p, "idle", NoCall)
  <2>1. Idle
    BY <1>1, <1>3 DEF RefuseSpend, Idle
  <2> QED  BY <1>3, <2>1, PurchaseEnds DEF Paid
<1>4. ASSUME NEW op \in {"upgrade", "debit"}, NEW s, NEW r, WriteSpend(p, c, amount),
             r.op = op, r.char = c, r.arg = loc[p].arg, r.level = loc[p].level,
             Moves(p, s, r), CallAt(s, r), op = "upgrade" <=> s = "raise",
             op = "upgrade" <=> loc[p].op = "upgrade"
      PROVE  PurchaseInv'
  <2>1. r.op = op /\ r.char = c /\ r.arg = loc[p].arg /\ r.level = loc[p].level /\ r \in Call
    BY <1>4 DEF Moves
  <2>2. Priced(s, r)
    BY <1>4, <2>1, PricedNow
  <2>3. ledger' = [ledger EXCEPT ![c].spent = @ + amount]
    BY <1>4 DEF WriteSpend
  <2>4. amount = IF op = "upgrade" THEN UpgradeCost(r.arg, r.level[r.arg]) ELSE GoldCost[r.arg]
    BY <1>4, <2>1 DEF Price
  <2> HIDE DEF amount
  <2>5. ledger'[c].spent = ledger[c].spent + amount
        /\ \A d \in Character \ {c} : ledger'[d].spent = ledger[d].spent
    BY <1>1, <1>2, <2>3
  <2>6. ASSUME NEW d \in Character PROVE Balanced(p, s, r, d)
    <3>1. Owed(pc[p], loc[p], d) = 0
      BY <1>1 DEF Owed
    <3>2. Owed(s, r, d) = IF d = c THEN amount ELSE 0
      BY <1>4, <2>1, <2>4 DEF Owed
    <3>3. ItemsCost(d) \in Nat /\ ledger[d].spent \in Nat /\ ledger'[d].spent \in Nat /\ ItemsCost(d)' = ItemsCost(d)
      BY <1>1, Amounts, SameItems DEF Paid
    <3>4. ledger'[d].spent = ledger[d].spent + (IF d = c THEN amount ELSE 0)
      BY <2>5, <3>3
    <3> QED  BY <1>2, <3>1, <3>2, <3>3, <3>4 DEF Balanced
  <2>7. ASSUME NEW d \in Character, Upgrading(s, r, d) PROVE Covered(d, r.level)
    BY <1>1, <1>4, <2>1, <2>7 DEF Paid, Upgrading, PurchaseInv
  <2> QED  BY <1>1, <1>4, <2>2, <2>6, <2>7, PurchaseStep DEF Paid
<1>5. CASE WriteSpend(p, c, amount) /\ loc[p].op = "upgrade" /\ Moves(p, "raise", loc[p]) /\ CallAt("raise", loc[p])
  BY <1>4, <1>5
<1>6. ASSUME NEW s \in {"item", "mirror"}, NEW due, NEW r, r = [loc[p] EXCEPT !.op = "debit", !.due = due],
             WriteSpend(p, c, amount), loc[p].op = "balance", Moves(p, s, r), CallAt(s, r)
      PROVE  PurchaseInv'
  <2>1. r.op = "debit" /\ r.char = c /\ r.arg = loc[p].arg /\ r.level = loc[p].level
    BY <1>1, <1>6 DEF Call
  <2> HIDE DEF c, amount
  <2> QED  BY <1>4, <1>6, <2>1
<1> QED  BY <1>3, <1>5, <1>6, SpendForm DEF Paid

\* An item that is granted was owed.
LEMMA GrantItemPaid == ASSUME Paid, NEW p \in Proc, GrantItem(p) PROVE PurchaseInv'
<1>1. /\ loc[p] \in Call /\ pc[p] = "item" /\ CallAt(pc[p], loc[p]) /\ TypeOK
      /\ entities' = entities /\ levels' = levels /\ ledger' = ledger
  BY DEF Paid, GrantItem, At, EconomyIInv, TypeOK, CallInv, storeVars, characterVars
<1>2. PICK c \in Character, x \in Recipe : loc[p].char = c /\ loc[p].arg = x /\ loc[p].op = "debit"
  BY <1>1, Ops, OpsAtStep DEF CallAt
<1>3. Moves(p, "idle", NoCall) /\ NoCall.op = "none"
  BY <1>1, FinishMoves DEF GrantItem, NoCall
<1>4. Priced("idle", NoCall)
  BY <1>3, EndedCall, PricedNow DEF Moves
<1>5. CASE UNCHANGED items
  <2>1. Idle
    BY <1>1, <1>5 DEF Idle
  <2> QED  BY <1>3, <2>1, PurchaseEnds DEF Paid
<1>6. CASE items' = [items EXCEPT ![c][x] = @ + 1]
  <2>1. ItemsCost(c)' = ItemsCost(c) + GoldCost[x] /\ \A d \in Character \ {c} : ItemsCost(d)' = ItemsCost(d)
    BY <1>1, <1>2, <1>6, ItemGranted
  <2>2. ASSUME NEW d \in Character PROVE Balanced(p, "idle", NoCall, d) /\ ~Upgrading("idle", NoCall, d)
    <3>1. Owed("idle", NoCall, d) = 0 /\ ~Upgrading("idle", NoCall, d)
      BY <1>3 DEF Owed, Upgrading
    <3>2. Owed(pc[p], loc[p], d) = IF d = c THEN GoldCost[x] ELSE 0
      BY <1>2 DEF Owed
    <3>3. GoldCost[x] \in Nat /\ ItemsCost(d) \in Nat /\ ledger[d].spent \in Nat /\ ledger'[d].spent = ledger[d].spent
      BY <1>1, <1>2, Amounts, ContentIsNatural DEF Paid
    <3>4. ItemsCost(d)' = ItemsCost(d) + (IF d = c THEN GoldCost[x] ELSE 0)
      BY <2>1, <3>3
    <3> QED  BY <3>1, <3>2, <3>3, <3>4 DEF Balanced
  <2> QED  BY <1>1, <1>3, <1>4, <2>2, PurchaseStep DEF Paid
<1> QED  BY <1>2, <1>5, <1>6 DEF GrantItem

\* The levels an upgrade reads are those of the character's entity.
LEMMA ReadLevelsPaid == ASSUME Paid, NEW p \in Proc, ReadLevels(p) PROVE PurchaseInv'
<1>1. Idle
  BY NothingBought DEF ReadLevels
<1>2. /\ loc[p] \in Call /\ pc[p] = "levels" /\ CallAt(pc[p], loc[p]) /\ TypeOK
      /\ levels \in [EntityId -> [Building -> Nat]]
  BY DEF Paid, ReadLevels, At, EconomyIInv, TypeOK, CallInv, StoreTypeOK
<1>3. CASE Moves(p, "idle", NoCall)
  BY <1>1, <1>3, PurchaseEnds DEF Paid
<1>4. ASSUME NEW e \in Mirrored, NEW r, r = [loc[p] EXCEPT !.eid = e, !.level = levels[e]],
             Moves(p, "lock", r), CallAt("lock", r), entities[e] = loc[p].char
      PROVE  PurchaseInv'
  <2>1. r.op = loc[p].op /\ r.char = loc[p].char /\ r.level = levels[e] /\ r \in Call /\ r.op = "upgrade"
    BY <1>2, <1>4, OpsAtStep DEF Call, CallAt, Moves
  <2>2. Priced("lock", r)
    BY <1>4, <2>1, PricedNow
  <2>3. ASSUME NEW c \in Character PROVE Balanced(p, "lock", r, c)
    <3>1. Owed("lock", r, c) = 0
      BY <2>1 DEF Owed
    <3>2. Owed(pc[p], loc[p], c) \in Nat
      BY PricedCalls, OwedType DEF Paid
    <3>3. ItemsCost(c) \in Nat /\ ledger[c].spent \in Nat /\ ledger'[c].spent \in Nat
      BY Amounts DEF Paid
    <3>4. ItemsCost(c)' = ItemsCost(c) /\ ledger'[c].spent = ledger[c].spent
      BY <1>1, SameItems DEF Idle
    <3> QED  BY <3>1, <3>2, <3>3, <3>4 DEF Balanced
  <2>4. ASSUME NEW c \in Character, Upgrading("lock", r, c) PROVE Covered(c, r.level)
    <3>1. entities[e] = c
      BY <1>4, <2>1, <2>4 DEF Upgrading
    <3> QED  BY <2>1, <3>1 DEF Paid, PurchaseInv
  <2> QED  BY <1>1, <1>4, <2>2, <2>3, <2>4, PurchaseStep DEF Paid, Idle
<1> QED  BY <1>3, <1>4, ReadLevelsForm DEF Paid

\* The level that is raised was owed, on top of the levels that were read.
LEMMA RaisePaid == ASSUME Paid, NEW p \in Proc, Raise(p) PROVE PurchaseInv'
<1>1. /\ loc[p] \in Call /\ entities' = entities /\ ledger' = ledger /\ items' = items
      /\ levels \in [EntityId -> [Building -> Nat]] /\ loc \in [Proc -> Call]
      /\ Mirrored' = Mirrored /\ Mirrored \subseteq EntityId
  <2>1. /\ entities' = entities /\ ledger' = ledger /\ items' = items /\ Mirrored' = Mirrored /\ TypeOK
    BY DEF Paid, Raise, EconomyIInv, characterVars, Mirrored
  <2>2. loc[p] \in Call /\ levels \in [EntityId -> [Building -> Nat]] /\ loc \in [Proc -> Call]
    BY <2>1 DEF TypeOK, StoreTypeOK
  <2> QED  BY <2>1, <2>2, MirroredIds
<1>2. /\ loc[p].eid \in Mirrored /\ loc[p].arg \in Building /\ loc[p].char \in Character
      /\ loc[p].level \in [Building -> Nat] /\ pc[p] = "raise" /\ loc[p].op = "upgrade"
      /\ entities[loc[p].eid] = loc[p].char
      /\ levels' = [levels EXCEPT ![loc[p].eid] = [loc[p].level EXCEPT ![loc[p].arg] = @ + 1]]
  BY RaiseForm DEF Paid
<1>c. PICK c \in Character : c = loc[p].char
  BY <1>2
<1>e. PICK e \in Mirrored : e = loc[p].eid
  BY <1>2
<1>b. PICK b \in Building : b = loc[p].arg
  BY <1>2
<1>v. PICK v \in [Building -> Nat] : v = loc[p].level
  BY <1>2
<1>w. entities[e] = c /\ levels' = [levels EXCEPT ![e] = [v EXCEPT ![b] = @ + 1]]
  BY <1>2, <1>c, <1>e, <1>b, <1>v
<1>3. Moves(p, "idle", NoCall) /\ NoCall.op = "none"
  BY FinishMoves DEF Raise, NoCall, Paid, EconomyIInv
<1>4. Priced("idle", NoCall)
  BY <1>3, EndedCall, PricedNow DEF Moves
<1>5. \A d \in Character : Owed("idle", NoCall, d) = 0 /\ ~Upgrading("idle", NoCall, d)
  BY <1>3 DEF Owed, Upgrading
<1>6. ASSUME NEW d \in Character
      PROVE  Balanced(p, "idle", NoCall, d)
  <2>1. Owed(pc[p], loc[p], d) \in Nat
    BY PricedCalls, OwedType DEF Paid
  <2>2. ItemsCost(d) \in Nat /\ ledger[d].spent \in Nat /\ ItemsCost(d)' = ItemsCost(d) /\ ledger'[d].spent = ledger[d].spent
    BY <1>1, Amounts, SameItems DEF Paid
  <2> QED  BY <1>5, <2>1, <2>2 DEF Balanced
<1>7. ASSUME NEW d \in Character, NEW u \in [Building -> Nat], Covered(d, u)
      PROVE  StillCovered(d, u)
  BY <1>3, <1>4, <1>6, <1>7, CoveredKept DEF Paid
<1>8. StillCovered(c, [v EXCEPT ![b] = @ + 1])
  <2>1. LevelsCost(v) \in Nat /\ LevelsCost([v EXCEPT ![b] = @ + 1]) = LevelsCost(v) + UpgradeCost(b, v[b])
    BY LevelsCostRaised
  <2>2. Owed(pc[p], loc[p], c) = UpgradeCost(b, v[b])
    BY <1>2, <1>c, <1>b, <1>v DEF Owed
  <2>3. /\ Pending(c) \in Nat /\ Pending(c)' \in Nat /\ Owed(pc[p], loc[p], c) \in Nat
        /\ Pending(c)' + Owed(pc[p], loc[p], c) = Pending(c) + Owed("idle", NoCall, c)
    BY <1>3, <1>4, PendingMoves DEF Paid
  <2>4. ItemsCost(c) \in Nat /\ ledger[c].spent \in Nat /\ ItemsCost(c)' = ItemsCost(c) /\ ledger'[c].spent = ledger[c].spent
    BY <1>1, Amounts, SameItems DEF Paid
  <2>5. Covered(c, v)
    BY <1>2, <1>c, <1>v DEF Paid, PurchaseInv, Upgrading
  <2> QED  BY <1>5, <2>1, <2>2, <2>3, <2>4, <2>5 DEF Covered, StillCovered
<1>9. ASSUME NEW d \in Character
      PROVE  /\ StillCovered(d, [x \in Building |-> 0])
             /\ \A f \in Mirrored' : entities'[f] = d => StillCovered(d, levels'[f])
             /\ \A q \in Proc \ {p} : Upgrading(pc[q], loc[q], d) => StillCovered(d, loc[q].level)
             /\ Upgrading("idle", NoCall, d) => StillCovered(d, NoCall.level)
  <2>1. /\ Covered(d, [x \in Building |-> 0])
        /\ \A f \in Mirrored : entities[f] = d => Covered(d, levels[f])
        /\ \A q \in Proc : Upgrading(pc[q], loc[q], d) => Covered(d, loc[q].level)
    BY DEF Paid, PurchaseInv
  <2>2. [x \in Building |-> 0] \in [Building -> Nat] /\ \A q \in Proc : loc[q].level \in [Building -> Nat]
    BY <1>1 DEF Call
  <2>3. ASSUME NEW f \in Mirrored, entities[f] = d PROVE StillCovered(d, levels'[f])
    <3>1. CASE f = e
      <4>1. levels'[f] = [v EXCEPT ![b] = @ + 1] /\ d = c
        BY <1>1, <1>w, <2>3, <3>1
      <4> QED  BY <1>8, <4>1
    <3>2. CASE f # e
      <4>1. levels'[f] = levels[f] /\ levels[f] \in [Building -> Nat]
        BY <1>1, <1>w, <3>2
      <4> QED  BY <1>7, <2>1, <2>3, <4>1
    <3> QED  BY <3>1, <3>2
  <2> QED  BY <1>1, <1>5, <1>7, <2>1, <2>2, <2>3
<1> QED  BY <1>3, <1>9, CoveredThen DEF Paid

\* A new entity has no levels.
LEMMA MirrorPaid == ASSUME Paid, NEW p \in Proc, Mirror(p) PROVE PurchaseInv'
<1>1. /\ loc[p] \in Call /\ pc[p] = "create" /\ CallAt(pc[p], loc[p]) /\ TypeOK
      /\ items' = items /\ levels' = levels /\ ledger' = ledger
      /\ levels \in [EntityId -> [Building -> Nat]] /\ loc \in [Proc -> Call] /\ entities \in Seq(Character)
      /\ Mirrored \subseteq EntityId /\ StoresInv
  BY MirroredIds DEF Paid, Mirror, At, EconomyIInv, TypeOK, CallInv, StoreTypeOK, characterVars
<1>2. PICK r \in Call, s \in {"now", "view", "assign", "balance", "debit"} :
        r = [loc[p] EXCEPT !.eid = Len(entities) + 1] /\ Moves(p, s, r)
  BY MirrorForm DEF Paid
<1>3. entities' = Append(entities, loc[p].char) /\ Len(entities) < MaxEntities /\ loc[p].char \in Character
  BY MirrorForm DEF Paid
<1>4. /\ r.op = loc[p].op /\ r.char = loc[p].char /\ r.arg = loc[p].arg /\ r.level = loc[p].level
      /\ r.op # "upgrade"
  BY <1>1, <1>2, Ops, OpsAtStep DEF Call, CallAt
<1>5. Priced(s, r)
  BY <1>1, <1>2, <1>4 DEF Priced, CallAt
<1>6. ASSUME NEW c \in Character PROVE Balanced(p, s, r, c) /\ ~Upgrading(s, r, c)
  <2>1. Owed(s, r, c) = Owed(pc[p], loc[p], c) /\ ~Upgrading(s, r, c)
    BY <1>1, <1>2, <1>4 DEF Owed, Upgrading
  <2>2. Owed(pc[p], loc[p], c) \in Nat
    BY PricedCalls, OwedType DEF Paid
  <2>3. ItemsCost(c) \in Nat /\ ledger[c].spent \in Nat /\ ItemsCost(c)' = ItemsCost(c) /\ ledger'[c].spent = ledger[c].spent
    BY <1>1, Amounts, SameItems DEF Paid
  <2> QED  BY <2>1, <2>2, <2>3 DEF Balanced
<1>7. ASSUME NEW d \in Character, NEW u \in [Building -> Nat], Covered(d, u)
      PROVE  StillCovered(d, u)
  BY <1>2, <1>5, <1>6, <1>7, CoveredKept DEF Paid
<1>8. ASSUME NEW d \in Character
      PROVE  /\ StillCovered(d, [x \in Building |-> 0])
             /\ \A f \in Mirrored' : entities'[f] = d => StillCovered(d, levels'[f])
             /\ \A q \in Proc \ {p} : Upgrading(pc[q], loc[q], d) => StillCovered(d, loc[q].level)
             /\ Upgrading(s, r, d) => StillCovered(d, r.level)
  <2>1. /\ Covered(d, [x \in Building |-> 0])
        /\ \A f \in Mirrored : entities[f] = d => Covered(d, levels[f])
        /\ \A q \in Proc : Upgrading(pc[q], loc[q], d) => Covered(d, loc[q].level)
    BY DEF Paid, PurchaseInv
  <2>2. [x \in Building |-> 0] \in [Building -> Nat] /\ \A q \in Proc : loc[q].level \in [Building -> Nat]
    BY <1>1 DEF Call
  <2>3. ASSUME NEW f \in Mirrored', entities'[f] = d PROVE StillCovered(d, levels'[f])
    <3>1. CASE f \in Mirrored
      <4>1. entities[f] = d
        BY <1>1, <1>3, <2>3, <3>1 DEF Mirrored
      <4>2. levels'[f] = levels[f] /\ levels[f] \in [Building -> Nat]
        BY <1>1, <3>1
      <4> QED  BY <1>7, <2>1, <3>1, <4>1, <4>2
    <3>2. CASE f \notin Mirrored
      <4>1. f \in EntityId
        BY <1>1, <1>3, <2>3, EconomyBounds DEF Mirrored, EntityId
      <4>2. levels[f] \in [Building -> Nat] /\ \A b \in Building : levels[f][b] = 0
        BY <1>1, <3>2, <4>1 DEF StoresInv
      <4>3. levels'[f] = [x \in Building |-> 0]
        BY <1>1, <4>2
      <4> QED  BY <1>7, <2>1, <2>2, <4>3
    <3> QED  BY <3>1, <3>2
  <2> QED  BY <1>6, <1>7, <2>1, <2>2, <2>3
<1> QED  BY <1>2, <1>8, CoveredThen DEF Paid

\* A call that fails leaves spent what it has paid.
LEMMA DbErrorPaid == ASSUME Paid, NEW p \in Proc, DbError(p) PROVE PurchaseInv'
<1>1. entities' = entities /\ levels' = levels /\ items' = items /\ ledger' = ledger /\ Finish(p)
  BY DEF DbError, Rollback, storeVars
<1>2. Idle
  BY <1>1 DEF Idle
<1>3. Moves(p, "idle", NoCall)
  BY <1>1, FinishMoves DEF Paid, EconomyIInv
<1> QED  BY <1>2, <1>3, PurchaseEnds DEF Paid

\* A crash forgets every debt.
LEMMA CrashPaid == ASSUME Paid, Crash PROVE PurchaseInv'
<1>1. /\ entities' = entities /\ levels' = levels /\ items' = items /\ ledger' = ledger /\ Mirrored' = Mirrored
      /\ pc' = [p \in Proc |-> "idle"] /\ loc' = [p \in Proc |-> NoCall] /\ NoCall.op = "none"
  BY DEF Crash, storeVars, Mirrored, NoCall
<1>2. ASSUME NEW c \in Character
      PROVE  Pending(c) \in Nat /\ Pending(c)' = 0 /\ ItemsCost(c)' = ItemsCost(c)
  <2> DEFINE f == [q \in Proc |-> Owed(pc[q], loc[q], c)]
             g == [q \in Proc |-> Owed(pc'[q], loc'[q], c)]
  <2>1. \A q \in Proc : f[q] \in Nat
    BY PricedCalls, OwedType, Zenon DEF Paid
  <2>2. \A q \in Proc : g[q] = 0
    BY <1>1 DEF Owed
  <2>3. Pending(c) = SumFunctionOnSet(f, Proc) /\ Pending(c)' = SumFunctionOnSet(g, Proc)
    BY DEF Pending, Owed
  <2> HIDE DEF f, g
  <2>4. SumFunctionOnSet(f, Proc) \in Nat
    BY <2>1, ContentIsFinite, SumSame
  <2>5. SumFunctionOnSet(g, Proc) = 0
    BY <2>2, ContentIsFinite, SumZero
  <2> QED  BY <1>1, <2>3, <2>4, <2>5, SameItems
<1>3. ASSUME NEW c \in Character, NEW v \in [Building -> Nat], Covered(c, v)
      PROVE  StillCovered(c, v)
  <2>1. ItemsCost(c) \in Nat /\ ledger[c].spent \in Nat /\ LevelsCost(v) \in Nat
    BY Amounts, LevelsCostType DEF Paid
  <2> QED  BY <1>1, <1>2, <1>3, <2>1 DEF Covered, StillCovered
<1>4. ASSUME NEW c \in Character
      PROVE  /\ Covered(c, [b \in Building |-> 0])'
             /\ \A e \in Mirrored' : entities'[e] = c => Covered(c, levels[e])'
             /\ \A q \in Proc : ~Upgrading(pc[q], loc[q], c)'
  <2>1. levels \in [EntityId -> [Building -> Nat]] /\ Mirrored \subseteq EntityId
    BY MirroredIds DEF Paid, EconomyIInv, TypeOK, StoreTypeOK
  <2>2. [b \in Building |-> 0] \in [Building -> Nat] /\ \A e \in Mirrored : levels[e] \in [Building -> Nat]
    BY <2>1
  <2>3. StillCovered(c, [b \in Building |-> 0]) /\ \A e \in Mirrored : entities[e] = c => StillCovered(c, levels[e])
    BY <1>3, <2>2 DEF Paid, PurchaseInv
  <2>4. \A q \in Proc : ~Upgrading(pc[q], loc[q], c)'
    BY <1>1 DEF Upgrading
  <2> QED  BY <1>1, <2>3, <2>4 DEF Covered, StillCovered
<1> QED  BY <1>4 DEF PurchaseInv

\* Nothing is bought while only time passes.
LEMMA UnmovedPaid ==
    ASSUME PurchaseInv, UNCHANGED <<entities, levels, items, ledger, pc, loc>>
    PROVE  PurchaseInv'
  BY DEF PurchaseInv, Covered, Pending, ItemsCost, Upgrading, Owed, Mirrored

\* At the start there are no items, and the levels an earlier run left were paid for.
LEMMA InitPaid == ASSUME Init PROVE PurchaseInv
<1>1. /\ items = [c \in Character |-> [x \in Recipe |-> 0]]
      /\ pc = [p \in Proc |-> "idle"] /\ loc = [p \in Proc |-> NoCall] /\ NoCall.op = "none"
  BY DEF Init, NoCall
<1>2. ASSUME NEW c \in Character PROVE Pending(c) = 0 /\ ItemsCost(c) = 0
  <2> DEFINE f == [q \in Proc |-> Owed(pc[q], loc[q], c)]
             g == [x \in Recipe |-> items[c][x] * GoldCost[x]]
  <2>1. \A q \in Proc : f[q] = 0
    BY <1>1 DEF Owed
  <2>2. ASSUME NEW x \in Recipe PROVE g[x] = 0
    <3>1. GoldCost[x] \in Nat /\ items[c][x] = 0
      BY <1>1, ContentIsNatural
    <3> QED  BY <3>1
  <2>3. Pending(c) = SumFunctionOnSet(f, Proc) /\ ItemsCost(c) = SumFunctionOnSet(g, Recipe)
    BY DEF Pending, ItemsCost
  <2> HIDE DEF f, g
  <2> QED  BY <2>1, <2>2, <2>3, ContentIsFinite, SumZero
<1>3. ASSUME NEW c \in Character
      PROVE  /\ Covered(c, [b \in Building |-> 0])
             /\ \A e \in Mirrored : entities[e] = c => Covered(c, levels[e])
  <2>1. PICK n \in Nat : /\ ledger[c] = [gold |-> n, exp |-> 0, spent |-> n]
                         /\ \A e \in Mirrored : entities[e] = c => LevelsCost(levels[e]) = n
    BY InitStores
  <2>2. ledger[c].spent = n
    BY <2>1
  <2> QED  BY <1>2, <2>1, <2>2, NoLevelsCost DEF Covered
<1>4. \A c \in Character : \A q \in Proc : ~Upgrading(pc[q], loc[q], c)
  BY <1>1 DEF Upgrading
<1> QED  BY <1>3, <1>4 DEF PurchaseInv

\* Every step keeps purchases paid.
LEMMA NextPaid == ASSUME EconomyIInv, PurchaseInv, [Next]_vars PROVE PurchaseInv'
<1>0. Paid
  BY NextInv DEF Paid
<1>1. CASE Tick
  BY <1>1, UnmovedPaid DEF Tick, characterVars, storeVars
<1>2. CASE runTicker
  BY <1>0, <1>2, TickerPaid
<1>3. CASE Crash
  BY <1>0, <1>3, CrashPaid
<1>4. ASSUME NEW p \in Proc, Step(p) PROVE PurchaseInv'
  BY <1>0, <1>4, MirrorLockPaid, MirrorPaid, TickingPaid, AccruePaid, WritingPaid, LockRowPaid, AddRewardsPaid,
     SpendGoldPaid, BalancesPaid, DebitReadPaid, CreditPaid, GrantItemPaid, ReadLevelsPaid, RaisePaid
     DEF Step
<1>5. ASSUME NEW p \in Proc, DbError(p) PROVE PurchaseInv'
  BY <1>0, <1>5, DbErrorPaid
<1>6. ASSUME NEW p \in Proc, NEW u \in User, NEW c \in Character,
           \/ LoggedIn(p, c) /\ u = Owner[c]
           \/ StateHandler(p, u, c)
           \/ \E a \in Activity \cup {None} : AssignHandler(p, u, c, a)
           \/ \E x \in Recipe : CraftHandler(p, u, c, x)
           \/ \E b \in Building : UpgradeHandler(p, u, c, b)
      PROVE  PurchaseInv'
  BY <1>0, <1>6, RequestsPaid
<1>7. CASE UNCHANGED vars
  BY <1>7, UnmovedPaid DEF vars, characterVars, storeVars
<1> QED  BY <1>1, <1>2, <1>3, <1>4, <1>5, <1>6, <1>7 DEF Next

\* The inductive invariant of purchases: whatever levels a character has, or an
\* upgrade that read them long ago may still write back, together with its items and
\* with what running crafts and upgrades have paid for and not been granted, cost no
\* more than it has spent.
THEOREM PurchasesInvariant == Spec => []PurchaseInv
<1>1. Init => PurchaseInv
  BY InitPaid
<1>2. EconomyIInv /\ PurchaseInv /\ [Next]_vars => PurchaseInv'
  BY NextPaid
<1> QED  BY <1>1, <1>2, EconomyInvariant, PTL DEF Spec

\* What a character has was paid for in gold, whatever overlaps, fails half way or
\* dies between the payment and what is bought (crafting's Craft, buildings' Upgrade).
THEOREM PurchasesArePaid == Spec => []PurchasesPaid
<1>1. ASSUME EconomyIInv, PurchaseInv PROVE PurchasesPaid
  <2>1. SUFFICES ASSUME NEW c \in Character
                 PROVE  ItemsCost(c) + SumFunctionOnSet([e \in EntityId |-> LevelsCost(levels[e])], ListByOwner(c))
                        <= ledger[c].spent
    BY DEF PurchasesPaid
  <2> DEFINE f == [e \in EntityId |-> LevelsCost(levels[e])]
  <2>2. /\ TypeOK /\ \A e, d \in ListByOwner(c) : e = d
        /\ ListByOwner(c) \subseteq Mirrored
        /\ \A e \in ListByOwner(c) : entities[e] = c
    BY <1>1 DEF EconomyIInv, MirrorInv, Mirrored, ListByOwner
  <2>3. ItemsCost(c) \in Nat /\ ledger[c] \in [gold : Nat, exp : Nat, spent : Nat]
    BY <2>2, ItemsCostType DEF TypeOK, CharacterTypeOK
  <2>4. Pending(c) \in Nat
    <3> DEFINE g == [q \in Proc |-> Owed(pc[q], loc[q], c)]
    <3>1. \A q \in Proc : g[q] \in Nat
      BY <1>1, PricedCalls, OwedType, Zenon
    <3> HIDE DEF g
    <3>2. SumFunctionOnSet(g, Proc) \in Nat
      BY <3>1, ContentIsFinite, SumSame
    <3> QED  BY <3>2 DEF Pending, g
  <2>5. CASE ListByOwner(c) = {}
    <3>1. SumFunctionOnSet(f, ListByOwner(c)) = 0
      BY <2>5, SumEmpty
    <3>2. LevelsCost([b \in Building |-> 0]) + ItemsCost(c) + Pending(c) <= ledger[c].spent
      BY <1>1 DEF PurchaseInv, Covered
    <3> QED  BY <2>3, <2>4, <3>1, <3>2, NoLevelsCost
  <2>6. CASE ListByOwner(c) # {}
    <3>1. PICK e : ListByOwner(c) = {e}
      BY <2>2, <2>6
    <3>2. e \in Mirrored /\ e \in EntityId /\ entities[e] = c
      BY <2>2, <3>1, MirroredIds
    <3>3. levels[e] \in [Building -> Nat]
      BY <2>2, <3>2 DEF TypeOK, StoreTypeOK
    <3>4. f[e] = LevelsCost(levels[e]) /\ LevelsCost(levels[e]) \in Nat
      BY <3>2, <3>3, LevelsCostType
    <3>5. SumFunctionOnSet(f, ListByOwner(c)) = LevelsCost(levels[e])
      <4> HIDE DEF f
      <4> QED  BY <3>1, <3>4, SumOne
    <3>6. LevelsCost(levels[e]) + ItemsCost(c) + Pending(c) <= ledger[c].spent
      BY <1>1, <3>2 DEF PurchaseInv, Covered
    <3> QED  BY <2>3, <2>4, <3>4, <3>5, <3>6
  <2> QED  BY <2>5, <2>6
<1> QED  BY <1>1, EconomyInvariant, PurchasesInvariant, PTL

=============================================================================
