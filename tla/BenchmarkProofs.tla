--------------------------- MODULE BenchmarkProofs ---------------------------
(***************************************************************************)
(* The benchmark, for every corpus, however many scenarios a run loads:    *)
(* what the scores have to do with each other, and what a row of scores    *)
(* depends on.                                                             *)
(***************************************************************************)
EXTENDS Benchmark, AgentsProofs, FiniteSetTheorems

(***************************************************************************)
(* Sums.                                                                   *)
(***************************************************************************)
(* Induction up to n over the members of a set. *)
LEMMA UpTo ==
  ASSUME NEW n \in Nat, NEW T, 0 \in T, \A k \in 0..(n - 1) : k \in T => k + 1 \in T
  PROVE  0..n \subseteq T
<1> SUFFICES ASSUME (0..n) \ T # {}
             PROVE  FALSE
  OBVIOUS
<1>1. PICK m \in (0..n) \ T : \A k \in (0..n) \ T : m <= k
  <2>1. (0..n) \ T \subseteq Nat
    OBVIOUS
  <2> QED
    BY <2>1, LeastElement, Zenon
<1>2. m # 0 /\ m - 1 \in 0..(n - 1)
  BY <1>1
<1>3. m - 1 \in T
  BY <1>1, <1>2
<1> QED
  BY <1>1, <1>2, <1>3

(* The partial sums of t. *)
IsSums(s, t) ==
  s = [i \in 0..Len(t) |-> IF i = 0 THEN 0 ELSE s[i - 1] + t[i]]

(* Every sequence has them: what a loop that adds up its terms has computed *)
(* so far.                                                                 *)
LEMMA SumsExist ==
  ASSUME NEW t, Len(t) \in Nat
  PROVE  \E s : IsSums(s, t)
<1> DEFINE n    == Len(t)
           P(k) == \E s : s = [i \in 0..k |-> IF i = 0 THEN 0 ELSE s[i - 1] + t[i]]
           T    == {k \in 0..n : P(k)}
<1>1. 0 \in T
  <2>1. P(0)
    <3> DEFINE z == [i \in 0..0 |-> 0]
    <3>1. \A i \in 0..0 : z[i] = IF i = 0 THEN 0 ELSE z[i - 1] + t[i]
      OBVIOUS
    <3>2. z = [i \in 0..0 |-> z[i]]
      OBVIOUS
    <3> HIDE DEF z
    <3>3. z = [i \in 0..0 |-> IF i = 0 THEN 0 ELSE z[i - 1] + t[i]]
      BY <3>1, <3>2
    <3> QED
      BY <3>3
  <2> QED
    BY <2>1
<1>2. ASSUME NEW k \in 0..(n - 1), k \in T
      PROVE  k + 1 \in T
  <2>1. PICK s : s = [i \in 0..k |-> IF i = 0 THEN 0 ELSE s[i - 1] + t[i]]
    BY <1>2
  <2> DEFINE r == [i \in 0..(k + 1) |-> IF i = k + 1 THEN s[k] + t[k + 1] ELSE s[i]]
  <2>2. \A i \in 0..k : r[i] = s[i]
    OBVIOUS
  <2>3. \A i \in 0..(k + 1) : r[i] = IF i = 0 THEN 0 ELSE r[i - 1] + t[i]
    <3> TAKE i \in 0..(k + 1)
    <3>1. CASE i = k + 1
      BY <2>2, <3>1
    <3>2. CASE i # k + 1
      <4>1. i \in 0..k /\ s[i] = IF i = 0 THEN 0 ELSE s[i - 1] + t[i]
        BY <2>1, <3>2
      <4>2. i # 0 => i - 1 \in 0..k
        BY <4>1
      <4> QED
        BY <2>2, <4>1, <4>2
    <3> QED
      BY <3>1, <3>2
  <2>4. r = [i \in 0..(k + 1) |-> r[i]]
    OBVIOUS
  <2> HIDE DEF r
  <2>5. r = [i \in 0..(k + 1) |-> IF i = 0 THEN 0 ELSE r[i - 1] + t[i]]
    BY <2>3, <2>4
  <2>6. k + 1 \in 0..n
    OBVIOUS
  <2> QED
    BY <2>5, <2>6
<1> HIDE DEF T
<1>3. 0..n \subseteq T
  BY <1>1, <1>2, UpTo
<1>4. n \in T
  BY <1>3
<1> QED
  BY <1>4 DEF IsSums, T

(* The total is the last of the partial sums. *)
LEMMA TotalIsLast ==
  ASSUME NEW t, Len(t) \in Nat
  PROVE  \E s : IsSums(s, t) /\ Total(t) = s[Len(t)]
<1>1. IsSums(CHOOSE s : IsSums(s, t), t)
  BY SumsExist, Zenon
<1>2. Total(t) = (CHOOSE s : IsSums(s, t))[Len(t)]
  BY Zenon DEF Total, IsSums
<1> QED
  BY <1>1, <1>2, Zenon

(* They are integers when the terms are. *)
LEMMA SumsSteps ==
  ASSUME NEW t, Len(t) \in Nat, \A i \in 1..Len(t) : t[i] \in Int,
         NEW s, IsSums(s, t)
  PROVE  /\ s[0] = 0
         /\ \A i \in 1..Len(t) : s[i] = s[i - 1] + t[i]
         /\ \A i \in 0..Len(t) : s[i] \in Int
<1> DEFINE n == Len(t)
           T == {k \in 0..n : s[k] \in Int}
<1>1. /\ s[0] = 0
      /\ \A i \in 1..n : s[i] = s[i - 1] + t[i]
  BY DEF IsSums
<1>2. 0 \in T
  BY <1>1
<1>3. ASSUME NEW k \in 0..(n - 1), k \in T
      PROVE  k + 1 \in T
  BY <1>1, <1>3
<1>4. 0..n \subseteq T
  BY <1>2, <1>3, UpTo
<1> QED
  BY <1>1, <1>4

(***************************************************************************)
(* The two scores of a calibration.                                        *)
(***************************************************************************)
(* One row more on both sides of the inequality of the mean and the mean   *)
(* square.                                                                 *)
LEMMA SquareStep ==
  ASSUME NEW k \in Nat, NEW a \in Nat, NEW q \in Nat, NEW x \in Nat, a * a <= k * q
  PROVE  (a + x) * (a + x) <= (k + 1) * (q + x * x)
<1> DEFINE y == x * x
<1>1. y \in Nat /\ a * x \in Nat /\ k * q \in Nat /\ k * y \in Nat
  OBVIOUS
<1>2. (a + x) * (a + x) = a * a + 2 * (a * x) + y
  OBVIOUS
<1>3. (k + 1) * (q + y) = k * q + q + k * y + y
  OBVIOUS
<1>4. 2 * (a * x) <= q + k * y
  <2>1. CASE k = 0
    <3>1. a * a <= 0
      BY <2>1
    <3>2. a = 0
      BY <3>1
    <3> QED
      BY <1>1, <3>2
  <2>2. CASE k > 0
    <3>1. (a - k * x) * (a - k * x) = a * a - 2 * (k * (a * x)) + k * (k * y)
      OBVIOUS
    <3>2. (a - k * x) * (a - k * x) >= 0
      OBVIOUS
    <3> DEFINE ax == a * x
    <3>3. k * (2 * ax) <= k * (q + k * y)
      <4>1. k * (2 * ax) = 2 * (k * ax) /\ k * (q + k * y) = k * q + k * (k * y)
        OBVIOUS
      <4>2. k * ax \in Int /\ k * (k * y) \in Int /\ a * a \in Int
        OBVIOUS
      <4> HIDE DEF ax, y
      <4> QED
        BY <1>1, <3>1, <3>2, <4>1, <4>2 DEF ax
    <3>4. 2 * ax \in Int /\ q + k * y \in Int
      OBVIOUS
    <3> HIDE DEF ax, y
    <3>5. \A u, v \in Int : k * u <= k * v => u <= v
      BY <2>2
    <3>6. 2 * ax <= q + k * y
      BY <3>3, <3>4, <3>5
    <3> QED
      BY <3>6 DEF ax
  <2> QED
    BY <2>1, <2>2
<1> HIDE DEF y
<1>5. a * a \in Int
  OBVIOUS
<1> QED
  BY <1>1, <1>2, <1>3, <1>4, <1>5 DEF y

(* A larger number has a larger square. *)
LEMMA SquareMonotone ==
  ASSUME NEW x \in Nat, NEW y \in Nat, x <= y
  PROVE  x * x <= y * y
OBVIOUS

(* A distance, and its square. *)
LEMMA AbsFacts ==
  ASSUME NEW x \in Int
  PROVE  /\ Abs(x) \in Nat
         /\ Abs(x) * Abs(x) = x * x
         /\ \A y \in Int : Abs(y + x) <= Abs(y) + Abs(x)
BY DEF Abs

(* The square of a sum of distances is at most their number times the sum  *)
(* of their squares.                                                       *)
LEMMA SumsOfSquares ==
  ASSUME NEW n \in Nat, NEW g, \A i \in 1..n : g[i] \in Int,
         NEW a, a[0] = 0, \A i \in 1..n : a[i] = a[i - 1] + Abs(g[i]),
         NEW q, q[0] = 0, \A i \in 1..n : q[i] = q[i - 1] + g[i] * g[i]
  PROVE  \A k \in 0..n : a[k] \in Nat /\ q[k] \in Nat /\ a[k] * a[k] <= k * q[k]
<1> DEFINE T == {k \in 0..n : a[k] \in Nat /\ q[k] \in Nat /\ a[k] * a[k] <= k * q[k]}
<1>1. 0 \in T
  OBVIOUS
<1>2. ASSUME NEW k \in 0..(n - 1), k \in T
      PROVE  k + 1 \in T
  <2> DEFINE x == Abs(g[k + 1])
  <2>1. k + 1 \in 1..n /\ (k + 1) - 1 = k
    OBVIOUS
  <2>2. g[k + 1] \in Int
    BY <2>1
  <2>3. x \in Nat /\ x * x = g[k + 1] * g[k + 1]
    BY <2>2, AbsFacts
  <2>4. a[k + 1] = a[k] + x /\ q[k + 1] = q[k] + x * x
    BY <2>1, <2>3
  <2>5. a[k] \in Nat /\ q[k] \in Nat /\ a[k] * a[k] <= k * q[k] /\ k \in Nat
    BY <1>2
  <2> HIDE DEF x
  <2>6. a[k + 1] * a[k + 1] <= (k + 1) * q[k + 1]
    BY <2>3, <2>4, <2>5, SquareStep
  <2>7. x * x \in Nat
    BY <2>3
  <2>8. \A u, v \in Nat : u + v \in Nat
    OBVIOUS
  <2>9. a[k + 1] \in Nat /\ q[k + 1] \in Nat
    BY <2>3, <2>4, <2>5, <2>7, <2>8, Zenon
  <2> QED
    BY <2>1, <2>6, <2>9
<1> HIDE DEF T
<1>3. 0..n \subseteq T
  BY <1>1, <1>2, UpTo
<1> QED
  BY <1>3 DEF T

(* A sum over the ten bins. *)
OverBins(m) ==
  m[0] + m[1] + m[2] + m[3] + m[4] + m[5] + m[6] + m[7] + m[8] + m[9]

(* One more row changes one bin. *)
LEMMA OneBinMore ==
  ASSUME NEW m, NEW r, \A b \in 0..9 : m[b] \in Int /\ r[b] \in Int,
         NEW c \in 0..9, NEW x \in Int, r[c] <= m[c] + x,
         \A b \in (0..9) \ {c} : r[b] = m[b]
  PROVE  OverBins(r) <= OverBins(m) + x
<1>1. /\ m[0] \in Int /\ m[1] \in Int /\ m[2] \in Int /\ m[3] \in Int /\ m[4] \in Int
      /\ m[5] \in Int /\ m[6] \in Int /\ m[7] \in Int /\ m[8] \in Int /\ m[9] \in Int
  OBVIOUS
<1>2. /\ c # 0 => r[0] = m[0]
      /\ c # 1 => r[1] = m[1]
      /\ c # 2 => r[2] = m[2]
      /\ c # 3 => r[3] = m[3]
      /\ c # 4 => r[4] = m[4]
      /\ c # 5 => r[5] = m[5]
      /\ c # 6 => r[6] = m[6]
      /\ c # 7 => r[7] = m[7]
      /\ c # 8 => r[8] = m[8]
      /\ c # 9 => r[9] = m[9]
  OBVIOUS
<1>3. r[c] \in Int
  OBVIOUS
<1> QED
  BY <1>1, <1>2, <1>3 DEF OverBins

(* The sums of the bins after each of n rows, and their distances. *)
AreBinSums(n, g, bin, p) ==
  \A b \in 0..9 :
    /\ p[b][0] = 0
    /\ \A i \in 1..n : p[b][i] = p[b][i - 1] + IF bin[i] = b THEN g[i] ELSE 0
AreRowSums(n, g, s) == s[0] = 0 /\ \A i \in 1..n : s[i] = s[i - 1] + g[i]
BinTotals(p, k) == [b \in 0..9 |-> p[b][k]]
BinDistances(p, k) == [b \in 0..9 |-> Abs(p[b][k])]

(* They add up to at most the sum of the distances of the rows. *)
LEMMA BinsWithinDistances ==
  ASSUME NEW n \in Nat, NEW g, NEW bin, \A i \in 1..n : g[i] \in Int /\ bin[i] \in 0..9,
         NEW p, AreBinSums(n, g, bin, p),
         NEW a, a[0] = 0, \A i \in 1..n : a[i] = a[i - 1] + Abs(g[i])
  PROVE  \A k \in 0..n :
           /\ \A b \in 0..9 : p[b][k] \in Int
           /\ OverBins(BinDistances(p, k)) <= a[k]
           /\ a[k] \in Int
<1> DEFINE E(k) == BinDistances(p, k)
           T == {k \in 0..n : /\ \A b \in 0..9 : p[b][k] \in Int
                              /\ OverBins(E(k)) <= a[k]
                              /\ a[k] \in Int}
<1>0. \A b \in 0..9 :
        /\ p[b][0] = 0
        /\ \A i \in 1..n : p[b][i] = p[b][i - 1] + IF bin[i] = b THEN g[i] ELSE 0
  BY DEF AreBinSums
<1>1. 0 \in T
  <2>1. \A b \in 0..9 : E(0)[b] = 0
    BY <1>0 DEF Abs, BinDistances
  <2>2. OverBins(E(0)) = 0
    BY <2>1 DEF OverBins
  <2> HIDE DEF E
  <2> QED
    BY <1>0, <2>2
<1>2. ASSUME NEW k \in 0..(n - 1), k \in T
      PROVE  k + 1 \in T
  <2> DEFINE j == k + 1
             x == Abs(g[j])
  <2>1. j \in 1..n /\ j - 1 = k /\ j \in 0..n
    OBVIOUS
  <2>2. g[j] \in Int /\ bin[j] \in 0..9
    BY <2>1
  <2>3. x \in Int /\ \A y \in Int : Abs(y + g[j]) <= Abs(y) + x
    <3>1. Abs(g[j]) \in Nat /\ \A y \in Int : Abs(y + g[j]) <= Abs(y) + Abs(g[j])
      BY <2>2, AbsFacts, Zenon
    <3> QED
      BY <3>1
  <2>4. \A b \in 0..9 : p[b][k] \in Int /\ p[b][j] = p[b][k] + IF bin[j] = b THEN g[j] ELSE 0
    BY <1>0, <1>2, <2>1
  <2>5. a[k] \in Int /\ a[j] = a[k] + x /\ OverBins(E(k)) <= a[k]
    BY <1>2, <2>1
  <2> HIDE DEF j, x
  <2>6. \A b \in 0..9 : p[b][j] \in Int
    BY <2>2, <2>4
  <2>7. \A b \in 0..9 : E(k)[b] = Abs(p[b][k]) /\ E(j)[b] = Abs(p[b][j])
    BY DEF BinDistances
  <2>8. \A b \in 0..9 : E(k)[b] \in Int /\ E(j)[b] \in Int
    <3>1. \A z \in Int : Abs(z) \in Int
      BY DEF Abs
    <3> QED
      BY <2>4, <2>6, <2>7, <3>1
  <2>9. E(j)[bin[j]] <= E(k)[bin[j]] + x
    BY <2>2, <2>3, <2>4, <2>7
  <2>10. \A b \in (0..9) \ {bin[j]} : E(j)[b] = E(k)[b]
    BY <2>4, <2>7
  <2> HIDE DEF E
  <2>11. OverBins(E(j)) <= OverBins(E(k)) + x
    BY <2>2, <2>3, <2>8, <2>9, <2>10, OneBinMore
  <2>12. OverBins(E(j)) \in Int /\ OverBins(E(k)) \in Int
    BY <2>8 DEF OverBins
  <2>13. OverBins(E(j)) <= a[j] /\ a[j] \in Int
    BY <2>3, <2>5, <2>11, <2>12
  <2> QED
    BY <2>1, <2>6, <2>13 DEF j
<1> HIDE DEF T
<1>3. 0..n \subseteq T
  BY <1>1, <1>2, UpTo
<1> QED
  BY <1>3 DEF T

(* As each row lies in one bin, the sums of the bins are together the sum  *)
(* of all rows.                                                            *)
LEMMA BinsOfTotal ==
  ASSUME NEW n \in Nat, NEW g, NEW bin, \A i \in 1..n : g[i] \in Int /\ bin[i] \in 0..9,
         NEW p, AreBinSums(n, g, bin, p),
         NEW s, AreRowSums(n, g, s)
  PROVE  \A k \in 0..n :
           /\ s[k] \in Int
           /\ s[k] = OverBins(BinTotals(p, k))
<1> DEFINE E(k) == BinTotals(p, k)
           T == {k \in 0..n : /\ s[k] \in Int
                              /\ \A b \in 0..9 : p[b][k] \in Int
                              /\ s[k] = OverBins(E(k))}
<1>0. \A b \in 0..9 :
        /\ p[b][0] = 0
        /\ \A i \in 1..n : p[b][i] = p[b][i - 1] + IF bin[i] = b THEN g[i] ELSE 0
  BY DEF AreBinSums
<1>. s[0] = 0 /\ \A i \in 1..n : s[i] = s[i - 1] + g[i]
  BY DEF AreRowSums
<1>1. 0 \in T
  <2>1. \A b \in 0..9 : E(0)[b] = 0
    BY <1>0 DEF BinTotals
  <2>2. OverBins(E(0)) = 0
    BY <2>1 DEF OverBins
  <2> HIDE DEF E
  <2> QED
    BY <1>0, <2>2
<1>2. ASSUME NEW k \in 0..(n - 1), k \in T
      PROVE  k + 1 \in T
  <2> DEFINE j == k + 1
             x == g[j]
             y == 0 - g[j]
  <2>1. j \in 1..n /\ j - 1 = k /\ j \in 0..n
    OBVIOUS
  <2>2. x \in Int /\ y \in Int /\ x + y = 0 /\ bin[j] \in 0..9
    BY <2>1
  <2>3. \A b \in 0..9 : p[b][k] \in Int /\ p[b][j] = p[b][k] + IF bin[j] = b THEN x ELSE 0
    BY <1>0, <1>2, <2>1
  <2>4. s[k] \in Int /\ s[j] = s[k] + x /\ s[k] = OverBins(E(k))
    BY <1>2, <2>1
  <2> HIDE DEF j, x, y
  <2>5. \A b \in 0..9 : E(k)[b] = p[b][k] /\ E(j)[b] = p[b][j]
    BY DEF BinTotals
  <2> HIDE DEF E
  <2>6. \A b \in 0..9 : E(k)[b] \in Int /\ E(j)[b] \in Int /\ p[b][j] \in Int
    BY <2>2, <2>3, <2>5
  <2>7. E(j)[bin[j]] <= E(k)[bin[j]] + x /\ E(k)[bin[j]] <= E(j)[bin[j]] + y
    BY <2>2, <2>3, <2>5
  <2>8. \A b \in (0..9) \ {bin[j]} : E(j)[b] = E(k)[b] /\ E(k)[b] = E(j)[b]
    BY <2>3, <2>5
  <2>9. OverBins(E(j)) <= OverBins(E(k)) + x
    BY <2>2, <2>6, <2>7, <2>8, OneBinMore
  <2>10. OverBins(E(k)) <= OverBins(E(j)) + y
    BY <2>2, <2>6, <2>7, <2>8, OneBinMore
  <2>11. OverBins(E(j)) \in Int /\ OverBins(E(k)) \in Int
    BY <2>6 DEF OverBins
  <2>12. s[j] \in Int /\ s[j] = OverBins(E(j))
    BY <2>2, <2>4, <2>9, <2>10, <2>11
  <2> QED
    BY <2>1, <2>6, <2>12 DEF j
<1> HIDE DEF T
<1>3. 0..n \subseteq T
  BY <1>1, <1>2, UpTo
<1> QED
  BY <1>3 DEF T

(* The distance of a sum over the bins is at most the sum of the distances. *)
LEMMA DistanceOverBins ==
  ASSUME NEW m, NEW e, \A b \in 0..9 : m[b] \in Int /\ e[b] = Abs(m[b])
  PROVE  Abs(OverBins(m)) <= OverBins(e)
<1>1. \A b \in 0..9 : m[b] \in Int /\ e[b] \in Int /\ m[b] <= e[b] /\ 0 - m[b] <= e[b]
  BY DEF Abs
<1>2. /\ m[0] \in Int /\ e[0] \in Int /\ m[0] <= e[0] /\ 0 - m[0] <= e[0]
      /\ m[1] \in Int /\ e[1] \in Int /\ m[1] <= e[1] /\ 0 - m[1] <= e[1]
      /\ m[2] \in Int /\ e[2] \in Int /\ m[2] <= e[2] /\ 0 - m[2] <= e[2]
      /\ m[3] \in Int /\ e[3] \in Int /\ m[3] <= e[3] /\ 0 - m[3] <= e[3]
      /\ m[4] \in Int /\ e[4] \in Int /\ m[4] <= e[4] /\ 0 - m[4] <= e[4]
      /\ m[5] \in Int /\ e[5] \in Int /\ m[5] <= e[5] /\ 0 - m[5] <= e[5]
      /\ m[6] \in Int /\ e[6] \in Int /\ m[6] <= e[6] /\ 0 - m[6] <= e[6]
      /\ m[7] \in Int /\ e[7] \in Int /\ m[7] <= e[7] /\ 0 - m[7] <= e[7]
      /\ m[8] \in Int /\ e[8] \in Int /\ m[8] <= e[8] /\ 0 - m[8] <= e[8]
      /\ m[9] \in Int /\ e[9] \in Int /\ m[9] <= e[9] /\ 0 - m[9] <= e[9]
  BY <1>1
<1>3. OverBins(m) <= OverBins(e) /\ 0 - OverBins(m) <= OverBins(e)
  BY <1>2 DEF OverBins
<1>4. OverBins(m) \in Int /\ OverBins(e) \in Int
  BY <1>2 DEF OverBins
<1> QED
  BY <1>3, <1>4 DEF Abs

(* A total of n terms is the last of n + 1 partial sums. *)
LEMMA TotalOf ==
  ASSUME NEW n \in Nat, NEW t, t = [i \in 1..n |-> t[i]], \A i \in 1..n : t[i] \in Int
  PROVE  \E s : /\ s[0] = 0
                /\ \A i \in 1..n : s[i] = s[i - 1] + t[i]
                /\ \A i \in 0..n : s[i] \in Int
                /\ Total(t) = s[n]
<1>1. t \in Seq(Int)
  <2>1. t \in [1..n -> Int]
    OBVIOUS
  <2> QED
    BY <2>1, MappedSeq
<1>2. Len(t) = n
  BY <1>1, LenProperties
<1>3. PICK s : IsSums(s, t) /\ Total(t) = s[Len(t)]
  BY <1>2, TotalIsLast
<1>4. /\ s[0] = 0
      /\ \A i \in 1..n : s[i] = s[i - 1] + t[i]
      /\ \A i \in 0..n : s[i] \in Int
  BY <1>2, <1>3, SumsSteps
<1> QED
  BY <1>2, <1>3, <1>4

(* A total of ten terms. *)
LEMMA TotalOfTen ==
  ASSUME NEW t, t = [i \in 1..10 |-> t[i]], \A i \in 1..10 : t[i] \in Int
  PROVE  Total(t) = t[1] + t[2] + t[3] + t[4] + t[5] + t[6] + t[7] + t[8] + t[9] + t[10]
<1>1. PICK s : /\ s[0] = 0
               /\ \A i \in 1..10 : s[i] = s[i - 1] + t[i]
               /\ \A i \in 0..10 : s[i] \in Int
               /\ Total(t) = s[10]
  BY TotalOf
<1>2. /\ s[1] = t[1] /\ s[2] = s[1] + t[2] /\ s[3] = s[2] + t[3] /\ s[4] = s[3] + t[4]
      /\ s[5] = s[4] + t[5] /\ s[6] = s[5] + t[6] /\ s[7] = s[6] + t[7]
      /\ s[8] = s[7] + t[8] /\ s[9] = s[8] + t[9] /\ s[10] = s[9] + t[10]
  BY <1>1
<1>3. /\ t[1] \in Int /\ t[2] \in Int /\ t[3] \in Int /\ t[4] \in Int /\ t[5] \in Int
      /\ t[6] \in Int /\ t[7] \in Int /\ t[8] \in Int /\ t[9] \in Int /\ t[10] \in Int
  OBVIOUS
<1> QED
  BY <1>1, <1>2, <1>3

(* A confidence, in ten-thousandths. *)
Scale == 0..10000

(* They are naturals. *)
LEMMA ScaleNat == \A x \in Scale : x \in Int /\ x \in Nat /\ x <= 10000
BY SMT DEF Scale

LEMMA ScaleInt == \A x \in Scale : x \in Int
BY SMT DEF Scale

(* The scored scenarios the metrics are about. *)
IsScored(rows) ==
  /\ Len(rows) \in Nat
  /\ DOMAIN rows = 1..Len(rows)
  /\ \A i \in 1..Len(rows) : rows[i].confidence \in Scale /\ rows[i].correct \in {0, 1}

(* Every row lies in one bin, at a distance of at most one. *)
LEMMA RowFacts ==
  ASSUME NEW rows, IsScored(rows), NEW i \in 1..Len(rows)
  PROVE  /\ Gap(rows[i]) \in Int
         /\ Abs(Gap(rows[i])) \in Scale
         /\ Bin(rows[i]) \in 0..9
<1> DEFINE c == rows[i].confidence
           d == rows[i].correct
           g == c - 10000 * d
<1>1. c \in Scale /\ d \in {0, 1}
  BY Zenon DEF IsScored
<1>2. Gap(rows[i]) = g
  BY DEF Gap
<1>3. Bin(rows[i]) = IF c \div 1000 > 9 THEN 9 ELSE c \div 1000
  BY DEF Bin
<1> HIDE DEF c, d
<1>4. Gap(rows[i]) \in Int /\ Abs(Gap(rows[i])) \in Scale
  <2>1. g \in Int /\ Abs(g) \in Scale
    <3>1. c \in Int /\ 0 <= c /\ c <= 10000
      BY <1>1, SMT DEF Scale
    <3>2. CASE d = 0
      <4>1. g = c /\ Abs(g) = c
        BY <3>1, <3>2, SMT DEF Abs
      <4> QED
        BY <1>1, <3>1, <4>1
    <3>3. CASE d = 1
      <4>1. g = c - 10000 /\ Abs(g) = 10000 - c
        BY <3>1, <3>3, SMT DEF Abs
      <4>2. c - 10000 \in Int /\ 10000 - c \in Int /\ 0 <= 10000 - c /\ 10000 - c <= 10000
        BY <3>1, SMT
      <4>3. \A x \in Int : 0 <= x /\ x <= 10000 => x \in Scale
        BY SMT DEF Scale
      <4> HIDE DEF g
      <4> QED
        BY <4>1, <4>2, <4>3, SMT
    <3> HIDE DEF g
    <3> QED
      BY <1>1, <3>2, <3>3
  <2> HIDE DEF g
  <2> QED
    BY <1>2, <2>1, Zenon
<1>5. Bin(rows[i]) \in 0..9
  BY <1>1, <1>3 DEF Scale
<1> QED
  BY <1>4, <1>5, Zenon

(* The score of Brier, as the last of its partial sums. *)
LEMMA BrierSums ==
  ASSUME NEW rows, IsScored(rows)
  PROVE  \E q : /\ q[0] = 0
                /\ \A i \in 1..Len(rows) : q[i] = q[i - 1] + Gap(rows[i]) * Gap(rows[i])
                /\ brier_score(rows) = q[Len(rows)]
<1> DEFINE n == Len(rows)
           t == [i \in 1..n |-> Gap(rows[i]) * Gap(rows[i])]
<1>1. n \in Nat /\ brier_score(rows) = Total(t)
  BY Zenon DEF IsScored, brier_score
<1>2. \A i \in 1..n : t[i] = Gap(rows[i]) * Gap(rows[i]) /\ t[i] \in Int
  <2> TAKE i \in 1..n
  <2>1. Gap(rows[i]) \in Int
    BY RowFacts
  <2> QED
    BY <2>1
<1>3. t = [i \in 1..n |-> t[i]]
  OBVIOUS
<1> HIDE DEF t
<1>4. PICK q : /\ q[0] = 0
               /\ \A i \in 1..n : q[i] = q[i - 1] + t[i]
               /\ Total(t) = q[n]
  BY <1>1, <1>2, <1>3, TotalOf
<1> QED
  BY <1>1, <1>2, <1>4

(* The distance of a bin, as that of the last of its partial sums. *)
LEMMA BinSums ==
  ASSUME NEW rows, IsScored(rows), NEW b \in 0..9
  PROVE  \E p : /\ p[0] = 0
                /\ \A i \in 1..Len(rows) :
                     p[i] = p[i - 1] + IF Bin(rows[i]) = b THEN Gap(rows[i]) ELSE 0
                /\ BinGap(rows, b) = Abs(p[Len(rows)])
<1> DEFINE n == Len(rows)
           t == [i \in 1..n |-> IF Bin(rows[i]) = b THEN Gap(rows[i]) ELSE 0]
<1>0. n \in Nat
  BY DEF IsScored
<1>1. BinGap(rows, b) = Abs(Total(t))
  BY DEF BinGap
<1>2. \A i \in 1..n : t[i] = IF Bin(rows[i]) = b THEN Gap(rows[i]) ELSE 0
  OBVIOUS
<1>3. \A i \in 1..n : t[i] \in Int
  <2> TAKE i \in 1..n
  <2>1. Gap(rows[i]) \in Int
    BY RowFacts
  <2> QED
    BY <2>1
<1>4. t = [i \in 1..n |-> t[i]]
  OBVIOUS
<1> HIDE DEF n, t
<1>5. PICK p : /\ p[0] = 0
               /\ \A i \in 1..n : p[i] = p[i - 1] + t[i]
               /\ \A i \in 0..n : p[i] \in Int
               /\ Total(t) = p[n]
  BY <1>0, <1>3, <1>4, TotalOf
<1> QED
  BY <1>1, <1>2, <1>5 DEF n

(* The calibration error is the sum of the distances of the ten bins.      *)
LEMMA ErrorOverBins ==
  ASSUME NEW rows, \A b \in 0..9 : BinGap(rows, b) \in Int
  PROVE  expected_calibration_error(rows) = OverBins([b \in 0..9 |-> BinGap(rows, b)])
<1> DEFINE t == [b \in 1..10 |-> BinGap(rows, b - 1)]
           m == [b \in 0..9 |-> BinGap(rows, b)]
<1>1. expected_calibration_error(rows) = Total(t)
  BY Zenon DEF expected_calibration_error
<1>2. \A b \in 0..9 : t[b + 1] = m[b]
  OBVIOUS
<1>3. \A b \in 1..10 : t[b] \in Int
  OBVIOUS
<1>4. t = [b \in 1..10 |-> t[b]]
  OBVIOUS
<1> HIDE DEF t, m
<1>5. Total(t) = t[1] + t[2] + t[3] + t[4] + t[5] + t[6] + t[7] + t[8] + t[9] + t[10]
  BY <1>3, <1>4, TotalOfTen
<1>6. /\ t[1] = m[0] /\ t[2] = m[1] /\ t[3] = m[2] /\ t[4] = m[3] /\ t[5] = m[4]
      /\ t[6] = m[5] /\ t[7] = m[6] /\ t[8] = m[7] /\ t[9] = m[8] /\ t[10] = m[9]
  BY <1>2
<1>7. Total(t) = OverBins(m)
  BY <1>5, <1>6 DEF OverBins
<1> QED
  BY <1>1, <1>7 DEF m

(* The sum of the distances of the rows. *)
LEMMA DistanceSums ==
  ASSUME NEW rows, IsScored(rows)
  PROVE  \E a : /\ a[0] = 0
                /\ \A i \in 1..Len(rows) : a[i] = a[i - 1] + Abs(Gap(rows[i]))
<1> DEFINE n == Len(rows)
           t == [i \in 1..n |-> Abs(Gap(rows[i]))]
<1>1. n \in Nat
  BY DEF IsScored
<1>2. \A i \in 1..n : t[i] = Abs(Gap(rows[i]))
  OBVIOUS
<1>3. \A i \in 1..n : t[i] \in Int
  <2> TAKE i \in 1..n
  <2>1. Abs(Gap(rows[i])) \in Scale
    BY RowFacts
  <2>2. Abs(Gap(rows[i])) \in Int
    BY <2>1, ScaleInt, Zenon
  <2> QED
    BY <2>2
<1>4. t = [i \in 1..n |-> t[i]]
  OBVIOUS
<1> HIDE DEF n, t
<1>5. PICK a : /\ a[0] = 0
               /\ \A i \in 1..n : a[i] = a[i - 1] + t[i]
               /\ \A i \in 0..n : a[i] \in Int
               /\ Total(t) = a[n]
  BY <1>1, <1>3, <1>4, TotalOf
<1> QED
  BY <1>2, <1>5 DEF n

(* What is summed is bounded by its number times its bound. *)
LEMMA SumsBounded ==
  ASSUME NEW n \in Nat, NEW max \in Nat, NEW s, s[0] = 0, NEW x,
         \A i \in 1..n : s[i] = s[i - 1] + x[i] /\ x[i] \in Nat /\ x[i] <= max
  PROVE  \A k \in 0..n : s[k] \in Nat /\ s[k] <= max * k
<1> DEFINE T == {k \in 0..n : s[k] \in Nat /\ s[k] <= max * k}
<1>1. 0 \in T
  OBVIOUS
<1>2. ASSUME NEW k \in 0..(n - 1), k \in T
      PROVE  k + 1 \in T
  <2>1. k + 1 \in 1..n /\ (k + 1) - 1 = k
    OBVIOUS
  <2>2. s[k + 1] = s[k] + x[k + 1] /\ x[k + 1] \in Nat /\ x[k + 1] <= max
    BY <2>1
  <2>3. s[k] \in Nat /\ s[k] <= max * k
    BY <1>2
  <2>4. max * (k + 1) = max * k + max /\ max * k \in Nat
    OBVIOUS
  <2>5. s[k + 1] \in Nat /\ s[k + 1] <= max * (k + 1)
    BY <2>2, <2>3, <2>4
  <2> QED
    BY <2>1, <2>5
<1> HIDE DEF T
<1>3. 0..n \subseteq T
  BY <1>1, <1>2, UpTo
<1> QED
  BY <1>3 DEF T

(* The bounds on the calibration error and the Brier score.  The two       *)
(* numerals are operators: the provers take long over them.                *)
One == 10000
OneSquared == 100000000

LEMMA GapBounds ==
  ASSUME NEW x \in Int, Abs(x) \in Scale
  PROVE  /\ Abs(x) \in Nat /\ Abs(x) <= One
         /\ x * x \in Nat /\ x * x <= OneSquared
<1>1. Abs(x) \in Nat /\ Abs(x) <= 10000
  BY ScaleNat
<1>2. Abs(x) * Abs(x) = x * x
  BY AbsFacts
<1>3. Abs(x) * Abs(x) <= 10000 * 10000
  <2>1. 10000 \in Nat
    BY SMT
  <2> QED
    BY <1>1, <2>1, SquareMonotone, SMT
<1> QED
  BY <1>1, <1>2, <1>3, SMT DEF One, OneSquared

LEMMA ScoresAgree ==
  ASSUME NEW rows, IsScored(rows)
  PROVE  /\ expected_calibration_error(rows) \in Nat
         /\ brier_score(rows) \in Nat
         /\ expected_calibration_error(rows) <= One * Len(rows)
         /\ expected_calibration_error(rows) * expected_calibration_error(rows)
              <= Len(rows) * brier_score(rows)
         /\ brier_score(rows) <= OneSquared * Len(rows)
         /\ Abs(Total([i \in DOMAIN rows |-> Gap(rows[i])])) <= expected_calibration_error(rows)
<1> DEFINE n    == Len(rows)
           ece  == expected_calibration_error(rows)
           g    == [i \in 1..n |-> Gap(rows[i])]
           bin  == [i \in 1..n |-> Bin(rows[i])]
           d    == [i \in 1..n |-> Abs(Gap(rows[i]))]
           sq   == [i \in 1..n |-> Gap(rows[i]) * Gap(rows[i])]
<1>1. n \in Nat /\ n \in 0..n
  BY DEF IsScored
<1>2. \A i \in 1..n : Gap(rows[i]) \in Int /\ Abs(Gap(rows[i])) \in Scale /\ Bin(rows[i]) \in 0..9
  BY RowFacts, Zenon
<1>3. PICK a : a[0] = 0 /\ \A i \in 1..n : a[i] = a[i - 1] + Abs(Gap(rows[i]))
  BY DistanceSums, Zenon
<1>4. PICK q : /\ q[0] = 0
               /\ \A i \in 1..n : q[i] = q[i - 1] + Gap(rows[i]) * Gap(rows[i])
               /\ brier_score(rows) = q[n]
  BY BrierSums, Zenon
<1> DEFINE IsBin(b, p) == /\ p[0] = 0
                          /\ \A i \in 1..n :
                               p[i] = p[i - 1] + IF Bin(rows[i]) = b THEN Gap(rows[i]) ELSE 0
                          /\ BinGap(rows, b) = Abs(p[n])
           p == [b \in 0..9 |-> CHOOSE s : IsBin(b, s)]
<1>5. \A b \in 0..9 : IsBin(b, p[b])
  <2>1. \A b \in 0..9 : \E s : IsBin(b, s)
    BY BinSums, Zenon
  <2> HIDE DEF IsBin
  <2> QED
    BY <2>1
<1>25. Total([i \in DOMAIN rows |-> Gap(rows[i])]) = Total(g) /\ g = [i \in 1..n |-> g[i]]
  BY Zenon DEF IsScored
<1>6. /\ \A i \in 1..n : g[i] = Gap(rows[i]) /\ bin[i] = Bin(rows[i])
      /\ \A i \in 1..n : d[i] = Abs(Gap(rows[i])) /\ sq[i] = Gap(rows[i]) * Gap(rows[i])
  OBVIOUS
<1>7. \A b \in 0..9 : /\ p[b][0] = 0
                      /\ \A i \in 1..n : p[b][i] = p[b][i - 1] + IF bin[i] = b THEN g[i] ELSE 0
                      /\ BinGap(rows, b) = Abs(p[b][n])
  <2> HIDE DEF p, g, bin
  <2> TAKE b \in 0..9
  <2>1. IsBin(b, p[b])
    BY <1>5
  <2>2. \A i \in 1..n : p[b][i] = p[b][i - 1] + IF bin[i] = b THEN g[i] ELSE 0
    <3> TAKE i \in 1..n
    <3>1. p[b][i] = p[b][i - 1] + IF Bin(rows[i]) = b THEN Gap(rows[i]) ELSE 0
      BY <2>1
    <3>2. g[i] = Gap(rows[i]) /\ bin[i] = Bin(rows[i])
      BY <1>6
    <3> QED
      BY <3>1, <3>2
  <2> QED
    BY <2>1, <2>2
<1>8. /\ \A i \in 1..n : g[i] \in Int /\ bin[i] \in 0..9
      /\ \A i \in 1..n : d[i] \in Nat /\ d[i] <= One
      /\ \A i \in 1..n : sq[i] \in Nat /\ sq[i] <= OneSquared
  <2> HIDE DEF g, bin, d, sq
  <2>1. \A i \in 1..n : g[i] \in Int /\ bin[i] \in 0..9
    BY <1>2, <1>6
  <2>2. ASSUME NEW i \in 1..n
        PROVE  d[i] \in Nat /\ d[i] <= One /\ sq[i] \in Nat /\ sq[i] <= OneSquared
    <3>1. Gap(rows[i]) \in Int /\ Abs(Gap(rows[i])) \in Scale
      BY <1>2
    <3> QED
      BY <1>6, <3>1, GapBounds
  <2> QED
    BY <2>1, <2>2
<1>9. /\ \A i \in 1..n : a[i] = a[i - 1] + Abs(g[i])
      /\ \A i \in 1..n : a[i] = a[i - 1] + d[i]
      /\ \A i \in 1..n : q[i] = q[i - 1] + g[i] * g[i]
      /\ \A i \in 1..n : q[i] = q[i - 1] + sq[i]
  <2> HIDE DEF g, bin, d, sq
  <2> QED
    BY <1>3, <1>4, <1>6
<1>10. a[0] = 0 /\ q[0] = 0
  BY <1>3, <1>4
<1> HIDE DEF n, g, bin, d, sq, p
<1>11. a[n] \in Nat /\ q[n] \in Nat /\ a[n] * a[n] <= n * q[n]
  BY <1>1, <1>8, <1>9, <1>10, SumsOfSquares
<1>12. One \in Nat /\ OneSquared \in Nat
  BY SMT DEF One, OneSquared
<1>13. a[n] <= One * n
  <2>1. \A i \in 1..n : a[i] = a[i - 1] + d[i] /\ d[i] \in Nat /\ d[i] <= One
    BY <1>8, <1>9
  <2> QED
    BY <1>1, <1>10, <1>12, <2>1, SumsBounded
<1>14. q[n] <= OneSquared * n
  <2>1. \A i \in 1..n : q[i] = q[i - 1] + sq[i] /\ sq[i] \in Nat /\ sq[i] <= OneSquared
    BY <1>8, <1>9
  <2> QED
    BY <1>1, <1>10, <1>12, <2>1, SumsBounded
<1>15. /\ \A b \in 0..9 : p[b][n] \in Int
       /\ OverBins(BinDistances(p, n)) <= a[n]
  <2>1. \A i \in 1..n : g[i] \in Int /\ bin[i] \in 0..9
    BY <1>8
  <2>2. AreBinSums(n, g, bin, p)
    BY <1>7 DEF AreBinSums
  <2>3. n \in Nat /\ a[0] = 0 /\ \A i \in 1..n : a[i] = a[i - 1] + Abs(g[i])
    BY <1>1, <1>9, <1>10
  <2>4. \A k \in 0..n :
          /\ \A b \in 0..9 : p[b][k] \in Int
          /\ OverBins(BinDistances(p, k)) <= a[k]
          /\ a[k] \in Int
    BY <2>1, <2>2, <2>3, BinsWithinDistances
  <2> QED
    BY <1>1, <2>4
<1>16. \A b \in 0..9 : BinGap(rows, b) = Abs(p[b][n]) /\ BinGap(rows, b) \in Nat
  BY <1>7, <1>15, AbsFacts
<1>17. ece = OverBins([b \in 0..9 |-> BinGap(rows, b)])
  <2>1. \A b \in 0..9 : BinGap(rows, b) \in Int
    BY <1>16
  <2> QED
    BY <2>1, ErrorOverBins
<1>18. [b \in 0..9 |-> BinGap(rows, b)] = BinDistances(p, n)
  BY <1>16 DEF BinDistances
<1>19. OverBins([b \in 0..9 |-> BinGap(rows, b)]) \in Nat
  <2> DEFINE m == [b \in 0..9 |-> BinGap(rows, b)]
  <2>1. \A b \in 0..9 : m[b] \in Nat
    BY <1>16
  <2> HIDE DEF m
  <2>2. OverBins(m) \in Nat
    BY <2>1 DEF OverBins
  <2> QED
    BY <2>2 DEF m
<1>20. ece \in Nat /\ ece <= a[n]
  BY <1>15, <1>17, <1>18, <1>19
<1>26. Abs(Total(g)) <= ece
  <2>1. \A i \in 1..n : g[i] \in Int /\ bin[i] \in 0..9
    BY <1>8
  <2>2. PICK s : /\ s[0] = 0
                 /\ \A i \in 1..n : s[i] = s[i - 1] + g[i]
                 /\ Total(g) = s[n]
    BY <1>1, <1>25, <2>1, TotalOf
  <2>3. AreBinSums(n, g, bin, p)
    BY <1>7 DEF AreBinSums
  <2> DEFINE m == BinTotals(p, n)
  <2>4. s[n] = OverBins(m)
    <3>1. \A k \in 0..n :
            s[k] \in Int /\ s[k] = OverBins(BinTotals(p, k))
      <4>1. n \in Nat /\ AreRowSums(n, g, s)
        BY <1>1, <2>2 DEF AreRowSums
      <4> QED
        BY <2>1, <2>3, <4>1, BinsOfTotal
    <3> QED
      BY <1>1, <3>1
  <2>5. \A b \in 0..9 : m[b] \in Int /\ BinDistances(p, n)[b] = Abs(m[b])
    BY <1>15 DEF BinDistances, BinTotals
  <2> HIDE DEF m, ece
  <2>6. Abs(OverBins(m)) <= OverBins(BinDistances(p, n))
    BY <2>5, DistanceOverBins
  <2> QED
    BY <1>17, <1>18, <2>2, <2>4, <2>6
<1> HIDE DEF ece
<1>21. ece * ece <= a[n] * a[n]
  BY <1>11, <1>20, SquareMonotone
<1>22. ece <= One * n
  <2>1. One * n \in Int
    BY <1>1, <1>12
  <2> QED
    BY <1>11, <1>13, <1>20, <2>1
<1>23. ece * ece <= n * q[n]
  <2>1. ece * ece \in Int /\ a[n] * a[n] \in Int /\ n * q[n] \in Int
    BY <1>1, <1>11, <1>20
  <2> QED
    BY <1>11, <1>21, <2>1
<1>24. brier_score(rows) = q[n]
  BY <1>4 DEF n
<1> QED
  BY <1>11, <1>14, <1>20, <1>22, <1>23, <1>24, <1>25, <1>26 DEF ece, n

(***************************************************************************)
(* What a scenario alone decides: the invariant of run().                  *)
(***************************************************************************)
(* The row of the reasoning table, and the hypothesis it makes. *)
Prompt(s) == NameSays(s.trigger.service) \cup NameSays(s.trigger.metric) \cup Told(s)
Reasons(s) == Row(REASONING_RESPONSES, REASONING_FALLBACK, Prompt(s))
RowClaims(row) ==
  {[line |-> n, supporting_finding_ids |-> row.claims[n].supports] : n \in DOMAIN row.claims}
Formed(s) ==
  [summary    |-> Reasons(s).summary,
   claims     |-> RowClaims(Reasons(s)),
   confidence |-> calibrate(s.trigger.classification,
                            ReadUnit(Reasons(s).raw_confidence, 0), Reasons(s).summary),
   revision   |-> 1,
   dropped    |-> {}]

(* The row of the falsifier table, the verdict and the hypothesis re-scored. *)
Judges(s) ==
  Row(FALSIFIER_RESPONSES, FALSIFIER_FALLBACK,
      ReviewWords \cup Formed(s).summary \cup Told(s)
        \cup UNION {Statement(Formed(s).summary, c.line) : c \in Formed(s).claims})
Judged(s) ==
  [verdict |-> IF Judges(s).verdict = Garbled THEN "contested" ELSE Judges(s).verdict,
   contradictions |-> {c.line : c \in Judges(s).contradictions},
   falsification_score |-> ReadUnit(Judges(s).falsification_score, 450),
   contested_claim_indices |-> {c \in Judges(s).contradictions : c.finding # Garbled},
   of |-> 1]
Rescored(s) ==
  update_with_falsification(Formed(s).confidence, Judged(s).falsification_score)

Expected(s) ==
  [confidence   |-> Rescored(s).final,
   correct      |-> IF Mentions(Formed(s).summary, s.true_cause_pattern) THEN 1 ELSE 0,
   predicted    |-> Judged(s).verdict,
   expected     |-> s.expected_falsifier_verdict,
   recommended  |-> DraftedFor(Formed(s).summary).description,
   ground_truth |-> s.ground_truth_action,
   summary      |-> Formed(s).summary,
   cause        |-> s.true_cause_pattern]

(* Where the loop is, and what it has scored so far. *)
Stages ==
  {"supervisor", "reasoning", "falsifier", "action", "counterfactual", "score"}
LoopInvariant ==
  /\ pc \in Stages \cup {"open", "reported"}
  /\ scenarios \in Seq(Scenarios)
  /\ scored \in Seq({Expected(s) : s \in Scenarios})
  /\ Len(scored) <= Len(scenarios)
  /\ pc \in Stages => Len(scored) < Len(scenarios)
  /\ \A i \in 1..Len(scored) : scored[i] = Expected(scenarios[i])

(* The dict of the scenario under investigation, step by step. *)
Untouched ==
  /\ causal_hypothesis = None
  /\ revision = 0
  /\ recommended_actions = <<>>
Judgment(s) ==
  /\ causal_hypothesis # None /\ falsification # None
  /\ causal_hypothesis = [Formed(s) EXCEPT !.confidence = Rescored(s)]
  /\ falsification = Judged(s)
  /\ confidence_score = Rescored(s).final
Drafted(s) ==
  /\ Len(recommended_actions) = 1
  /\ recommended_actions[1].description = DraftedFor(Formed(s).summary).description
  /\ recommended_actions[1].of = 1
Predicted ==
  /\ counterfactual.action_description = recommended_actions[1].description
  /\ counterfactual.of = 1
StageInvariant(s) ==
  /\ trigger = s.trigger
  /\ telemetry_findings = s.findings
  /\ pc \in {"supervisor", "reasoning"} => Untouched
  /\ pc = "falsifier" =>
       causal_hypothesis # None /\ causal_hypothesis = Formed(s) /\ recommended_actions = <<>>
  /\ pc = "action" => Judgment(s) /\ recommended_actions = <<>>
  /\ pc = "counterfactual" => Judgment(s) /\ Drafted(s)
  /\ pc = "score" => Judgment(s) /\ Drafted(s) /\ Predicted

(* A hypothesis, also one left from the scenario before, is the one of a   *)
(* row of the table, unabridged.                                           *)
Unabridged ==
  causal_hypothesis # None =>
    /\ causal_hypothesis.dropped = {}
    /\ \E row \in RowsOf(REASONING_RESPONSES, REASONING_FALLBACK) :
         causal_hypothesis.summary = row.summary /\ causal_hypothesis.claims = RowClaims(row)

RunInvariant ==
  /\ StepInvariant
  /\ LoopInvariant
  /\ IsScored(scored)
  /\ pc \in Stages => \A s \in Scenarios : s = Current => StageInvariant(s)
  /\ Unabridged

(***************************************************************************)
(* The canned table.                                                       *)
(***************************************************************************)
(* Every claim of the row cites a finding, and only those. *)
ClaimsWithin(row, ids) ==
  /\ DOMAIN row.claims # {}
  /\ \A n \in DOMAIN row.claims :
       row.claims[n].supports # {} /\ row.claims[n].supports \subseteq ids

(* The same, of a row of one claim and of a row of two. *)
Supports(claim, ids) == claim.supports # {} /\ \A id \in claim.supports : id \in ids
OneWithin(row, ids) == DOMAIN row.claims = {1} /\ Supports(row.claims[1], ids)
TwoWithin(row, ids) ==
  /\ DOMAIN row.claims = {1, 2}
  /\ Supports(row.claims[1], ids) /\ Supports(row.claims[2], ids)

LEMMA CountedWithin ==
  ASSUME NEW row, NEW ids, OneWithin(row, ids) \/ TwoWithin(row, ids)
  PROVE  ClaimsWithin(row, ids)
BY DEF OneWithin, TwoWithin, Supports, ClaimsWithin

(* The table has eight rows. *)
LEMMA ReasoningDomain ==
  /\ DOMAIN REASONING_RESPONSES = 1..8
  /\ DOMAIN REASONING_RESPONSES \subseteq Nat
<1>1. DOMAIN REASONING_RESPONSES = 1..8
  BY DEF REASONING_RESPONSES
<1> QED
  BY <1>1

(* What the prompt of the first two has to say. *)
LEMMA ReasoningKeys ==
  /\ REASONING_RESPONSES[1].keys = {"connection pool"}
  /\ REASONING_RESPONSES[2].keys = {"recent deploy"}
BY DEF REASONING_RESPONSES, Hypothesizes

(* Only these two cite a third finding. *)
LEMMA ReasoningClaims ==
  /\ ClaimsWithin(REASONING_RESPONSES[1], 0..3)
  /\ \A i \in 3..8 : ClaimsWithin(REASONING_RESPONSES[i], 0..1)
  /\ ClaimsWithin(REASONING_FALLBACK, 0..1)
<1> DEFINE T       == REASONING_RESPONSES
           Zero    == {0}
           ZeroOne == {0, 1}
           OneTwo  == {1, 2}
<1>3. /\ Zero # {} /\ \A id \in Zero : id \in 0..1
      /\ ZeroOne # {} /\ (\A id \in ZeroOne : id \in 0..1) /\ \A id \in ZeroOne : id \in 0..3
      /\ OneTwo # {} /\ \A id \in OneTwo : id \in 0..3
  OBVIOUS
<1>4. TwoWithin(T[1], 0..3)
  <2> DEFINE keys    == {"connection pool"}
             summary == {"connection pool", "connection", "pool", "exhaustion", "deploy",
                         "recent deploy"}
             a       == {"connection pool", "connection", "pool"}
             b       == {"deploy"}
  <2>1. T[1] = Hypothesizes(keys, summary, <<Says(a, ZeroOne), Says(b, OneTwo)>>, 720)
    BY DEF REASONING_RESPONSES
  <2> HIDE DEF T, Zero, ZeroOne, OneTwo, keys, summary, a, b
  <2> QED
    BY <1>3, <2>1 DEF Hypothesizes, Says, TwoWithin, Supports
<1>5. OneWithin(T[3], 0..1)
  <2> DEFINE keys    == {"thermal"}
             summary == {"thermal throttling", "thermal", "throttling"}
             a       == {}
  <2>1. T[3] = Hypothesizes(keys, summary, <<Says(a, ZeroOne)>>, 550)
    BY DEF REASONING_RESPONSES
  <2> HIDE DEF T, Zero, ZeroOne, OneTwo, keys, summary, a
  <2> QED
    BY <1>3, <2>1 DEF Hypothesizes, Says, OneWithin, Supports
<1>6. TwoWithin(T[4], 0..1)
  <2> DEFINE keys    == {"dns", "resolution failure"}
             summary == {"dns resolution", "resolution failure", "dns", "resolution", "failure",
                         "connection"}
             a       == {}
             b       == {"deploy"}
  <2>1. T[4] = Hypothesizes(keys, summary, <<Says(a, ZeroOne), Says(b, Zero)>>, 600)
    BY DEF REASONING_RESPONSES
  <2> HIDE DEF T, Zero, ZeroOne, OneTwo, keys, summary, a, b
  <2> QED
    BY <1>3, <2>1 DEF Hypothesizes, Says, TwoWithin, Supports
<1>7. OneWithin(T[5], 0..1)
  <2> DEFINE keys    == {"memory", "oom"}
             summary == {"memory pressure", "memory", "pressure", "oom"}
             a       == {"memory", "oom"}
  <2>1. T[5] = Hypothesizes(keys, summary, <<Says(a, ZeroOne)>>, 680)
    BY DEF REASONING_RESPONSES
  <2> HIDE DEF T, Zero, ZeroOne, OneTwo, keys, summary, a
  <2> QED
    BY <1>3, <2>1 DEF Hypothesizes, Says, OneWithin, Supports
<1>8. TwoWithin(T[6], 0..1)
  <2> DEFINE keys    == {"certificate", "cert", "expir"}
             summary == {"certificate", "cert", "expiry", "expir", "failure"}
             a       == {"certificate", "cert", "expiry", "expir"}
             b       == {"regression", "deploy"}
  <2>1. T[6] = Hypothesizes(keys, summary, <<Says(a, Zero), Says(b, Zero)>>, 700)
    BY DEF REASONING_RESPONSES
  <2> HIDE DEF T, Zero, ZeroOne, OneTwo, keys, summary, a, b
  <2> QED
    BY <1>3, <2>1 DEF Hypothesizes, Says, TwoWithin, Supports
<1>9. OneWithin(T[7], 0..1)
  <2> DEFINE keys    == {"disk", "io_wait", "disk pressure"}
             summary == {"disk pressure", "disk", "pressure"}
             a       == {"disk", "io_wait"}
  <2>1. T[7] = Hypothesizes(keys, summary, <<Says(a, ZeroOne)>>, 650)
    BY DEF REASONING_RESPONSES
  <2> HIDE DEF T, Zero, ZeroOne, OneTwo, keys, summary, a
  <2> QED
    BY <1>3, <2>1 DEF Hypothesizes, Says, OneWithin, Supports
<1>10. TwoWithin(T[8], 0..1)
  <2> DEFINE keys    == {"dependency", "cascade", "downstream"}
             summary == {"dependency cascade", "dependency", "cascade", "failure"}
             a       == {"dependency"}
             b       == {}
  <2>1. T[8] = Hypothesizes(keys, summary, <<Says(a, Zero), Says(b, ZeroOne)>>, 620)
    BY DEF REASONING_RESPONSES
  <2> HIDE DEF T, Zero, ZeroOne, OneTwo, keys, summary, a, b
  <2> QED
    BY <1>3, <2>1 DEF Hypothesizes, Says, TwoWithin, Supports
<1>11. OneWithin(REASONING_FALLBACK, 0..1)
  BY DEF REASONING_FALLBACK, Hypothesizes, Says, OneWithin, Supports
<1> HIDE DEF T, Zero, ZeroOne, OneTwo
<1>12. ClaimsWithin(T[1], 0..3)
  BY <1>4, CountedWithin
<1>13. \A i \in 3..8 : ClaimsWithin(T[i], 0..1)
  BY <1>5, <1>6, <1>7, <1>8, <1>9, <1>10, CountedWithin
<1>14. ClaimsWithin(REASONING_FALLBACK, 0..1)
  BY <1>11, CountedWithin
<1> QED
  BY <1>12, <1>13, <1>14 DEF T

(* The row of a prompt is one whose pattern it has, or the fallback. *)
LEMMA RowIsHit ==
  ASSUME NEW table, DOMAIN table \subseteq Nat, NEW fallback, NEW prompt
  PROVE  \/ Row(table, fallback, prompt) = fallback
         \/ \E i \in Hits(table, prompt) : Row(table, fallback, prompt) = table[i]
<1>1. Hits(table, prompt) \subseteq Nat
  BY DEF Hits
<1>2. CASE Hits(table, prompt) = {}
  BY <1>2 DEF Row
<1>3. CASE Hits(table, prompt) # {}
  <2>1. \E i \in Hits(table, prompt) : \A j \in Hits(table, prompt) : i <= j
    BY <1>1, <1>3, LeastElement
  <2> QED
    BY <1>3, <2>1 DEF Row
<1> QED
  BY <1>2, <1>3

LEMMA RowIsRow ==
  ASSUME NEW table, DOMAIN table \subseteq Nat, NEW fallback, NEW prompt
  PROVE  Row(table, fallback, prompt) \in RowsOf(table, fallback)
BY RowIsHit DEF Hits, RowsOf

(***************************************************************************)
(* The prompts of the corpus.                                              *)
(***************************************************************************)
(* The words of the causes other than an exhausted connection pool. *)
OtherWords ==
  {"deploy", "regression", "thermal", "throttling", "dns", "resolution", "failure",
   "certificate", "expiry", "disk", "pressure", "memory", "dependency", "cascade"}

LEMMA CauseWords ==
  ASSUME NEW cause \in CAUSE_PATTERNS, cause # ConnectionPool
  PROVE  1 \in DOMAIN cause /\ \A i \in DOMAIN cause : cause[i] \in OtherWords
<1>1. CASE cause = DeployRegression
  BY <1>1 DEF DeployRegression, OtherWords
<1>2. CASE cause = ThermalThrottling
  BY <1>2 DEF ThermalThrottling, OtherWords
<1>3. CASE cause = DnsResolution
  BY <1>3 DEF DnsResolution, OtherWords
<1>4. CASE cause = CertificateExpiry
  BY <1>4 DEF CertificateExpiry, OtherWords
<1>5. CASE cause = DiskPressure
  BY <1>5 DEF DiskPressure, OtherWords
<1>6. CASE cause = MemoryPressure
  BY <1>6 DEF MemoryPressure, OtherWords
<1>7. CASE cause = DependencyCascade
  BY <1>7 DEF DependencyCascade, OtherWords
<1> QED
  BY <1>1, <1>2, <1>3, <1>4, <1>5, <1>6, <1>7 DEF CAUSE_PATTERNS

LEMMA PoolWords ==
  /\ ConnectionPool[1] = "connection"
  /\ \A i \in DOMAIN ConnectionPool : ConnectionPool[i] \in {"connection", "pool", "exhaustion"}
BY DEF ConnectionPool

(* Only that cause says "connection pool", and none a recent deploy. *)
LEMMA CausePhrases ==
  ASSUME NEW cause \in CAUSE_PATTERNS
  PROVE  /\ "recent deploy" \notin CauseSays(cause)
         /\ "connection pool" \in CauseSays(cause) => cause = ConnectionPool
<1> DEFINE words   == {cause[i] : i \in DOMAIN cause}
           phrases == {c.phrase : c \in {d \in CompoundPhrases : d.words \subseteq words}}
<1>1. /\ "recent deploy" \notin words /\ "connection pool" \notin words
      /\ "connection" \in words => cause = ConnectionPool
  BY CauseWords, PoolWords DEF OtherWords
<1>2. \A c \in CompoundPhrases :
        /\ c.phrase # "recent deploy"
        /\ c.phrase = "connection pool" => "connection" \in c.words
  <2> DEFINE a == [phrase |-> "connection pool",    words |-> {"connection", "pool"}]
             b == [phrase |-> "thermal throttling", words |-> {"thermal", "throttling"}]
             c == [phrase |-> "dns resolution",     words |-> {"dns", "resolution"}]
             d == [phrase |-> "deploy regression",  words |-> {"deploy", "regression"}]
             e == [phrase |-> "memory pressure",    words |-> {"memory", "pressure"}]
             f == [phrase |-> "disk pressure",      words |-> {"disk", "pressure"}]
             g == [phrase |-> "dependency cascade", words |-> {"dependency", "cascade"}]
  <2>1. CompoundPhrases = {a, b, c, d, e, f, g}
    BY DEF CompoundPhrases
  <2>2. /\ a.phrase = "connection pool" /\ "connection" \in a.words
        /\ b.phrase = "thermal throttling" /\ c.phrase = "dns resolution"
        /\ d.phrase = "deploy regression" /\ e.phrase = "memory pressure"
        /\ f.phrase = "disk pressure" /\ g.phrase = "dependency cascade"
    OBVIOUS
  <2> HIDE DEF a, b, c, d, e, f, g
  <2> QED
    BY <2>1, <2>2
<1>3. CauseSays(cause) = words \cup phrases
        \cup (IF cause = DnsResolution THEN {"resolution failure"} ELSE {})
        \cup (IF cause = CertificateExpiry THEN {"cert", "expir"} ELSE {})
  BY DEF CauseSays
<1> HIDE DEF words
<1>4. /\ "recent deploy" \notin phrases
      /\ "connection pool" \in phrases => "connection" \in words
  BY <1>2
<1> HIDE DEF phrases
<1> QED
  BY <1>1, <1>3, <1>4

LEMMA FindingPhrases ==
  ASSUME NEW f
  PROVE  /\ "recent deploy" \notin FindingSays(f)
         /\ "connection pool" \in FindingSays(f)
              => f.subject \in {"pool utilization", "connection"}
<1>0. \A c \in CAUSE_PATTERNS :
        c[1] \notin {"pool utilization", "db-proxy deploy", "OOM events"}
  BY CauseWords, PoolWords DEF OtherWords
<1>1. CASE f.subject = "pool utilization"
  BY <1>0, <1>1 DEF FindingSays
<1>2. CASE f.subject = "db-proxy deploy"
  BY <1>0, <1>2 DEF FindingSays
<1>3. CASE f.subject = "OOM events"
  BY <1>0, <1>3 DEF FindingSays
<1>4. CASE f.subject \notin {"pool utilization", "db-proxy deploy", "OOM events"}
  <2> DEFINE named == \E c \in CAUSE_PATTERNS : c[1] = f.subject
             cause == CHOOSE c \in CAUSE_PATTERNS : c[1] = f.subject
  <2>1. FindingSays(f) = IF named THEN CauseSays(cause) ELSE {}
    BY <1>4 DEF FindingSays
  <2>2. named => cause \in CAUSE_PATTERNS /\ cause[1] = f.subject
    OBVIOUS
  <2> HIDE DEF named, cause
  <2>3. named => /\ "recent deploy" \notin CauseSays(cause)
                 /\ "connection pool" \in CauseSays(cause) => cause = ConnectionPool
    BY <2>2, CausePhrases
  <2> QED
    BY <2>1, <2>2, <2>3, PoolWords
<1> QED
  BY <1>1, <1>2, <1>3, <1>4

LEMMA NamePhrases ==
  ASSUME NEW name
  PROVE  "recent deploy" \notin NameSays(name) /\ "connection pool" \notin NameSays(name)
BY DEF NameSays

(***************************************************************************)
(* The findings of the corpus.                                             *)
(***************************************************************************)
(* A finding is about its subject. *)
LEMMA ObservedSubject ==
  ASSUME NEW source, NEW subject, NEW severity
  PROVE  Observed(source, subject, severity).subject = subject
BY DEF Observed

Elements(t) == {t[i] : i \in DOMAIN t}

LEMMA OneFinding ==
  ASSUME NEW t, NEW source, NEW subject, NEW severity,
         t = <<Observed(source, subject, severity)>>
  PROVE  /\ t \in Seq(Elements(t))
         /\ \A i \in DOMAIN t : t[i].subject = subject
<1> DEFINE a == Observed(source, subject, severity)
<1>1. a.subject = subject
  BY ObservedSubject
<1> HIDE DEF a
<1>2. t = <<a>>
  BY DEF a
<1>3. DOMAIN t = {1} /\ t[1] = a
  BY <1>2
<1>4. t \in Seq(Elements(t))
  BY <1>2, <1>3, Single DEF Elements
<1> QED
  BY <1>1, <1>3, <1>4

(* What supports a cause. *)
LEMMA SupportingFindings ==
  ASSUME NEW cause
  PROVE  LET of == Supporting(cause)
         IN  /\ of \in Seq(Elements(of))
             /\ cause = ConnectionPool => Len(of) = 2
             /\ cause # ConnectionPool =>
                  \A i \in DOMAIN of :
                    of[i].subject \in {"rack throttle ratio", "NXDOMAIN errors", "OOM events"}
<1> DEFINE of == Supporting(cause)
<1>0. /\ ConnectionPool[1] = "connection" /\ ThermalThrottling[1] = "thermal"
      /\ DnsResolution[1] = "dns" /\ MemoryPressure[1] = "memory"
  BY DEF ConnectionPool, ThermalThrottling, DnsResolution, MemoryPressure
<1>1. CASE cause = ConnectionPool
  <2> DEFINE a == Observed("prometheus", "pool utilization", "warning")
             b == Observed("deploy_log", "db-proxy deploy", "info")
  <2>1. of = <<a, b>>
    BY <1>0, <1>1 DEF Supporting
  <2> HIDE DEF a, b, of
  <2>2. of \in Seq(Elements(of)) /\ Len(of) = 2
    BY <2>1 DEF Elements
  <2> QED
    BY <1>1, <2>2 DEF of
<1>2. CASE cause = ThermalThrottling
  <2>1. of = <<Observed("prometheus", "rack throttle ratio", "warning")>>
    BY <1>0, <1>2 DEF Supporting
  <2> HIDE DEF of
  <2> QED
    <3>1. /\ of \in Seq(Elements(of))
          /\ \A i \in DOMAIN of : of[i].subject = "rack throttle ratio"
      BY <2>1, OneFinding
    <3>2. cause # ConnectionPool
      BY <1>0, <1>2
    <3> QED
      BY <3>1, <3>2 DEF of
<1>3. CASE cause = DnsResolution
  <2>1. of = <<Observed("logs", "NXDOMAIN errors", "warning")>>
    BY <1>0, <1>3 DEF Supporting
  <2> HIDE DEF of
  <2> QED
    <3>1. /\ of \in Seq(Elements(of))
          /\ \A i \in DOMAIN of : of[i].subject = "NXDOMAIN errors"
      BY <2>1, OneFinding
    <3>2. cause # ConnectionPool
      BY <1>0, <1>3
    <3> QED
      BY <3>1, <3>2 DEF of
<1>4. CASE cause = MemoryPressure
  <2>1. of = <<Observed("prometheus", "OOM events", "warning")>>
    BY <1>0, <1>4 DEF Supporting
  <2> HIDE DEF of
  <2> QED
    <3>1. /\ of \in Seq(Elements(of))
          /\ \A i \in DOMAIN of : of[i].subject = "OOM events"
      BY <2>1, OneFinding
    <3>2. cause # ConnectionPool
      BY <1>0, <1>4
    <3> QED
      BY <3>1, <3>2 DEF of
<1>5. CASE cause \notin {ConnectionPool, ThermalThrottling, DnsResolution, MemoryPressure}
  <2>1. of = <<>>
    BY <1>5 DEF Supporting
  <2> HIDE DEF of
  <2> QED
    BY <1>5, <2>1 DEF of
<1> QED
  BY <1>1, <1>2, <1>3, <1>4, <1>5

(* An element of a concatenation is one of its parts'. *)
IsJoined(c, a, b) ==
  /\ Len(c) = Len(a) + Len(b)
  /\ \A i \in DOMAIN c :
       (\E j \in DOMAIN a : c[i] = a[j]) \/ (\E j \in DOMAIN b : c[i] = b[j])

LEMMA Concatenated ==
  ASSUME NEW S, NEW a \in Seq(S), NEW R, NEW b \in Seq(R)
  PROVE  a \o b \in Seq(S \cup R) /\ IsJoined(a \o b, a, b)
<1>1. a \in Seq(S \cup R) /\ b \in Seq(S \cup R)
  OBVIOUS
<1>2. /\ a \o b \in Seq(S \cup R)
      /\ Len(a \o b) = Len(a) + Len(b)
      /\ \A i \in 1..(Len(a) + Len(b)) :
           (a \o b)[i] = IF i <= Len(a) THEN a[i] ELSE b[i - Len(a)]
  BY <1>1, ConcatProperties
<1>3. /\ DOMAIN a = 1..Len(a) /\ DOMAIN b = 1..Len(b) /\ Len(a) \in Nat /\ Len(b) \in Nat
      /\ DOMAIN (a \o b) = 1..Len(a \o b)
  BY <1>1, <1>2, LenProperties
<1> DEFINE c == a \o b
<1> HIDE DEF c
<1>4. ASSUME NEW i \in DOMAIN c
      PROVE  (\E j \in DOMAIN a : c[i] = a[j]) \/ (\E j \in DOMAIN b : c[i] = b[j])
  <2>1. i \in 1..(Len(a) + Len(b)) /\ c[i] = IF i <= Len(a) THEN a[i] ELSE b[i - Len(a)]
    BY <1>2, <1>3, <1>4 DEF c
  <2>2. i <= Len(a) => i \in DOMAIN a
    BY <1>3, <2>1
  <2>3. ~(i <= Len(a)) => i - Len(a) \in DOMAIN b
    BY <1>3, <2>1
  <2> QED
    BY <2>1, <2>2, <2>3
<1> QED
  BY <1>2, <1>4 DEF c, IsJoined

(* How many findings an incident has, and what they are about. *)
LEMMA IncidentFindings ==
  ASSUME NEW cause \in CAUSE_PATTERNS
  PROVE  LET found == make_findings(cause)
         IN  /\ Len(found) \in Nat /\ Len(found) >= 2
             /\ cause = ConnectionPool => Len(found) = 4
             /\ cause # ConnectionPool =>
                  \A i \in DOMAIN found :
                    found[i].subject \notin {"pool utilization", "connection"}
<1> DEFINE a == Observed("prometheus", cause[1], "warning")
           b == Supporting(cause)
           B == Elements(b)
           one == <<a>>
           c == one \o b
           noise == <<Noise>>
           d == c \o noise
<1>1. a.subject = cause[1] /\ Noise.subject = "unrelated metric"
  BY ObservedSubject DEF Noise
<1>2. /\ b \in Seq(B)
      /\ cause = ConnectionPool => Len(b) = 2
      /\ cause # ConnectionPool =>
           \A i \in DOMAIN b :
             b[i].subject \in {"rack throttle ratio", "NXDOMAIN errors", "OOM events"}
  BY SupportingFindings, Zenon
<1>3. make_findings(cause) = d
  BY DEF make_findings
<1>4. Len(b) \in Nat
  BY <1>2, LenProperties
<1> HIDE DEF a, b, B
<1>5. /\ one \in Seq({a}) /\ Len(one) = 1
      /\ noise \in Seq({Noise}) /\ Len(noise) = 1
  BY Single
<1>6. \A j \in DOMAIN one : one[j] = a
  OBVIOUS
<1>7. \A j \in DOMAIN noise : noise[j] = Noise
  OBVIOUS
<1> HIDE DEF one, noise
<1>8. c \in Seq({a} \cup B) /\ IsJoined(c, one, b)
  BY <1>2, <1>5, Concatenated, Zenon
<1> HIDE DEF c
<1>9. IsJoined(d, c, noise)
  BY <1>5, <1>8, Concatenated, Zenon
<1> HIDE DEF d
<1>10. \A i \in DOMAIN d : d[i] \in {a, Noise} \/ \E j \in DOMAIN b : d[i] = b[j]
  BY <1>6, <1>7, <1>8, <1>9 DEF IsJoined
<1>11. cause # ConnectionPool => cause[1] \in OtherWords
  BY CauseWords
<1>12. cause # ConnectionPool =>
         \A i \in DOMAIN d : d[i].subject \notin {"pool utilization", "connection"}
  <2> SUFFICES ASSUME cause # ConnectionPool, NEW i \in DOMAIN d
               PROVE  d[i].subject \notin {"pool utilization", "connection"}
    OBVIOUS
  <2>1. CASE d[i] = a
    BY <1>1, <1>11, <2>1 DEF OtherWords
  <2>2. CASE d[i] = Noise
    BY <1>1, <2>2
  <2>3. CASE \E j \in DOMAIN b : d[i] = b[j]
    BY <1>2, <2>3
  <2> QED
    BY <1>10, <2>1, <2>2, <2>3
<1>13. /\ Len(d) \in Nat /\ Len(d) >= 2
       /\ cause = ConnectionPool => Len(d) = 4
  <2>1. cause = ConnectionPool => Len(b) = 2
    BY <1>2
  <2>2. Len(d) = Len(c) + 1
    BY <1>5, <1>9 DEF IsJoined
  <2>3. Len(c) = 1 + Len(b)
    BY <1>5, <1>8 DEF IsJoined
  <2>4. Len(d) \in Nat /\ Len(d) >= 2
    BY <1>4, <2>2, <2>3
  <2>5. Len(b) = 2 => Len(d) = 4
    BY <2>2, <2>3
  <2> QED
    BY <2>1, <2>4, <2>5
<1> QED
  BY <1>3, <1>12, <1>13

(* The findings of an incident are those of a cause. *)
LEMMA IncidentCause ==
  ASSUME NEW s \in Scenarios
  PROVE  \E cause \in CAUSE_PATTERNS : s.findings = make_findings(cause)
<1>1. \A c \in DOMAIN CLASSIFICATION_MAP : CLASSIFICATION_MAP[c] \subseteq CAUSE_PATTERNS
  BY DEF CLASSIFICATION_MAP, CAUSE_PATTERNS
<1>2. PICK c \in DOMAIN CLASSIFICATION_MAP :
        \E m, v, t : \E cause \in CLASSIFICATION_MAP[c] : s = Incident(c, m, v, t, cause)
  BY BenchmarkAssumption DEF Incidents, Generated
<1>3. PICK m, v, t : \E cause \in CLASSIFICATION_MAP[c] : s = Incident(c, m, v, t, cause)
  BY <1>2
<1>4. PICK cause \in CLASSIFICATION_MAP[c] : s = Incident(c, m, v, t, cause)
  BY <1>3
<1>5. s.findings = make_findings(cause)
  BY <1>4 DEF Incident
<1> QED
  BY <1>1, <1>5

(* The claims of the row of an incident cite its findings only. *)
LEMMA RowFits ==
  ASSUME NEW s \in Scenarios
  PROVE  ClaimsWithin(Reasons(s), 0..(Len(s.findings) - 1))
<1> DEFINE n == Len(s.findings)
<1>1. PICK cause \in CAUSE_PATTERNS : s.findings = make_findings(cause)
  BY IncidentCause
<1>2. /\ n \in Nat /\ n >= 2
      /\ cause = ConnectionPool => n = 4
      /\ cause # ConnectionPool =>
           \A i \in DOMAIN s.findings :
             s.findings[i].subject \notin {"pool utilization", "connection"}
  BY <1>1, IncidentFindings
<1>3. /\ "recent deploy" \notin Told(s)
      /\ cause # ConnectionPool => "connection pool" \notin Told(s)
  BY <1>2, FindingPhrases DEF Told, FindingsSay
<1>4. /\ "recent deploy" \notin Prompt(s)
      /\ cause # ConnectionPool => "connection pool" \notin Prompt(s)
  BY <1>3, NamePhrases DEF Prompt
<1>5. ASSUME NEW row, NEW k \in Nat, NEW m \in Nat, k <= m, ClaimsWithin(row, 0..k)
      PROVE  ClaimsWithin(row, 0..m)
  BY <1>5 DEF ClaimsWithin
<1>6. 1 \in Nat /\ n - 1 \in Nat /\ 1 <= n - 1
  <2>1. n \in Nat /\ n >= 2
    BY <1>2
  <2> HIDE DEF n
  <2> QED
    BY <2>1
<1>7. CASE Reasons(s) = REASONING_FALLBACK
  <2>1. ClaimsWithin(Reasons(s), 0..1)
    BY <1>7, ReasoningClaims
  <2> QED
    BY <1>5, <1>6, <2>1
<1>8. ASSUME NEW i \in Hits(REASONING_RESPONSES, Prompt(s)),
             Reasons(s) = REASONING_RESPONSES[i]
      PROVE  ClaimsWithin(Reasons(s), 0..(n - 1))
  <2>1. i \in 1..8 /\ REASONING_RESPONSES[i].keys \cap Prompt(s) # {}
    BY ReasoningDomain DEF Hits
  <2>2. i # 2
    BY <1>4, <2>1, ReasoningKeys
  <2>3. CASE i = 1
    <3>1. cause = ConnectionPool
      BY <1>4, <2>1, <2>3, ReasoningKeys
    <3>2. n - 1 = 3
      BY <1>2, <3>1
    <3>3. ClaimsWithin(Reasons(s), 0..3)
      BY <1>8, <2>3, ReasoningClaims
    <3> QED
      BY <3>2, <3>3
  <2>4. CASE i \in 3..8
    <3>1. ClaimsWithin(Reasons(s), 0..1)
      BY <1>8, <2>4, ReasoningClaims
    <3> QED
      BY <1>5, <1>6, <3>1
  <2> QED
    BY <2>1, <2>2, <2>3, <2>4
<1>9. \/ Reasons(s) = REASONING_FALLBACK
      \/ \E i \in Hits(REASONING_RESPONSES, Prompt(s)) : Reasons(s) = REASONING_RESPONSES[i]
  BY ReasoningDomain, RowIsHit, Zenon DEF Reasons
<1> QED
  BY <1>7, <1>8, <1>9

(***************************************************************************)
(* The canned backend is a backend: its steps are steps of the agents.     *)
(***************************************************************************)
LEMMA FalsifierDomain == DOMAIN FALSIFIER_RESPONSES \subseteq Nat
<1>1. DOMAIN FALSIFIER_RESPONSES = 1..8
  BY DEF FALSIFIER_RESPONSES
<1> QED
  BY <1>1

LEMMA CounterfactualDomain == DOMAIN COUNTERFACTUAL_RESPONSES \subseteq Nat
<1>1. DOMAIN COUNTERFACTUAL_RESPONSES = 1..8
  BY DEF COUNTERFACTUAL_RESPONSES
<1> QED
  BY <1>1

LEMMA FakeReasons ==
  ASSUME NEW findings, fake_reasoning(findings)
  PROVE  LET row == Row(REASONING_RESPONSES, REASONING_FALLBACK, reasoning_prompt(findings))
         IN  /\ ReadHypothesis(row) \in ReasoningReplies
             /\ reasoning_step(ReadHypothesis(row))
<1> DEFINE row == Row(REASONING_RESPONSES, REASONING_FALLBACK, reasoning_prompt(findings))
<1>1. reasoning_step(ReadHypothesis(row))
  BY Zenon DEF fake_reasoning
<1>2. row \in RowsOf(REASONING_RESPONSES, REASONING_FALLBACK)
  BY ReasoningDomain, RowIsRow, Zenon
<1>3. ReadHypothesis(row) \in CannedReasoningReplies
  BY <1>2, Zenon DEF CannedReasoningReplies
<1> QED
  BY <1>1, <1>3, CannedAssumption, Zenon

LEMMA FakeReviews ==
  ASSUME NEW findings, fake_falsifier(findings)
  PROVE  LET row == Row(FALSIFIER_RESPONSES, FALSIFIER_FALLBACK, falsifier_prompt(findings))
         IN  /\ ReadReview(row) \in FalsifierReplies
             /\ falsifier_review(ReadReview(row))
<1> DEFINE row == Row(FALSIFIER_RESPONSES, FALSIFIER_FALLBACK, falsifier_prompt(findings))
<1>1. falsifier_review(ReadReview(row))
  BY Zenon DEF fake_falsifier
<1>2. row \in RowsOf(FALSIFIER_RESPONSES, FALSIFIER_FALLBACK)
  BY FalsifierDomain, RowIsRow, Zenon
<1>3. ReadReview(row) \in CannedFalsifierReplies
  BY <1>2, Zenon DEF CannedFalsifierReplies
<1> QED
  BY <1>1, <1>3, CannedAssumption, Zenon

LEMMA FakePredicts ==
  ASSUME fake_counterfactual
  PROVE  \E reply \in PredictionReplies : counterfactual_ask(reply)
<1> DEFINE row   == Row(COUNTERFACTUAL_RESPONSES, COUNTERFACTUAL_FALLBACK, prediction_prompt)
           reply == IF Route(prediction_prompt) = "counterfactual" THEN ReadPrediction(row)
                    ELSE NoPrediction
<1>1. counterfactual_ask(reply)
  BY Zenon DEF fake_counterfactual
<1>2. row \in RowsOf(COUNTERFACTUAL_RESPONSES, COUNTERFACTUAL_FALLBACK)
  BY CounterfactualDomain, RowIsRow, Zenon
<1>3. ReadPrediction(row) \in CannedPredictionReplies /\ NoPrediction \in CannedPredictionReplies
  BY <1>2, Zenon DEF CannedPredictionReplies
<1> HIDE DEF row
<1>4. reply \in CannedPredictionReplies
  BY <1>3
<1> HIDE DEF reply
<1> QED
  BY <1>1, <1>4, CannedAssumption, Zenon

LEMMA FakeSteps ==
  /\ \A findings : fake_reasoning(findings) => AnyStep
  /\ \A findings : fake_falsifier(findings) => AnyStep
  /\ counterfactual_rule \/ fake_counterfactual => AnyStep
<1>1. \A findings : fake_reasoning(findings) => reasoning
  BY FakeReasons, Zenon DEF reasoning
<1>2. \A findings : fake_falsifier(findings) => falsifier_step
  BY FakeReviews, Zenon DEF falsifier_step
<1>3. counterfactual_rule \/ fake_counterfactual => counterfactual_step
  BY FakePredicts, Zenon DEF counterfactual_step
<1> QED
  BY <1>1, <1>2, <1>3, Zenon DEF AnyStep

(***************************************************************************)
(* One step of a scenario after another.                                   *)
(***************************************************************************)
(* The stage that follows. *)
LEMMA NextStage ==
  /\ Goes("open") => pc = "open" /\ pc' = "supervisor"
  /\ Goes("supervisor") => pc = "supervisor" /\ pc' = "reasoning"
  /\ Goes("reasoning") => pc = "reasoning" /\ pc' = "falsifier"
  /\ Goes("falsifier") => pc = "falsifier" /\ pc' = "action"
  /\ Goes("action") => pc = "action" /\ pc' = "counterfactual"
  /\ Goes("counterfactual") => pc = "counterfactual" /\ pc' = "score"
  /\ Goes("score") => pc = "score" /\ pc' = "open"
<1> DEFINE StageAt(stage) == CHOOSE i \in DOMAIN Order : Order[i] = stage
<1>1. /\ DOMAIN Order = 1..7
      /\ Order[1] = "open" /\ Order[2] = "supervisor" /\ Order[3] = "reasoning"
      /\ Order[4] = "falsifier" /\ Order[5] = "action" /\ Order[6] = "counterfactual"
      /\ Order[7] = "score"
  BY DEF Order
<1>2. /\ StageAt("open") = 1 /\ StageAt("supervisor") = 2 /\ StageAt("reasoning") = 3
      /\ StageAt("falsifier") = 4 /\ StageAt("action") = 5 /\ StageAt("counterfactual") = 6
  BY <1>1
<1>3. \A stage : Goes(stage) =>
        pc = stage /\ pc' = IF stage = "score" THEN "open" ELSE Order[1 + StageAt(stage)]
  BY DEF Goes
<1> HIDE DEF StageAt
<1>4. /\ Order[1 + StageAt("open")] = "supervisor"
      /\ Order[1 + StageAt("supervisor")] = "reasoning"
      /\ Order[1 + StageAt("reasoning")] = "falsifier"
      /\ Order[1 + StageAt("falsifier")] = "action"
      /\ Order[1 + StageAt("action")] = "counterfactual"
      /\ Order[1 + StageAt("counterfactual")] = "score"
  BY <1>1, <1>2
<1> QED
  BY <1>3, <1>4

(* The claims of a row that fits the findings are kept as they are. *)
LEMMA RowGrounded ==
  ASSUME NEW row, ClaimsWithin(row, FindingIds)
  PROVE  LET lines == ReadHypothesis(row).claims
         IN  /\ GroundedClaims(lines) = RowClaims(row)
             /\ RowClaims(row) # {}
             /\ {c.line : c \in lines} \ {c.line : c \in RowClaims(row)} = {}
<1> DEFINE D        == DOMAIN row.claims
           L(n)     == [line |-> n, supports |-> row.claims[n].supports]
           C(n)     == [line |-> n, supporting_finding_ids |-> row.claims[n].supports]
           lines    == {L(n) : n \in D}
           kept(c)  == [line |-> c.line, supporting_finding_ids |-> c.supports \cap FindingIds]
<1>1. ReadHypothesis(row).claims = lines
  BY DEF ReadHypothesis
<1>2. RowClaims(row) = {C(n) : n \in D}
  BY DEF RowClaims
<1>3. GroundedClaims(lines) = {kept(c) : c \in {d \in lines : d.supports \cap FindingIds # {}}}
  BY DEF GroundedClaims
<1>4. D # {}
  BY DEF ClaimsWithin
<1>5. \A n \in D : L(n).line = n /\ C(n).line = n
  OBVIOUS
<1>6. \A n \in D : L(n).supports \cap FindingIds = row.claims[n].supports
                     /\ L(n).supports \cap FindingIds # {}
  BY DEF ClaimsWithin
<1>7. \A n \in D : kept(L(n)) = C(n)
  BY <1>5, <1>6
<1> HIDE DEF D, L, C, kept
<1>8. {d \in lines : d.supports \cap FindingIds # {}} = lines
  BY <1>6
<1>9. {kept(c) : c \in lines} = {C(n) : n \in D}
  BY <1>7
<1>10. {c.line : c \in lines} \ {c.line : c \in {C(n) : n \in D}} = {}
  BY <1>5
<1>11. {C(n) : n \in D} # {}
  BY <1>4
<1> QED
  BY <1>1, <1>2, <1>3, <1>8, <1>9, <1>10, <1>11

(* A fresh dict, with the findings of its scenario. *)
LEMMA OpenStage ==
  ASSUME NEW s \in Scenarios, Renew(s), pc' = "supervisor"
  PROVE  StepInvariant' /\ StageInvariant(s)' /\ Unabridged'
<1>1. s.trigger \in Trigger /\ s.findings \in Seq(Finding)
  BY BenchmarkAssumption
<1>2. TypeOK'
  <2>1. NewBudget(s.trigger.severity) \in Budget
    BY BudgetType
  <2>2. <<Step("system", "opened")>> \in Seq(AgentStep)
    <3>1. Step("system", "opened") \in AgentStep
      BY StepType DEF AgentNames, Events
    <3> QED
      BY <3>1, Single
  <2> QED
    BY <1>1, <2>1, <2>2 DEF Renew, TypeOK
<1>3. Numbered' /\ ClaimsGrounded' /\ ConfidenceConsistent'
  BY DEF Renew, Numbered, ClaimsGrounded, ConfidenceConsistent
<1>4. FlagOfLastAction' /\ HumanAlwaysAsked'
  BY DEF Renew, FlagOfLastAction, HumanAlwaysAsked
<1>5. StageInvariant(s)'
  BY DEF Renew, StageInvariant, Untouched
<1>6. Unabridged'
  BY DEF Renew, Unabridged
<1> QED
  BY <1>2, <1>3, <1>4, <1>5, <1>6 DEF StepInvariant

(* The supervisor leaves it untouched. *)
LEMMA SupervisorStage ==
  ASSUME NEW s \in Scenarios, StageInvariant(s), Unabridged, supervisor_step,
         pc = "supervisor", pc' = "reasoning"
  PROVE  StageInvariant(s)' /\ Unabridged'
<1>1. UNCHANGED <<trigger, telemetry_findings, causal_hypothesis, recommended_actions, revision>>
  BY DEF supervisor_step
<1>2. StageInvariant(s)'
  BY <1>1 DEF StageInvariant, Untouched
<1> QED
  BY <1>1, <1>2 DEF Unabridged

(* The hypothesis is the one of the scenario, and nothing of it is dropped. *)
LEMMA ReasoningStage ==
  ASSUME TypeOK, NEW s \in Scenarios, StageInvariant(s), fake_reasoning(Told(s)),
         pc = "reasoning", pc' = "falsifier"
  PROVE  StageInvariant(s)' /\ Unabridged'
<1> DEFINE row   == Reasons(s)
           reply == ReadHypothesis(row)
           lines == reply.claims
<1>1. /\ trigger = s.trigger /\ telemetry_findings = s.findings
      /\ revision = 0 /\ recommended_actions = <<>>
  BY DEF StageInvariant, Untouched
<1>2. reasoning_prompt(Told(s)) = Prompt(s)
  BY <1>1 DEF reasoning_prompt, Prompt
<1>3. reply \in ReasoningReplies /\ reasoning_step(reply)
  BY <1>2, FakeReasons DEF Reasons
<1>4. ClaimsWithin(row, FindingIds)
  BY <1>1, RowFits DEF FindingIds
<1>5. reply.summary = row.summary /\ reply.raw_confidence = row.raw_confidence
  BY DEF ReadHypothesis
<1>6. /\ GroundedClaims(lines) = RowClaims(row)
      /\ RowClaims(row) # {}
      /\ {c.line : c \in lines} \ {c.line : c \in RowClaims(row)} = {}
  BY <1>4, RowGrounded
<1>7. causal_hypothesis' =
        [summary    |-> reply.summary,
         claims     |-> IF GroundedClaims(lines) = {} THEN FallbackClaims
                        ELSE GroundedClaims(lines),
         confidence |-> calibrate(trigger.classification,
                                  ReadUnit(reply.raw_confidence, 0), reply.summary),
         revision   |-> revision + 1,
         dropped    |-> {c.line : c \in lines} \ {c.line : c \in GroundedClaims(lines)}]
  BY <1>3, Zenon DEF reasoning_step
<1>8. UNCHANGED <<trigger, telemetry_findings, recommended_actions>>
  BY <1>3 DEF reasoning_step
<1> HIDE DEF row, reply, lines
<1>9. causal_hypothesis' =
        [summary    |-> row.summary,
         claims     |-> RowClaims(row),
         confidence |-> calibrate(s.trigger.classification,
                                  ReadUnit(row.raw_confidence, 0), row.summary),
         revision   |-> 1,
         dropped    |-> {}]
  <2> DEFINE claims     == IF GroundedClaims(lines) = {} THEN FallbackClaims
                           ELSE GroundedClaims(lines)
             confidence == calibrate(trigger.classification,
                                     ReadUnit(reply.raw_confidence, 0), reply.summary)
             dropped    == {c.line : c \in lines} \ {c.line : c \in GroundedClaims(lines)}
  <2>1. claims = RowClaims(row)
    BY <1>6
  <2>2. dropped = {}
    BY <1>6
  <2>3. confidence = calibrate(s.trigger.classification,
                               ReadUnit(row.raw_confidence, 0), row.summary)
    BY <1>1, <1>5
  <2>4. revision + 1 = 1
    BY <1>1
  <2>5. causal_hypothesis' =
          [summary |-> reply.summary, claims |-> claims, confidence |-> confidence,
           revision |-> revision + 1, dropped |-> dropped]
    BY <1>7, Zenon
  <2> HIDE DEF claims, confidence, dropped
  <2> QED
    BY <1>5, <2>1, <2>2, <2>3, <2>4, <2>5
<1>10. causal_hypothesis' = Formed(s)
  BY <1>9 DEF Formed, row
<1>11. causal_hypothesis' # None
  BY <1>3, HypothesisFormed
<1>12. StageInvariant(s)'
  BY <1>1, <1>8, <1>10, <1>11 DEF StageInvariant
<1>13. row \in RowsOf(REASONING_RESPONSES, REASONING_FALLBACK)
  BY ReasoningDomain, RowIsRow, Zenon DEF Reasons, row
<1>14. /\ causal_hypothesis'.dropped = {}
       /\ causal_hypothesis'.summary = row.summary
       /\ causal_hypothesis'.claims = RowClaims(row)
  BY <1>9
<1> QED
  BY <1>12, <1>13, <1>14 DEF Unabridged

(* No canned reply refutes. *)
LEMMA CannedNeverRefute ==
  \A row \in RowsOf(FALSIFIER_RESPONSES, FALSIFIER_FALLBACK) : row.verdict # "refuted"
<1>1. DOMAIN FALSIFIER_RESPONSES = 1..8
  BY DEF FALSIFIER_RESPONSES
<1>2. /\ FALSIFIER_RESPONSES[1].verdict = "confirmed"
      /\ FALSIFIER_RESPONSES[2].verdict = "confirmed"
      /\ FALSIFIER_RESPONSES[3].verdict = "contested"
      /\ FALSIFIER_RESPONSES[4].verdict = "confirmed"
      /\ FALSIFIER_RESPONSES[5].verdict = "confirmed"
      /\ FALSIFIER_RESPONSES[6].verdict = "confirmed"
      /\ FALSIFIER_RESPONSES[7].verdict = "confirmed"
      /\ FALSIFIER_RESPONSES[8].verdict = "contested"
  BY DEF FALSIFIER_RESPONSES, Reviews
<1>3. FALSIFIER_FALLBACK.verdict = "contested"
  BY DEF FALSIFIER_FALLBACK, Reviews
<1> QED
  BY <1>1, <1>2, <1>3 DEF RowsOf

LEMMA JudgedNotRefuted ==
  ASSUME NEW s
  PROVE  Judged(s).verdict # "refuted"
<1>1. Judges(s) \in RowsOf(FALSIFIER_RESPONSES, FALSIFIER_FALLBACK)
  BY FalsifierDomain, RowIsRow, Zenon DEF Judges
<1>2. Judges(s).verdict # "refuted"
  BY <1>1, CannedNeverRefute, Zenon
<1>3. Judged(s).verdict = IF Judges(s).verdict = Garbled THEN "contested"
                          ELSE Judges(s).verdict
  BY DEF Judged
<1> QED
  BY <1>2, <1>3

(* The verdict is the one of the scenario. *)
LEMMA FalsifierStage ==
  ASSUME TypeOK, NEW s \in Scenarios, StageInvariant(s), Unabridged, fake_falsifier(Told(s)),
         pc = "falsifier", pc' = "action"
  PROVE  StageInvariant(s)' /\ Unabridged'
<1> DEFINE h     == causal_hypothesis
           row   == Judges(s)
           reply == ReadReview(row)
           f     == ParseFalsification(reply)
<1>1. /\ trigger = s.trigger /\ telemetry_findings = s.findings
      /\ h = Formed(s) /\ recommended_actions = <<>>
  BY DEF StageInvariant
<1>2. Row(FALSIFIER_RESPONSES, FALSIFIER_FALLBACK, falsifier_prompt(Told(s))) = row
  BY <1>1, Zenon DEF falsifier_prompt, Judges
<1>3. reply \in FalsifierReplies /\ falsifier_review(reply)
  BY <1>2, FakeReviews
<1>4. /\ falsification' = f
      /\ causal_hypothesis' =
           [h EXCEPT !.confidence =
              update_with_falsification(h.confidence, f.falsification_score)]
      /\ confidence_score' =
           update_with_falsification(h.confidence, f.falsification_score).final
      /\ UNCHANGED <<trigger, telemetry_findings, recommended_actions>>
  BY <1>3, Zenon DEF falsifier_review
<1>5. f = Judged(s)
  <2>1. h.revision = 1
    BY <1>1 DEF Formed
  <2>2. /\ reply.verdict = row.verdict /\ reply.contradictions = row.contradictions
        /\ reply.falsification_score = row.falsification_score
    BY DEF ReadReview
  <2> HIDE DEF row, reply
  <2>3. f = [verdict |-> IF row.verdict = Garbled THEN "contested" ELSE row.verdict,
             contradictions |-> {c.line : c \in row.contradictions},
             falsification_score |-> ReadUnit(row.falsification_score, 450),
             contested_claim_indices |-> {c \in row.contradictions : c.finding # Garbled},
             of |-> 1]
    BY <2>1, <2>2 DEF ParseFalsification
  <2> QED
    BY <2>3, Zenon DEF Judged, row
<1> HIDE DEF f
<1>6. update_with_falsification(h.confidence, f.falsification_score) = Rescored(s)
  BY <1>1, <1>5 DEF Rescored
<1>7. /\ causal_hypothesis' = [Formed(s) EXCEPT !.confidence = Rescored(s)]
      /\ falsification' = Judged(s)
      /\ confidence_score' = Rescored(s).final
  BY <1>1, <1>4, <1>5, <1>6, Zenon
<1>8. causal_hypothesis' # None /\ falsification' # None
  BY <1>3, HypothesisStays
<1>9. StageInvariant(s)'
  BY <1>1, <1>4, <1>7, <1>8 DEF StageInvariant, Judgment
<1>10. h # None /\ h \in Hypothesis
  BY <1>3, ReviewEffect DEF falsifier_review
<1>11. /\ causal_hypothesis'.dropped = h.dropped
       /\ causal_hypothesis'.summary = h.summary
       /\ causal_hypothesis'.claims = h.claims
  BY <1>4, <1>10 DEF Hypothesis
<1>12. Unabridged'
  <2>1. h.dropped = {} /\ \E r \in RowsOf(REASONING_RESPONSES, REASONING_FALLBACK) :
                            h.summary = r.summary /\ h.claims = RowClaims(r)
    BY <1>10 DEF Unabridged
  <2> QED
    BY <1>11, <2>1 DEF Unabridged
<1> QED
  BY <1>9, <1>12

(* The action is drafted for the hypothesis of the scenario. *)
LEMMA ActionStage ==
  ASSUME NEW s \in Scenarios, StageInvariant(s), Unabridged, action_step,
         pc = "action", pc' = "counterfactual"
  PROVE  StageInvariant(s)' /\ Unabridged'
<1> DEFINE h == causal_hypothesis
<1>1. /\ trigger = s.trigger /\ telemetry_findings = s.findings
      /\ Judgment(s) /\ recommended_actions = <<>>
  BY DEF StageInvariant
<1>2. /\ h # None /\ falsification # None
      /\ h = [Formed(s) EXCEPT !.confidence = Rescored(s)]
      /\ falsification = Judged(s)
  BY <1>1 DEF Judgment
<1>3. ~Refuted
  BY <1>2, JudgedNotRefuted DEF Refuted
<1>4. Recommend(Draft(Selected, ~Autonomous), "recommended")
  BY <1>3 DEF action_step, action_veto, action_draft
<1>5. h.summary = Formed(s).summary /\ h.revision = 1
  BY <1>2 DEF Formed
<1>6. Selected = DraftedFor(Formed(s).summary)
  <2>1. Selected = DraftedFor(h.summary)
    BY <1>2, Zenon DEF Selected, DraftedFor
  <2> HIDE DEF h
  <2> QED
    BY <1>5, <2>1
<1> DEFINE draft == Draft(Selected, ~Autonomous)
<1>7. draft.description = DraftedFor(Formed(s).summary).description /\ draft.of = 1
  <2>1. draft.description = Selected.description /\ draft.of = HypothesisRevision
    BY DEF Draft
  <2>2. HypothesisRevision = 1
    BY <1>2, <1>5 DEF HypothesisRevision
  <2> QED
    BY <1>6, <2>1, <2>2
<1> HIDE DEF draft
<1>8. /\ recommended_actions' = Append(<<>>, draft)
      /\ UNCHANGED <<trigger, telemetry_findings, causal_hypothesis, falsification,
                     confidence_score>>
  BY <1>1, <1>4 DEF Recommend, draft
<1>9. Len(recommended_actions') = 1 /\ recommended_actions'[1] = draft
  BY <1>8
<1>10. Drafted(s)'
  BY <1>7, <1>9 DEF Drafted
<1>11. Judgment(s)'
  BY <1>1, <1>8 DEF Judgment
<1>12. StageInvariant(s)'
  BY <1>1, <1>8, <1>10, <1>11 DEF StageInvariant
<1> QED
  BY <1>8, <1>12 DEF Unabridged

(* The prediction is about that action and that hypothesis. *)
LEMMA CounterfactualStage ==
  ASSUME NEW s \in Scenarios, StageInvariant(s), Unabridged,
         counterfactual_rule \/ fake_counterfactual,
         pc = "counterfactual", pc' = "score"
  PROVE  StageInvariant(s)' /\ Unabridged'
<1>1. /\ trigger = s.trigger /\ telemetry_findings = s.findings
      /\ Judgment(s) /\ Drafted(s)
  BY DEF StageInvariant
<1>2. PICK rule, method : Predict(rule, method)
  <2>1. CASE counterfactual_rule
    BY <2>1, Zenon DEF counterfactual_rule
  <2>2. CASE fake_counterfactual
    BY <2>2, FakePredicts, Zenon DEF counterfactual_ask
  <2> QED
    BY <2>1, <2>2
<1>3. /\ counterfactual'.action_description = ProposedAction
      /\ counterfactual'.of = causal_hypothesis.revision
      /\ UNCHANGED <<trigger, telemetry_findings, causal_hypothesis, falsification,
                     recommended_actions, confidence_score>>
  BY <1>2 DEF Predict
<1>4. causal_hypothesis.revision = 1
  BY <1>1 DEF Judgment, Formed
<1>5. ProposedAction = recommended_actions[1].description
  <2>1. Len(recommended_actions) = 1
    BY <1>1 DEF Drafted
  <2>2. recommended_actions # <<>>
    BY <2>1
  <2> QED
    BY <2>2, Zenon DEF ProposedAction
<1>6. Judgment(s)' /\ Drafted(s)' /\ Predicted'
  BY <1>1, <1>3, <1>4, <1>5 DEF Judgment, Drafted, Predicted
<1>7. StageInvariant(s)'
  BY <1>1, <1>3, <1>6 DEF StageInvariant
<1> QED
  BY <1>3, <1>7 DEF Unabridged

(* The row of a scenario is the expected one. *)
LEMMA ScoreStage ==
  ASSUME NEW s \in Scenarios, StageInvariant(s), pc = "score"
  PROVE  ScoreOf(s) = Expected(s)
<1>1. Judgment(s) /\ Drafted(s)
  BY DEF StageInvariant
<1>2. causal_hypothesis.summary = Formed(s).summary
  BY <1>1 DEF Judgment, Formed
<1>3. /\ confidence_score = Rescored(s).final
      /\ falsification.verdict = Judged(s).verdict
      /\ recommended_actions[1].description = DraftedFor(Formed(s).summary).description
  BY <1>1 DEF Judgment, Drafted
<1> QED
  BY <1>2, <1>3, Zenon DEF ScoreOf, Expected

(***************************************************************************)
(* The invariant of run().                                                 *)
(***************************************************************************)
LEMMA InitInvariant == Init => RunInvariant
<1> SUFFICES ASSUME Init
             PROVE  RunInvariant
  OBVIOUS
<1>1. StepInvariant /\ causal_hypothesis = None
  <2> DEFINE t == CHOOSE t \in {s.trigger : s \in Scenarios} : TRUE
  <2>1. t \in Trigger
    BY BenchmarkAssumption
  <2>2. new_state(t)
    BY DEF Init
  <2> HIDE DEF t
  <2>3. StepInvariant
    BY <2>1, <2>2, NewStateInvariant
  <2> QED
    BY <2>2, <2>3 DEF new_state
<1>2. scored = <<>> /\ pc = "open"
  BY DEF Init
<1>3. scenarios \in Seq(Scenarios)
  <2>1. PICK n \in 0..MaxLimit : scenarios \in [1..n -> Scenarios]
    BY DEF Init
  <2>2. n \in Nat
    BY BenchmarkAssumption
  <2> QED
    BY <2>1, <2>2, MappedSeq
<1>4. LoopInvariant
  <2>1. Len(scored) = 0 /\ Len(scenarios) \in Nat
    BY <1>2, <1>3
  <2>2. scored \in Seq({Expected(s) : s \in Scenarios})
    BY <1>2
  <2>3. \A i \in 1..Len(scored) : scored[i] = Expected(scenarios[i])
    BY <2>1
  <2> QED
    BY <1>2, <1>3, <2>1, <2>2, <2>3 DEF LoopInvariant, Stages
<1>5. IsScored(scored)
  <2>1. Len(scored) = 0 /\ DOMAIN scored = 1..Len(scored)
    BY <1>2
  <2> QED
    BY <2>1 DEF IsScored
<1>6. Unabridged
  BY <1>1 DEF Unabridged
<1> QED
  BY <1>1, <1>2, <1>4, <1>5, <1>6 DEF RunInvariant, Stages

(* A step of the investigation of a scenario keeps it, when it keeps what  *)
(* is known of the dict of that scenario.                                  *)
LEMMA InvestigationKeepsInvariant ==
  ASSUME RunInvariant, NEW s \in Scenarios, s = Current, Len(scored) < Len(scenarios),
         UNCHANGED <<scenarios, scored>>, pc' \in Stages,
         StepInvariant', StageInvariant(s)', Unabridged'
  PROVE  RunInvariant'
<1>1. scenarios' = scenarios /\ scored' = scored
  OBVIOUS
<1>2. Current' = s
  BY <1>1 DEF Current
<1>3. LoopInvariant'
  BY <1>1 DEF RunInvariant, LoopInvariant
<1>4. IsScored(scored)'
  BY <1>1 DEF RunInvariant
<1> QED
  BY <1>2, <1>3, <1>4 DEF RunInvariant

(* The scenario under investigation. *)
LEMMA InvestigatedScenario ==
  ASSUME LoopInvariant, Len(scored) < Len(scenarios)
  PROVE  Current \in Scenarios
<1>1. Len(scored) \in Nat /\ Len(scenarios) \in Nat /\ scenarios \in Seq(Scenarios)
  BY DEF LoopInvariant
<1>2. Len(scored) + 1 \in 1..Len(scenarios)
  BY <1>1
<1> QED
  BY <1>1, <1>2, ElementOfSeq DEF Current

(* The row of a finished scenario is appended. *)
LEMMA ScoreKeepsInvariant ==
  ASSUME RunInvariant, Score
  PROVE  RunInvariant'
<1>1. /\ pc = "score" /\ pc' = "open" /\ scenarios' = scenarios /\ UNCHANGED state
      /\ scored' = Append(scored, ScoreOf(Current))
  BY NextStage DEF Score, Goes
<1>2. /\ StepInvariant /\ LoopInvariant /\ IsScored(scored) /\ Unabridged
      /\ Len(scored) < Len(scenarios)
  BY <1>1 DEF RunInvariant, LoopInvariant, Stages
<1>3. PICK s \in Scenarios : s = Current
  BY <1>2, InvestigatedScenario
<1>4. StageInvariant(s)
  BY <1>1, <1>3 DEF RunInvariant, Stages
<1> DEFINE row == Expected(s)
<1>5. ScoreOf(Current) = row
  BY <1>1, <1>3, <1>4, ScoreStage
<1>6. row.confidence \in Scale /\ row.correct \in {0, 1}
  <2>1. confidence_score \in Scale
    BY <1>2 DEF StepInvariant, TypeOK, Scale
  <2>2. row.confidence = confidence_score
    <3>1. ScoreOf(Current).confidence = confidence_score
      BY DEF ScoreOf
    <3> QED
      BY <1>5, <3>1, Zenon
  <2>3. row.correct \in {0, 1}
    BY DEF Expected
  <2> QED
    BY <2>1, <2>2, <2>3, Zenon
<1>7. row \in {Expected(t) : t \in Scenarios}
  OBVIOUS
<1> HIDE DEF row
<1>8. /\ scored \in Seq({Expected(t) : t \in Scenarios})
      /\ Len(scored) \in Nat /\ Len(scenarios) \in Nat
  BY <1>2 DEF LoopInvariant
<1>9. /\ scored' \in Seq({Expected(t) : t \in Scenarios})
      /\ Len(scored') = Len(scored) + 1
      /\ DOMAIN scored' = 1..Len(scored')
      /\ scored'[Len(scored) + 1] = row
      /\ \A i \in 1..Len(scored) : scored'[i] = scored[i]
  <2> DEFINE S == {Expected(t) : t \in Scenarios}
  <2> HIDE DEF S
  <2>1. scored \in Seq(S) /\ row \in S /\ scored' = Append(scored, row)
    BY <1>1, <1>5, <1>7, <1>8 DEF S
  <2>2. /\ scored' \in Seq(S)
        /\ Len(scored') = Len(scored) + 1
        /\ DOMAIN scored' = 1..Len(scored')
        /\ scored'[Len(scored) + 1] = row
        /\ \A i \in 1..Len(scored) : scored'[i] = scored[i]
    BY <2>1, AppendProperties
  <2> QED
    BY <2>2 DEF S
<1>10. \A i \in 1..Len(scored') : i \in 1..Len(scored) \/ i = Len(scored) + 1
  BY <1>8, <1>9
<1>11. IsScored(scored)'
  <2>1. \A i \in 1..Len(scored) : scored[i].confidence \in Scale /\ scored[i].correct \in {0, 1}
    BY <1>2, Zenon DEF IsScored
  <2>2. \A i \in 1..Len(scored') :
          scored'[i].confidence \in Scale /\ scored'[i].correct \in {0, 1}
    BY <1>6, <1>9, <1>10, <2>1
  <2>3. Len(scored') \in Nat
    BY <1>8, <1>9
  <2> QED
    BY <1>9, <2>2, <2>3 DEF IsScored
<1>12. LoopInvariant'
  <2>1. \A i \in 1..Len(scored) : scored[i] = Expected(scenarios[i])
    BY <1>2 DEF LoopInvariant
  <2>2. scenarios[Len(scored) + 1] = s
    BY <1>3 DEF Current
  <2>3. \A i \in 1..Len(scored') : scored'[i] = Expected(scenarios[i])
    BY <1>9, <1>10, <2>1, <2>2 DEF row
  <2>4. Len(scored') <= Len(scenarios)
    BY <1>2, <1>8, <1>9
  <2>5. scenarios \in Seq(Scenarios)
    BY <1>2 DEF LoopInvariant
  <2> QED
    BY <1>1, <1>9, <2>3, <2>4, <2>5 DEF LoopInvariant, Stages
<1>13. Unabridged'
  BY <1>1, <1>2 DEF Unabridged, state
<1>14. StepInvariant'
  BY <1>1, <1>2, StutterKeepsInvariant
<1>15. pc' \notin Stages
  BY <1>1 DEF Stages
<1> QED
  BY <1>11, <1>12, <1>13, <1>14, <1>15 DEF RunInvariant

LEMMA NextInvariant == RunInvariant /\ [Next]_vars => RunInvariant'
<1> SUFFICES ASSUME RunInvariant, [Next]_vars
             PROVE  RunInvariant'
  OBVIOUS
<1>0. StepInvariant /\ TypeOK /\ LoopInvariant /\ IsScored(scored) /\ Unabridged
  BY DEF RunInvariant, StepInvariant
<1>1. CASE Open
  <2>1. /\ pc' = "supervisor" /\ UNCHANGED <<scenarios, scored>> /\ Renew(Current)
        /\ Len(scored) < Len(scenarios)
    BY <1>1, NextStage DEF Open, Goes
  <2>2. PICK s \in Scenarios : s = Current
    BY <1>0, <2>1, InvestigatedScenario
  <2>3. Renew(s)
    BY <2>1, <2>2
  <2>4. StepInvariant' /\ StageInvariant(s)' /\ Unabridged'
    BY <2>1, <2>3, OpenStage
  <2> QED
    BY <2>1, <2>2, <2>4, InvestigationKeepsInvariant DEF Stages
<1>2. ASSUME pc \in Stages
      PROVE  Len(scored) < Len(scenarios) /\ \E s \in Scenarios : s = Current /\ StageInvariant(s)
  <2>1. Len(scored) < Len(scenarios)
    BY <1>0, <1>2 DEF LoopInvariant
  <2>2. Current \in Scenarios
    BY <1>0, <2>1, InvestigatedScenario
  <2> QED
    BY <1>2, <2>1, <2>2 DEF RunInvariant
<1>3. CASE RunSupervisor
  <2>1. /\ pc = "supervisor" /\ pc' = "reasoning" /\ UNCHANGED <<scenarios, scored>>
        /\ supervisor_step
    BY <1>3, NextStage DEF RunSupervisor, Goes
  <2>2. PICK s \in Scenarios : s = Current /\ StageInvariant(s)
    BY <1>2, <2>1 DEF Stages
  <2>3. StageInvariant(s)' /\ Unabridged'
    BY <1>0, <2>1, <2>2, SupervisorStage
  <2>4. StepInvariant'
    BY <1>0, <2>1, StepKeepsInvariant, Zenon DEF AnyStep
  <2> QED
    BY <1>2, <2>1, <2>2, <2>3, <2>4, InvestigationKeepsInvariant DEF Stages
<1>4. CASE RunReasoning
  <2>1. /\ pc = "reasoning" /\ pc' = "falsifier" /\ UNCHANGED <<scenarios, scored>>
        /\ fake_reasoning(Told(Current))
    BY <1>4, NextStage DEF RunReasoning, Goes
  <2>2. PICK s \in Scenarios : s = Current /\ StageInvariant(s)
    BY <1>2, <2>1 DEF Stages
  <2>3. fake_reasoning(Told(s))
    BY <2>1, <2>2
  <2>4. StageInvariant(s)' /\ Unabridged'
    BY <1>0, <2>1, <2>2, <2>3, ReasoningStage
  <2>5. StepInvariant'
    BY <1>0, <2>3, FakeSteps, StepKeepsInvariant, Zenon
  <2> QED
    BY <1>2, <2>1, <2>2, <2>4, <2>5, InvestigationKeepsInvariant DEF Stages
<1>5. CASE RunFalsifier
  <2>1. /\ pc = "falsifier" /\ pc' = "action" /\ UNCHANGED <<scenarios, scored>>
        /\ fake_falsifier(Told(Current))
    BY <1>5, NextStage DEF RunFalsifier, Goes
  <2>2. PICK s \in Scenarios : s = Current /\ StageInvariant(s)
    BY <1>2, <2>1 DEF Stages
  <2>3. fake_falsifier(Told(s))
    BY <2>1, <2>2
  <2>4. StageInvariant(s)' /\ Unabridged'
    BY <1>0, <2>1, <2>2, <2>3, FalsifierStage
  <2>5. StepInvariant'
    BY <1>0, <2>3, FakeSteps, StepKeepsInvariant, Zenon
  <2> QED
    BY <1>2, <2>1, <2>2, <2>4, <2>5, InvestigationKeepsInvariant DEF Stages
<1>6. CASE RunAction
  <2>1. /\ pc = "action" /\ pc' = "counterfactual" /\ UNCHANGED <<scenarios, scored>>
        /\ action_step
    BY <1>6, NextStage DEF RunAction, Goes
  <2>2. PICK s \in Scenarios : s = Current /\ StageInvariant(s)
    BY <1>2, <2>1 DEF Stages
  <2>3. StageInvariant(s)' /\ Unabridged'
    BY <1>0, <2>1, <2>2, ActionStage
  <2>4. StepInvariant'
    BY <1>0, <2>1, StepKeepsInvariant, Zenon DEF AnyStep
  <2> QED
    BY <1>2, <2>1, <2>2, <2>3, <2>4, InvestigationKeepsInvariant DEF Stages
<1>7. CASE RunCounterfactual
  <2>1. /\ pc = "counterfactual" /\ pc' = "score" /\ UNCHANGED <<scenarios, scored>>
        /\ counterfactual_rule \/ fake_counterfactual
    BY <1>7, NextStage DEF RunCounterfactual, Goes
  <2>2. PICK s \in Scenarios : s = Current /\ StageInvariant(s)
    BY <1>2, <2>1 DEF Stages
  <2>3. StageInvariant(s)' /\ Unabridged'
    BY <1>0, <2>1, <2>2, CounterfactualStage
  <2>4. StepInvariant'
    BY <1>0, <2>1, FakeSteps, StepKeepsInvariant, Zenon
  <2> QED
    BY <1>2, <2>1, <2>2, <2>3, <2>4, InvestigationKeepsInvariant DEF Stages
<1>8. CASE Score
  BY <1>8, ScoreKeepsInvariant
<1>9. CASE Report
  <2>1. UNCHANGED <<state, scenarios, scored>> /\ pc' = "reported"
    BY <1>9 DEF Report
  <2>2. StepInvariant'
    BY <1>0, <2>1, StutterKeepsInvariant
  <2>3. LoopInvariant' /\ IsScored(scored)'
    BY <1>0, <2>1 DEF LoopInvariant, Stages
  <2>4. Unabridged'
    BY <1>0, <2>1 DEF Unabridged, state
  <2> QED
    BY <2>1, <2>2, <2>3, <2>4 DEF RunInvariant, Stages
<1>10. CASE UNCHANGED vars
  <2>1. UNCHANGED <<state, pc, scenarios, scored>>
    BY <1>10 DEF vars
  <2>2. StepInvariant'
    BY <1>0, <2>1, StutterKeepsInvariant
  <2>3. LoopInvariant' /\ IsScored(scored)'
    BY <1>0, <2>1 DEF LoopInvariant
  <2>4. Unabridged'
    BY <1>0, <2>1 DEF Unabridged, state
  <2>5. pc' \in Stages => \A s \in Scenarios : s = Current' => StageInvariant(s)'
    <3> SUFFICES ASSUME pc \in Stages, NEW s \in Scenarios, s = Current
                 PROVE  StageInvariant(s)'
      BY <2>1 DEF Current
    <3>1. StageInvariant(s)
      BY DEF RunInvariant
    <3>2. /\ UNCHANGED <<trigger, telemetry_findings, causal_hypothesis, falsification,
                         counterfactual, recommended_actions, confidence_score, revision>>
          /\ UNCHANGED pc
      BY <2>1 DEF state
    <3> QED
      BY <3>1, <3>2 DEF StageInvariant, Untouched, Judgment, Drafted, Predicted
  <2> QED
    BY <2>2, <2>3, <2>4, <2>5 DEF RunInvariant
<1> QED
  BY <1>1, <1>3, <1>4, <1>5, <1>6, <1>7, <1>8, <1>9, <1>10, Zenon DEF Next

(* The state of a run, whatever the corpus and its length: the agents'     *)
(* invariant, the row of every scored scenario, and, at every line of the  *)
(* loop, what the scenario alone makes of its dict                         *)
(* (bench/run_benchmark.py run).                                           *)
THEOREM RunCorrect == Spec => []RunInvariant
<1> QED
  BY InitInvariant, NextInvariant, PTL DEF Spec

(* A scenario is scored on its own, whatever was investigated before it:   *)
(* its row is a function of it, and the action of the row is the one       *)
(* drafted for the hypothesis of the row.                                  *)
THEOREM ScenariosScoredAlone == Spec => []ScenariosIsolated
<1>1. RunInvariant => ScenariosIsolated
  <2> SUFFICES ASSUME RunInvariant
               PROVE  ScenariosIsolated
    OBVIOUS
  <2>1. /\ DOMAIN scored = 1..Len(scored)
        /\ \A i \in 1..Len(scored) : scored[i] = Expected(scenarios[i])
    BY DEF RunInvariant, IsScored, LoopInvariant
  <2>2. \A i, j \in DOMAIN scored : scenarios[i] = scenarios[j] => scored[i] = scored[j]
    BY <2>1
  <2>3. \A s : Expected(s).recommended = DraftedFor(Expected(s).summary).description
    BY DEF Expected
  <2>4. \A i \in DOMAIN scored :
          scored[i].recommended = DraftedFor(scored[i].summary).description
    BY <2>1, <2>3
  <2> QED
    BY <2>2, <2>4 DEF ScenariosIsolated
<1> QED
  BY <1>1, RunCorrect, PTL

(* The prediction a scenario is scored with is about the action it         *)
(* recommends and about the reviewed hypothesis.                           *)
THEOREM PredictionFollowsAction == Spec => []PredictionConcernsAction
<1>1. RunInvariant => PredictionConcernsAction
  <2> SUFFICES ASSUME RunInvariant, pc = "score"
               PROVE  /\ Reviewed
                      /\ counterfactual.action_description = recommended_actions[1].description
                      /\ recommended_actions[1].of = counterfactual.of
    BY DEF PredictionConcernsAction
  <2>1. Len(scored) < Len(scenarios) /\ LoopInvariant
    BY DEF RunInvariant, LoopInvariant, Stages
  <2>2. PICK s \in Scenarios : s = Current
    BY <2>1, InvestigatedScenario
  <2>3. Judgment(s) /\ Drafted(s) /\ Predicted
    BY <2>2 DEF RunInvariant, StageInvariant, Stages
  <2>4. causal_hypothesis.revision = 1 /\ falsification.of = 1
    BY <2>3 DEF Judgment, Formed, Judged
  <2>5. Reviewed
    BY <2>3, <2>4 DEF Reviewed, Judgment
  <2> QED
    BY <2>3, <2>5 DEF Drafted, Predicted
<1> QED
  BY <1>1, RunCorrect, PTL

(* What the claims of a row cite. *)
Cites(claims) == {c.supporting_finding_ids : c \in claims}
RowCites(row) == {row.claims[n].supports : n \in DOMAIN row.claims}

LEMMA RowClaimsCite ==
  ASSUME NEW row
  PROVE  Cites(RowClaims(row)) = RowCites(row)
<1> DEFINE C(n) == [line |-> n, supporting_finding_ids |-> row.claims[n].supports]
<1>1. RowClaims(row) = {C(n) : n \in DOMAIN row.claims}
  BY DEF RowClaims
<1>2. \A n : C(n).supporting_finding_ids = row.claims[n].supports
  OBVIOUS
<1> HIDE DEF C
<1> QED
  BY <1>1, <1>2 DEF Cites, RowCites

(* No claim and no citation of a canned reply is ever dropped, for any     *)
(* corpus of incidents the generator can make.                             *)
THEOREM CannedClaimsKept == Spec => []CannedClaimsCited
<1> DEFINE RowAt(i) == IF i = 0 THEN REASONING_FALLBACK ELSE REASONING_RESPONSES[i]
           Kept     == /\ causal_hypothesis.dropped = {}
                       /\ \E i \in DOMAIN REASONING_RESPONSES \cup {0} :
                            /\ RowAt(i).summary = causal_hypothesis.summary
                            /\ Cites(causal_hypothesis.claims) = RowCites(RowAt(i))
<1>1. CannedClaimsCited <=> (causal_hypothesis # None => Kept)
  BY Zenon DEF CannedClaimsCited, Cites, RowCites
<1>2. ASSUME RunInvariant, causal_hypothesis # None
      PROVE  Kept
  <2>1. causal_hypothesis.dropped = {}
    BY <1>2 DEF RunInvariant, Unabridged
  <2>2. PICK row \in RowsOf(REASONING_RESPONSES, REASONING_FALLBACK) :
          causal_hypothesis.summary = row.summary /\ causal_hypothesis.claims = RowClaims(row)
    BY <1>2 DEF RunInvariant, Unabridged
  <2>3. Cites(causal_hypothesis.claims) = RowCites(row)
    BY <2>2, RowClaimsCite
  <2>4. PICK i \in DOMAIN REASONING_RESPONSES \cup {0} : row = RowAt(i)
    <3>1. 0 \notin DOMAIN REASONING_RESPONSES
      BY ReasoningDomain
    <3> QED
      BY <3>1 DEF RowsOf
  <2> HIDE DEF RowAt
  <2> QED
    BY <2>1, <2>2, <2>3, <2>4
<1> HIDE DEF Kept
<1>3. RunInvariant => CannedClaimsCited
  BY <1>1, <1>2
<1> QED
  BY <1>3, RunCorrect, PTL

(* A ratio is of a part to its whole. *)
LEMMA RatioAtMostOne ==
  ASSUME NEW of, IsFiniteSet(of), NEW hits, hits \subseteq of
  PROVE  Ratio(hits, of).hits <= Ratio(hits, of).of
<1>1. Cardinality(hits) <= Cardinality(of)
  BY FS_Subset
<1> QED
  BY <1>1 DEF Ratio

(* The two scores of a calibration agree, and every score reported lies    *)
(* between 0 and 1, whatever is scored and however much (bench/metrics.py).*)
THEOREM CalibrationAgrees == Spec => []CalibrationCoherent
<1>1. RunInvariant => CalibrationCoherent
  <2> SUFFICES ASSUME RunInvariant
               PROVE  CalibrationCoherent
    OBVIOUS
  <2>1. IsScored(scored)
    BY DEF RunInvariant
  <2>2. /\ expected_calibration_error(scored) <= One * Len(scored)
        /\ expected_calibration_error(scored) * expected_calibration_error(scored)
             <= Len(scored) * brier_score(scored)
        /\ brier_score(scored) <= OneSquared * Len(scored)
        /\ Abs(Total([i \in DOMAIN scored |-> Gap(scored[i])]))
             <= expected_calibration_error(scored)
    BY <2>1, ScoresAgree
  <2>3. IsFiniteSet(DOMAIN scored)
    <3>1. DOMAIN scored = 1..Len(scored) /\ Len(scored) \in Nat
      BY <2>1 DEF IsScored
    <3>2. IsFiniteSet(1..Len(scored))
      BY <3>1, FS_Interval
    <3> QED
      BY <3>1, <3>2
  <2>4. /\ IsFiniteSet(PredictedPositive(scored))
        /\ IsFiniteSet(ActualPositive(scored))
    BY <2>3, FS_Subset DEF PredictedPositive, ActualPositive
  <2>5. /\ falsifier_precision(scored).hits <= falsifier_precision(scored).of
        /\ falsifier_recall(scored).hits <= falsifier_recall(scored).of
    <3>1. /\ TruePositive(scored) \subseteq PredictedPositive(scored)
          /\ TruePositive(scored) \subseteq ActualPositive(scored)
      BY DEF TruePositive
    <3> QED
      BY <2>4, <3>1, RatioAtMostOne DEF falsifier_precision, falsifier_recall
  <2>6. action_precision(scored).hits <= action_precision(scored).of
    <3> DEFINE hits == {i \in DOMAIN scored :
                          ActionNamed(scored[i].recommended) = scored[i].ground_truth}
    <3>1. hits \subseteq DOMAIN scored
      OBVIOUS
    <3>2. action_precision(scored) = Ratio(hits, DOMAIN scored)
      BY DEF action_precision
    <3> HIDE DEF hits
    <3> QED
      BY <2>3, <3>1, <3>2, RatioAtMostOne
  <2>7. hypothesis_accuracy(scored).hits <= hypothesis_accuracy(scored).of
    <3> DEFINE hits == {i \in DOMAIN scored :
                          \E w \in DOMAIN scored[i].cause :
                            scored[i].cause[w] \in scored[i].summary}
    <3>1. hits \subseteq DOMAIN scored
      OBVIOUS
    <3>2. hypothesis_accuracy(scored) = Ratio(hits, DOMAIN scored)
      BY DEF hypothesis_accuracy
    <3> HIDE DEF hits
    <3> QED
      BY <2>3, <3>1, <3>2, RatioAtMostOne
  <2>8. \A metric \in DOMAIN results : results[metric].hits <= results[metric].of
    <3>1. /\ DOMAIN results = {"hypothesis_accuracy", "falsifier_precision",
                               "falsifier_recall", "action_precision"}
          /\ results["hypothesis_accuracy"] = hypothesis_accuracy(scored)
          /\ results["falsifier_precision"] = falsifier_precision(scored)
          /\ results["falsifier_recall"] = falsifier_recall(scored)
          /\ results["action_precision"] = action_precision(scored)
      BY DEF results
    <3> QED
      BY <2>5, <2>6, <2>7, <3>1
  <2>9. /\ expected_calibration_error(scored) <= 10000 * Len(scored)
        /\ brier_score(scored) <= 100000000 * Len(scored)
    BY <2>2, SMT DEF One, OneSquared
  <2> QED
    BY <2>2, <2>8, <2>9, SMT DEF CalibrationCoherent
<1> QED
  BY <1>1, RunCorrect, PTL
=============================================================================
