------------------------------ MODULE Division ------------------------------
(***************************************************************************)
(* Facts about numbers: the integer division that sizes batches, blocks    *)
(* and grids, the least number of a set, induction over a range, the       *)
(* functions that recursion over it defines, and sums.                     *)
(***************************************************************************)
EXTENDS Integers, FiniteSetTheorems, TLAPS, Sums

(* The quotient of a // b, between two multiples of b. *)
LEMMA DivBounds ==
  ASSUME NEW a \in Nat, NEW b \in Nat \ {0}
  PROVE  a \div b \in Nat /\ b * (a \div b) <= a /\ a < b * (a \div b) + b
OBVIOUS

(* No other number lies between them. *)
LEMMA DivUnique ==
  ASSUME NEW a \in Nat, NEW b \in Nat \ {0}, NEW q \in Nat,
         b * q <= a, a < b * q + b
  PROVE  a \div b = q
OBVIOUS

(* Element j of block n is in block n. *)
LEMMA DivOfSum ==
  ASSUME NEW b \in Nat \ {0}, NEW n \in Nat, NEW j \in 0 .. b - 1
  PROVE  (n * b + j) \div b = n
<1>1. n * b + j \in Nat /\ b * n = n * b /\ n * b \in Nat
  OBVIOUS
<1>2. b * n <= n * b + j /\ n * b + j < b * n + b
  BY <1>1
<1> QED
  BY <1>1, <1>2, DivUnique

(* A remainder of zero, as the asserts on batch sizes ask for. *)
LEMMA Divides ==
  ASSUME NEW a \in Nat, NEW b \in Nat \ {0}, a % b = 0
  PROVE  a = b * (a \div b)
OBVIOUS

(* Consecutive blocks of c do not overlap. *)
LEMMA MulMono ==
  ASSUME NEW a \in Nat, NEW b \in Nat, NEW c \in Nat, a < b
  PROVE  a * c + c <= b * c
OBVIOUS

(* Ceiling division counts the blocks of b that start below a. *)
LEMMA CeilLess ==
  ASSUME NEW a \in Int, NEW b \in Nat \ {0}, NEW n \in Int
  PROVE  /\ (a + b - 1) \div b \in Int
         /\ n < (a + b - 1) \div b <=> n * b < a
<1> DEFINE q == (a + b - 1) \div b
<1>1. q \in Int /\ b * q <= a + b - 1 /\ a + b - 1 < b * q + b
  OBVIOUS
<1> HIDE DEF q
<1>2. n < q => n * b < a
  <2> SUFFICES ASSUME n < q PROVE n * b < a
    OBVIOUS
  <2>1. n + 1 <= q
    BY <1>1
  <2>2. (n + 1) * b <= q * b
    BY <1>1, <2>1
  <2>3. (n + 1) * b = n * b + b /\ q * b = b * q
    BY <1>1
  <2> QED
    BY <1>1, <2>2, <2>3
<1>3. n >= q => n * b >= a
  <2> SUFFICES ASSUME n >= q PROVE n * b >= a
    OBVIOUS
  <2>1. n * b >= q * b /\ q * b = b * q
    BY <1>1
  <2> QED
    BY <1>1, <2>1
<1>4. n * b \in Int
  OBVIOUS
<1>5. n < q <=> n * b < a
  BY <1>1, <1>2, <1>3, <1>4
<1> QED
  BY <1>1, <1>5 DEF q

(* Some numbers, the least of them. *)
LEMMA LeastNumber ==
  ASSUME NEW T, T \subseteq Nat, T # {}
  PROVE  \E x \in T : \A y \in T : x <= y
<1> DEFINE U == {0 .. x : x \in T}
<1>1. U \subseteq FiniteSubsetsOf(Nat) /\ U # {}
  <2>1. ASSUME NEW x \in T PROVE IsFiniteSet(0 .. x) /\ 0 .. x \subseteq Nat
    BY FS_Interval
  <2> QED
    BY <2>1 DEF FiniteSubsetsOf
<1>2. IsWellFoundedOn(StrictSubsetOrdering(Nat), FiniteSubsetsOf(Nat))
  BY FS_StrictSubsetOrderingWellFounded
<1> HIDE DEF U
<1>3. PICK u \in U : \A v \in U : ~(<<v, u>> \in StrictSubsetOrdering(Nat))
  BY <1>1, <1>2, WFMin
<1>4. PICK x \in T : u = 0 .. x
  BY DEF U
<1>5. ASSUME NEW y \in T, y < x PROVE FALSE
  <2>1. <<0 .. y, 0 .. x>> \in StrictSubsetOrdering(Nat)
    <3>1. 0 .. y \subseteq 0 .. x /\ x \in 0 .. x /\ x \notin 0 .. y
      BY <1>5
    <3> QED
      BY <3>1 DEF StrictSubsetOrdering
  <2> QED
    BY <1>3, <1>4, <2>1 DEF U
<1> QED
  BY <1>5

(* A set that has lo and, with every number below n, the next one has all of
   lo .. n. *)
LEMMA Induction ==
  ASSUME NEW n \in Nat, NEW lo \in Nat, NEW G, lo \in G,
         \A k \in lo .. n - 1 : k \in G => k + 1 \in G
  PROVE  lo .. n \subseteq G
<1> DEFINE T == {k \in lo .. n : k \notin G}
<1> SUFFICES ASSUME T # {} PROVE FALSE
  OBVIOUS
<1>1. PICK k \in T : \A y \in T : k <= y
  <2>1. T \subseteq Nat
    OBVIOUS
  <2> QED
    BY <2>1, LeastNumber
<1>2. k \in lo .. n /\ k # lo
  OBVIOUS
<1>3. k - 1 \in lo .. n - 1 /\ (k - 1) + 1 = k
  BY <1>2
<1>4. k - 1 \in G
  <2> SUFFICES ASSUME k - 1 \notin G PROVE FALSE
    OBVIOUS
  <2>1. k - 1 \in T
    BY <1>2, <1>3
  <2>2. k <= k - 1
    BY <1>1, <2>1
  <2> QED
    BY <1>2, <2>2
<1> QED
  BY <1>3, <1>4

(* f[0], f[1], ..., f[n], each from the one before by an operation on B. *)
Computed(n, B, base, Op) ==
  \E f \in [0 .. n -> B] : f[0] = base /\ \A i \in 1 .. n : f[i] = Op[i][f[i - 1]]

(* A recursive function on 0 .. n exists: Op[i] makes its value at i from the
   one before. *)
LEMMA Recursion ==
  ASSUME NEW n \in Nat, NEW B, NEW base \in B, NEW Op \in [1 .. n -> [B -> B]]
  PROVE  Computed(n, B, base, Op)
<1> DEFINE G == {k \in 0 .. n : Computed(k, B, base, Op)}
<1>1. 0 \in G
  <2> DEFINE f == [i \in 0 .. 0 |-> base]
  <2>1. f \in [0 .. 0 -> B] /\ f[0] = base
    OBVIOUS
  <2>2. \A i \in 1 .. 0 : f[i] = Op[i][f[i - 1]]
    OBVIOUS
  <2> HIDE DEF f
  <2> QED
    BY <2>1, <2>2 DEF Computed
<1>2. ASSUME NEW k \in 0 .. n - 1, k \in G PROVE k + 1 \in G
  <2>1. PICK f \in [0 .. k -> B] : f[0] = base /\ \A i \in 1 .. k : f[i] = Op[i][f[i - 1]]
    BY <1>2 DEF Computed
  <2> DEFINE g == [i \in 0 .. k + 1 |-> IF i <= k THEN f[i] ELSE Op[k + 1][f[k]]]
  <2>2. g \in [0 .. k + 1 -> B]
    <3>1. Op[k + 1] \in [B -> B] /\ f[k] \in B
      BY <2>1
    <3>2. Op[k + 1][f[k]] \in B
      BY <3>1
    <3> QED
      BY <2>1, <3>2
  <2>3. g[0] = base
    BY <2>1
  <2>4. ASSUME NEW i \in 1 .. k + 1 PROVE g[i] = Op[i][g[i - 1]]
    <3>1. i - 1 \in 0 .. k /\ i - 1 \in 0 .. k + 1 /\ i \in 0 .. k + 1
      OBVIOUS
    <3>2. g[i - 1] = f[i - 1]
      BY <3>1
    <3>3. CASE i <= k
      <4>1. g[i] = f[i]
        BY <3>1, <3>3
      <4>2. f[i] = Op[i][f[i - 1]]
        BY <2>1, <3>3
      <4> QED
        BY <3>2, <4>1, <4>2
    <3>4. CASE i = k + 1
      <4>1. g[i] = Op[k + 1][f[k]]
        BY <3>1, <3>4
      <4>2. i - 1 = k
        BY <3>4
      <4> QED
        BY <3>2, <3>4, <4>1, <4>2
    <3> QED
      BY <3>3, <3>4
  <2> HIDE DEF g
  <2> QED
    BY <2>2, <2>3, <2>4 DEF Computed
<1> HIDE DEF G
<1>3. 0 .. n \subseteq G
  BY <1>1, <1>2, Induction
<1> QED
  BY <1>3 DEF G

(* A property that the recursion keeps holds of every value. *)
LEMMA ValuesIn ==
  ASSUME NEW n \in Nat, NEW B, NEW f, f[0] \in B,
         \A i \in 1 .. n : f[i - 1] \in B => f[i] \in B
  PROVE  \A i \in 0 .. n : f[i] \in B
<1> DEFINE G == {i \in 0 .. n : f[i] \in B}
<1>1. 0 \in G
  OBVIOUS
<1>2. ASSUME NEW k \in 0 .. n - 1, k \in G PROVE k + 1 \in G
  <2>1. k + 1 \in 1 .. n /\ (k + 1) - 1 = k
    OBVIOUS
  <2>2. f[(k + 1) - 1] \in B
    BY <1>2, <2>1
  <2>3. f[k + 1] \in B
    BY <2>1, <2>2
  <2> QED
    BY <2>1, <2>3
<1> HIDE DEF G
<1>3. 0 .. n \subseteq G
  BY <1>1, <1>2, Induction
<1> QED
  BY <1>3 DEF G

(* The sums f[1] + ... + f[i] up to n. *)
LEMMA SumsOf ==
  ASSUME NEW n \in Nat, NEW f, \A i \in 1 .. n : f[i] \in Int
  PROVE  \E s \in [0 .. n -> Int] :
           s[0] = 0 /\ (\A i \in 1 .. n : s[i] = s[i - 1] + f[i]) /\ SumOf(f, n) = s[n]
<1> DEFINE Op == [i \in 1 .. n |-> [x \in Int |-> x + f[i]]]
           Is(g) == g = [i \in 0 .. n |-> IF i = 0 THEN 0 ELSE g[i - 1] + f[i]]
           s == CHOOSE g : Is(g)
<1>1. Op \in [1 .. n -> [Int -> Int]] /\ \A i \in 1 .. n, y \in Int : Op[i][y] = y + f[i]
  OBVIOUS
<1> HIDE DEF Op
<1>2. PICK g \in [0 .. n -> Int] : g[0] = 0 /\ \A i \in 1 .. n : g[i] = Op[i][g[i - 1]]
  <2>1. Computed(n, Int, 0, Op)
    <3>1. 0 \in Int /\ Op \in [1 .. n -> [Int -> Int]]
      BY <1>1
    <3> QED
      BY <3>1, Recursion
  <2> QED
    BY <2>1 DEF Computed
<1>3. ASSUME NEW i \in 1 .. n PROVE g[i] = g[i - 1] + f[i]
  <2>1. g[i - 1] \in Int
    BY <1>2
  <2> QED
    BY <1>1, <1>2, <2>1
<1>4. Is(g)
  BY <1>2, <1>3
<1>5. Is(s)
  <2> HIDE DEF Is
  <2> QED
    BY <1>4
<1>6. SumOf(f, n) = s[n]
  BY DEF SumOf
<1> HIDE DEF s
<1>7. s[0] = 0 /\ \A i \in 1 .. n : s[i] = s[i - 1] + f[i]
  BY <1>5
<1>8. \A i \in 0 .. n : s[i] \in Int
  <2>1. ASSUME NEW i \in 1 .. n, s[i - 1] \in Int PROVE s[i] \in Int
    <3>1. f[i] \in Int /\ s[i] = s[i - 1] + f[i]
      BY <1>7
    <3> QED
      BY <2>1, <3>1
  <2>2. s[0] \in Int
    BY <1>7
  <2> QED
    BY <2>1, <2>2, ValuesIn
<1>9. s \in [0 .. n -> Int]
  <2>1. s = [i \in 0 .. n |-> s[i]]
    BY <1>5
  <2> HIDE DEF Is
  <2> QED
    BY <1>8, <2>1
<1> QED
  BY <1>6, <1>7, <1>9

(* A sum is an integer, one more term than the sum before. *)
LEMMA SumFacts ==
  ASSUME NEW n \in Nat, NEW f, \A i \in 1 .. n : f[i] \in Int
  PROVE  /\ SumOf(f, 0) = 0 /\ \A k \in 0 .. n : SumOf(f, k) \in Int
         /\ \A k \in 1 .. n : SumOf(f, k) = SumOf(f, k - 1) + f[k]
<1>1. SumOf(f, 0) = 0
  <2>1. \A i \in 1 .. 0 : f[i] \in Int
    OBVIOUS
  <2> QED
    BY <2>1, SumsOf
<1>2. ASSUME NEW k \in 0 .. n PROVE SumOf(f, k) \in Int
  <2>1. k \in Nat /\ \A i \in 1 .. k : f[i] \in Int
    OBVIOUS
  <2>2. PICK s \in [0 .. k -> Int] :
          s[0] = 0 /\ (\A i \in 1 .. k : s[i] = s[i - 1] + f[i]) /\ SumOf(f, k) = s[k]
    BY <2>1, SumsOf
  <2> QED
    BY <2>1, <2>2
<1>3. ASSUME NEW k \in 1 .. n PROVE SumOf(f, k) = SumOf(f, k - 1) + f[k]
  <2> DEFINE m == k - 1
  <2>1. m \in Nat /\ k \in Nat /\ (\A i \in 1 .. k : f[i] \in Int) /\ \A i \in 1 .. m : f[i] \in Int
    OBVIOUS
  <2>2. PICK s \in [0 .. m -> Int] :
          s[0] = 0 /\ (\A i \in 1 .. m : s[i] = s[i - 1] + f[i]) /\ SumOf(f, m) = s[m]
    <3> HIDE DEF m
    <3> QED
      BY <2>1, SumsOf
  <2>3. PICK q \in [0 .. k -> Int] :
          q[0] = 0 /\ (\A i \in 1 .. k : q[i] = q[i - 1] + f[i]) /\ SumOf(f, k) = q[k]
    BY <2>1, SumsOf
  <2> DEFINE G == {i \in 0 .. m : s[i] = q[i]}
  <2>4. 0 \in G
    BY <2>1, <2>2, <2>3
  <2>5. ASSUME NEW i \in 0 .. m - 1, i \in G PROVE i + 1 \in G
    <3>1. i + 1 \in 1 .. m /\ i + 1 \in 1 .. k /\ (i + 1) - 1 = i /\ i + 1 \in 0 .. m
      BY <2>1
    <3>2. s[i + 1] = s[i] + f[i + 1] /\ q[i + 1] = q[i] + f[i + 1]
      BY <2>2, <2>3, <3>1
    <3> QED
      BY <2>5, <3>1, <3>2
  <2> HIDE DEF G
  <2>6. 0 .. m \subseteq G
    BY <2>1, <2>4, <2>5, Induction
  <2>7. s[m] = q[m]
    BY <2>1, <2>6 DEF G
  <2>8. k \in 1 .. k
    BY <2>1
  <2>9. q[k] = q[m] + f[k]
    BY <2>3, <2>8
  <2> QED
    BY <2>2, <2>3, <2>7, <2>9
<1> QED
  BY <1>1, <1>2, <1>3
=============================================================================
