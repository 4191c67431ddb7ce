------------------------- MODULE MCDualKVPackProofs --------------------------
(***************************************************************************)
(* The rows of a batch, between the controller and the packed forward      *)
(* pass, for any number of ranks, rows and prompts of any lengths.         *)
(*                                                                         *)
(* First, the packed and the standard path agree for micro-batches with    *)
(* uids.  Then what the partitions of verl/utils/seqlen_balancing.py are:  *)
(* every row in one part, and how far apart their work can be.  Last, the  *)
(* invariant of a call (DispatchInv), from which follows that the value of *)
(* each row comes back in its place.                                       *)
(***************************************************************************)
EXTENDS MCDualKVPack, DualKVPackProofs

-----------------------------------------------------------------------------
(***************************************************************************)
(* Micro-batches with uids.                                                *)
(***************************************************************************)

(* The rows of the batch: each has the length of its prompt.               *)
BatchInv ==
  /\ plen \in [Prompts -> Nat \ {0}]
  /\ Len(rows) \in Nat
  /\ rows \in Seq([prompt : Prompts, roll : Nat, plen : Nat \ {0}, rlen : Nat])
  /\ \A i \in 1 .. Len(rows) : rows[i].plen = plen[rows[i].prompt]

(* Every step that builds the batch gives a row the length of its prompt. *)
LEMMA BatchInvariant == Spec => []BatchInv
<1>1. Init => BatchInv
  <2> DEFINE Row == [prompt : Prompts, roll : Nat, plen : Nat \ {0}, rlen : Nat]
  <2> SUFFICES ASSUME Init PROVE BatchInv
    OBVIOUS
  <2>1. rows = <<>> /\ plen \in [Prompts -> Nat \ {0}]
    BY BatchAssumption DEF Init
  <2>2. rows \in Seq(Row) /\ Len(rows) = 0
    <3> HIDE DEF Row
    <3> QED
      BY <2>1
  <2> QED
    BY <2>1, <2>2 DEF BatchInv
<1>2. BatchInv /\ [Next]_vars => BatchInv'
  <2> SUFFICES ASSUME BatchInv, [Next]_vars PROVE BatchInv'
    OBVIOUS
  <2>1. CASE UNCHANGED packVars
    BY <2>1 DEF BatchInv, packVars
  <2>2. ASSUME NEW p \in Prompts, NEW n \in 0 .. RespLength, AddRow(p, n)
        PROVE  BatchInv'
    <3> DEFINE row == [prompt |-> p, roll |-> Len(rows), plen |-> plen[p], rlen |-> n]
    <3>1. row \in [prompt : Prompts, roll : Nat, plen : Nat \ {0}, rlen : Nat]
      BY <2>2, BatchAssumption DEF BatchInv
    <3>2. rows' = Append(rows, row) /\ plen' = plen /\ row.plen = plen[row.prompt]
      BY <2>2 DEF AddRow
    <3> DEFINE Row == [prompt : Prompts, roll : Nat, plen : Nat \ {0}, rlen : Nat]
    <3>3. rows \in Seq(Row) /\ row \in Row
      BY <3>1 DEF BatchInv
    <3>4. \A i \in 1 .. Len(rows) : rows[i].plen = plen[rows[i].prompt]
      BY DEF BatchInv
    <3> HIDE DEF row, Row
    <3>5. /\ rows' \in Seq(Row) /\ Len(rows') = Len(rows) + 1 /\ Len(rows) \in Nat
          /\ rows'[Len(rows) + 1] = row
          /\ \A i \in 1 .. Len(rows) : rows'[i] = rows[i]
      BY <3>2, <3>3
    <3>6. ASSUME NEW i \in 1 .. Len(rows') PROVE rows'[i].plen = plen'[rows'[i].prompt]
      BY <3>2, <3>4, <3>5
    <3>7. plen' \in [Prompts -> Nat \ {0}]
      BY <3>2 DEF BatchInv
    <3>8. rows' \in Seq([prompt : Prompts, roll : Nat, plen : Nat \ {0}, rlen : Nat])
      BY <3>5 DEF Row
    <3>9. Len(rows') \in Nat
      BY <3>5
    <3> QED
      BY <3>6, <3>7, <3>8, <3>9, Zenon DEF BatchInv
  <2> QED
    BY <2>1, <2>2 DEF Next, vars
<1> QED
  BY <1>1, <1>2, PTL DEF Spec

(***************************************************************************)
(* With the uids of its rows, the packed pass does not raise and returns   *)
(* what the standard path returns: the runs of equal uids are groups of    *)
(* rows of one prompt, wherever the rows of a prompt are in the batch.     *)
(***************************************************************************)
THEOREM PackedWithUidsIsStandard == Spec => []MultiGroupParity
<1>1. BatchInv => MultiGroupParity
  <2> SUFFICES ASSUME BatchInv, rows # <<>>
               PROVE  ForwardMicroBatch(rows, Uids, RespLength) =
                        Returns(StandardLogProbs(rows, RespLength))
    BY DEF MultiGroupParity
  <2> DEFINE sizes == GroupSizes(Uids, Len(rows))
  <2>1. Len(rows) \in Nat \ {0} /\ Len(Uids) = Len(rows)
    BY DEF BatchInv, Uids
  <2>2. GroupedUids(Uids, sizes, Len(rows))
    BY <2>1, GroupsOfUids
  <2>3. IsBatch(rows)
    <3> DEFINE Row == [prompt : Prompts, roll : Nat, plen : Nat \ {0}, rlen : Nat]
    <3>1. rows \in Seq(Row)
      BY DEF BatchInv
    <3>2. \A i \in 1 .. Len(rows) : rows[i] \in Row
      <4> HIDE DEF Row
      <4> QED
        BY <3>1
    <3> QED
      BY <2>1, <3>2 DEF IsBatch
  <2> HIDE DEF sizes
  <2>4. Grouped(rows, sizes)
    <3>1. sizes \in Seq(Nat \ {0}) /\ Before(sizes, Len(sizes) + 1) = Len(rows)
      BY <2>2 DEF GroupedUids
    <3>2. ASSUME NEW g \in 1 .. Len(sizes), NEW i \in 1 .. sizes[g]
          PROVE  /\ rows[Before(sizes, g) + i].prompt = rows[Before(sizes, g) + 1].prompt
                 /\ rows[Before(sizes, g) + i].plen = rows[Before(sizes, g) + 1].plen
      <4>1. Len(sizes) \in Nat /\ \A h \in 1 .. Len(sizes) : sizes[h] \in Nat
        BY <3>1, SizesFacts
      <4>2. sizes[g] \in Nat /\ sizes[g] >= 1 /\ 1 \in 1 .. sizes[g]
        BY <3>1, SizesFacts
      <4>3. Before(sizes, g) + i \in 1 .. Len(rows) /\ Before(sizes, g) + 1 \in 1 .. Len(rows)
        BY <3>1, <4>1, <4>2, PartOnce
      <4>4. Uids[Before(sizes, g) + i] = Uids[Before(sizes, g) + 1]
        BY <2>2 DEF GroupedUids
      <4>5. rows[Before(sizes, g) + i].prompt = rows[Before(sizes, g) + 1].prompt
        BY <4>3, <4>4 DEF Uids
      <4> QED
        BY <4>3, <4>5 DEF BatchInv
    <3> QED
      BY <3>1, <3>2 DEF Grouped
  <2>5. RespLength \in Nat
    BY BatchAssumption
  <2> QED
    BY <2>3, <2>4, <2>5, PackParity DEF sizes
<1> QED
  BY <1>1, BatchInvariant, PTL

-----------------------------------------------------------------------------
(***************************************************************************)
(* Partitions.                                                             *)
(***************************************************************************)

(* Sorting.                                                                *)

(* p is a permutation of 1 .. n. *)
Permutes(p, n) ==
  /\ p \in [1 .. n -> 1 .. n]
  /\ \A i, j \in 1 .. n : p[i] = p[j] => i = j
  /\ \A i \in 1 .. n : \E k \in 1 .. n : p[k] = i

(* The pairs of B are those of a comparison: a strict order in which those
   that are not smaller and not larger are equal. *)
Compares(n, B) ==
  \A i, j, k \in 1 .. n :
    /\ ~(<<i, j>> \in B /\ <<j, i>> \in B)
    /\ <<i, j>> \notin B /\ <<j, k>> \notin B => <<i, k>> \notin B

InFront(B, j, i) == <<j, i>> \in B \/ (j < i /\ <<i, j>> \notin B)

PlacesOf(n, B) == [i \in 1 .. n |-> 1 + Cardinality({j \in 1 .. n : InFront(B, j, i)})]

(* Every place is that of one element, and no element is in front of a
   smaller one. *)
LEMMA Sorting ==
  ASSUME NEW n \in Nat, NEW B, Compares(n, B)
  PROVE  LET place == PlacesOf(n, B)
             p == [k \in 1 .. n |-> CHOOSE i \in 1 .. n : place[i] = k]
         IN  Permutes(p, n) /\ \A a, b \in 1 .. n : a < b => <<p[b], p[a]>> \notin B
<1> DEFINE place == PlacesOf(n, B)
           p == [k \in 1 .. n |-> CHOOSE i \in 1 .. n : place[i] = k]
           F(i) == {j \in 1 .. n : InFront(B, j, i)}
<1>1. \A i \in 1 .. n : ~InFront(B, i, i)
  BY DEF InFront, Compares
<1>2. \A i, j \in 1 .. n : i # j => InFront(B, i, j) \/ InFront(B, j, i)
  <2>1. ASSUME NEW i \in 1 .. n, NEW j \in 1 .. n, i # j
        PROVE  InFront(B, i, j) \/ InFront(B, j, i)
    <3>1. i < j \/ j < i
      BY <2>1
    <3> QED
      BY <3>1 DEF InFront
  <2> QED
    BY <2>1
<1>3. ASSUME NEW i \in 1 .. n, NEW j \in 1 .. n, NEW k \in 1 .. n,
             InFront(B, i, j), InFront(B, j, k)
      PROVE  InFront(B, i, k)
  <2>1. <<j, i>> \notin B /\ <<k, j>> \notin B
    BY <1>3 DEF InFront, Compares
  <2>2. <<k, i>> \notin B
    BY <2>1 DEF Compares
  <2>3. CASE <<i, k>> \in B
    BY <2>3 DEF InFront
  <2>4. CASE <<i, k>> \notin B
    <3>1. <<i, j>> \notin B
      BY <2>1, <2>4 DEF Compares
    <3>2. <<j, k>> \notin B
      BY <2>1, <2>4 DEF Compares
    <3>3. i < j /\ j < k
      BY <1>3, <3>1, <3>2 DEF InFront
    <3> QED
      BY <2>2, <3>3 DEF InFront
  <2> QED
    BY <2>3, <2>4
<1>4. \A i \in 1 .. n : IsFiniteSet(F(i)) /\ Cardinality(F(i)) \in 0 .. n - 1
  <2> SUFFICES ASSUME NEW i \in 1 .. n
               PROVE  IsFiniteSet(F(i)) /\ Cardinality(F(i)) \in 0 .. n - 1
    OBVIOUS
  <2>1. IsFiniteSet(1 .. n) /\ Cardinality(1 .. n) = n
    BY FS_Interval
  <2>2. IsFiniteSet((1 .. n) \ {i}) /\ Cardinality((1 .. n) \ {i}) = n - 1
    BY <2>1, FS_RemoveElement
  <2>3. F(i) \in SUBSET ((1 .. n) \ {i})
    BY <1>1
  <2> HIDE DEF F
  <2>4. IsFiniteSet(F(i)) /\ Cardinality(F(i)) <= n - 1
    BY <2>2, <2>3, FS_Subset
  <2>5. Cardinality(F(i)) \in Nat
    BY <2>4, FS_CardinalityType
  <2> QED
    BY <2>4, <2>5
<1>5. ASSUME NEW i \in 1 .. n, NEW j \in 1 .. n, InFront(B, i, j)
      PROVE  Cardinality(F(i)) < Cardinality(F(j))
  <2>1. F(i) \in SUBSET F(j) /\ F(i) # F(j)
    <3>1. i \in F(j) /\ i \notin F(i)
      BY <1>1, <1>5
    <3>2. F(i) \in SUBSET F(j)
      BY <1>3, <1>5
    <3> QED
      BY <3>1, <3>2
  <2> HIDE DEF F
  <2>2. Cardinality(F(i)) <= Cardinality(F(j))
    BY <1>4, <2>1, FS_Subset
  <2>3. Cardinality(F(i)) # Cardinality(F(j))
    BY <1>4, <2>1, FS_Subset
  <2> QED
    BY <1>4, <2>2, <2>3
<1>6. \A i \in 1 .. n : place[i] = 1 + Cardinality(F(i))
  BY DEF PlacesOf
<1> HIDE DEF place, F
<1>7. place \in [1 .. n -> 1 .. n]
  <2>1. place = [i \in 1 .. n |-> place[i]]
    BY DEF place, PlacesOf
  <2>2. \A i \in 1 .. n : place[i] \in 1 .. n
    BY <1>4, <1>6
  <2> QED
    BY <2>1, <2>2
<1>8. \A i, j \in 1 .. n : place[i] < place[j] <=> InFront(B, i, j)
  <2>1. ASSUME NEW i \in 1 .. n, NEW j \in 1 .. n
        PROVE  place[i] < place[j] <=> InFront(B, i, j)
    <3>1. Cardinality(F(i)) \in Int /\ Cardinality(F(j)) \in Int
      BY <1>4
    <3>2. InFront(B, i, j) => place[i] < place[j]
      BY <1>5, <1>6, <3>1
    <3>3. InFront(B, j, i) => place[j] < place[i]
      BY <1>5, <1>6, <3>1
    <3>4. i = j => place[i] = place[j] /\ ~InFront(B, i, j)
      BY <1>1
    <3>5. place[i] \in Int /\ place[j] \in Int
      BY <1>7
    <3> QED
      BY <1>2, <3>2, <3>3, <3>4, <3>5
  <2> QED
    BY <2>1
<1>9. \A i, j \in 1 .. n : place[i] = place[j] => i = j
  <2>1. ASSUME NEW i \in 1 .. n, NEW j \in 1 .. n, place[i] = place[j], i # j PROVE FALSE
    <3>1. place[i] < place[j] \/ place[j] < place[i]
      BY <1>2, <1>8, <2>1
    <3>2. place[i] \in Int
      BY <1>7
    <3> QED
      BY <2>1, <3>1, <3>2
  <2> QED
    BY <2>1
<1>10. \A k \in 1 .. n : \E i \in 1 .. n : place[i] = k
  <2>1. place \in Injection(1 .. n, 1 .. n)
    BY <1>7, <1>9 DEF Injection, IsInjective
  <2>2. IsFiniteSet(1 .. n)
    BY FS_Interval
  <2>3. place \in Surjection(1 .. n, 1 .. n)
    BY <2>1, <2>2, FS_Injection
  <2> QED
    BY <2>3 DEF Surjection
<1>11. \A k \in 1 .. n : p[k] \in 1 .. n /\ place[p[k]] = k
  BY <1>10
<1>12. p \in [1 .. n -> 1 .. n]
  BY <1>11
<1> HIDE DEF p
<1>13. \A i, j \in 1 .. n : p[i] = p[j] => i = j
  <2>1. ASSUME NEW i \in 1 .. n, NEW j \in 1 .. n, p[i] = p[j] PROVE i = j
    BY <1>11, <2>1
  <2> QED
    BY <2>1
<1>14. \A i \in 1 .. n : \E k \in 1 .. n : p[k] = i
  <2>1. ASSUME NEW i \in 1 .. n PROVE p[place[i]] = i /\ place[i] \in 1 .. n
    BY <1>7, <1>9, <1>11
  <2> QED
    BY <2>1
<1>15. ASSUME NEW a \in 1 .. n, NEW b \in 1 .. n, a < b PROVE <<p[b], p[a]>> \notin B
  <2>1. p[a] \in 1 .. n /\ p[b] \in 1 .. n /\ place[p[a]] < place[p[b]]
    BY <1>11, <1>15
  <2>2. InFront(B, p[a], p[b])
    BY <1>8, <2>1
  <2> QED
    BY <2>1, <2>2 DEF InFront, Compares
<1>16. Permutes(p, n)
  BY <1>12, <1>13, <1>14 DEF Permutes
<1> QED
  BY <1>15, <1>16 DEF p, place

(* s sorted by a comparison of its places. *)
SortOf(s, B) ==
  LET place == PlacesOf(Len(s), B)
  IN  [k \in 1 .. Len(s) |-> s[CHOOSE i \in 1 .. Len(s) : place[i] = k]]

(* t is s in another order. *)
Rearranges(t, s) ==
  \E p : Permutes(p, Len(s)) /\ t = [k \in 1 .. Len(s) |-> s[p[k]]]

LessPairs(s) == {x \in (1 .. Len(s)) \X (1 .. Len(s)) : s[x[1]] < s[x[2]]}

(* SortedBy(s, <), as SortOf. *)
LEMMA LessSort ==
  ASSUME NEW s
  PROVE  SortedBy(s, <) = SortOf(s, LessPairs(s))
<1> DEFINE n == Len(s)
           Inner(v, place) == [k \in 1 .. Len(v) |-> v[CHOOSE i \in 1 .. Len(v) : place[i] = k]]
           Outer(v) == Once(Places(v, <), LAMBDA place : Inner(v, place))
           places == Places(s, <)
<1>1. places = PlacesOf(n, LessPairs(s))
  BY DEF Places, PlacesOf, InFront, LessPairs
<1>2. SortedBy(s, <) = Outer(s)
  <2>1. SortedBy(s, <) = Once(s, Outer)
    BY DEF SortedBy
  <2> HIDE DEF Outer
  <2> QED
    BY <2>1 DEF Once
<1>3. Outer(s) = Inner(s, places)
  <2> DEFINE Op(place) == Inner(s, place)
  <2>1. Outer(s) = Once(places, Op)
    OBVIOUS
  <2> HIDE DEF places, Op, Outer
  <2>2. Outer(s) = Op(places)
    BY <2>1 DEF Once
  <2> QED
    BY <2>2 DEF Op
<1> HIDE DEF places, Outer, Inner
<1>4. SortedBy(s, <) = Inner(s, PlacesOf(n, LessPairs(s)))
  BY <1>1, <1>2, <1>3
<1> QED
  BY <1>4 DEF SortOf, Inner

LargerPairs(s) ==
  {x \in (1 .. Len(s)) \X (1 .. Len(s)) : Larger(s[x[1]], s[x[2]])}

(* SortedBy(s, Larger), as SortOf. *)
LEMMA LargerSort ==
  ASSUME NEW s
  PROVE  SortedBy(s, Larger) = SortOf(s, LargerPairs(s))
<1> DEFINE Inner(v, place) == [k \in 1 .. Len(v) |-> v[CHOOSE i \in 1 .. Len(v) : place[i] = k]]
           Outer(v) == Once(Places(v, Larger),
                            LAMBDA place : Inner(v, place))
           places == Places(s, Larger)
<1>1. places = PlacesOf(Len(s), LargerPairs(s))
  BY DEF Places, PlacesOf, InFront, LargerPairs
<1>2. SortedBy(s, Larger) = Outer(s)
  <2>1. SortedBy(s, Larger) = Once(s, Outer)
    BY DEF SortedBy
  <2> HIDE DEF Outer
  <2> QED
    BY <2>1 DEF Once
<1>3. Outer(s) = Inner(s, places)
  <2> DEFINE Op(place) == Inner(s, place)
  <2>1. Outer(s) = Once(places, Op)
    OBVIOUS
  <2> HIDE DEF places, Op, Outer
  <2>2. Outer(s) = Op(places)
    BY <2>1 DEF Once
  <2> QED
    BY <2>2 DEF Op
<1> HIDE DEF places, Outer, Inner
<1>4. SortedBy(s, Larger) = Inner(s, PlacesOf(Len(s), LargerPairs(s)))
  BY <1>1, <1>2, <1>3
<1> QED
  BY <1>4 DEF SortOf, Inner

WorkloadPairs(w, s) ==
  {x \in (1 .. Len(s)) \X (1 .. Len(s)) :
     w[s[x[1]]] < w[s[x[2]]] \/ (w[s[x[1]]] = w[s[x[2]]] /\ s[x[1]] < s[x[2]])}

(* The sorting by workload, as SortOf. *)
LEMMA WorkloadSort ==
  ASSUME NEW s, NEW w
  PROVE  SortedBy(s, LAMBDA i, j : w[i] < w[j] \/ (w[i] = w[j] /\ i < j))
           = SortOf(s, WorkloadPairs(w, s))
<1> DEFINE Inner(v, place) == [k \in 1 .. Len(v) |-> v[CHOOSE i \in 1 .. Len(v) : place[i] = k]]
           Outer(v) == Once(Places(v, LAMBDA i, j : w[i] < w[j] \/ (w[i] = w[j] /\ i < j)),
                            LAMBDA place : Inner(v, place))
           places == Places(s, LAMBDA i, j : w[i] < w[j] \/ (w[i] = w[j] /\ i < j))
<1>1. places = PlacesOf(Len(s), WorkloadPairs(w, s))
  BY DEF Places, PlacesOf, InFront, WorkloadPairs
<1>2. SortedBy(s, LAMBDA i, j : w[i] < w[j] \/ (w[i] = w[j] /\ i < j)) = Outer(s)
  <2>1. SortedBy(s, LAMBDA i, j : w[i] < w[j] \/ (w[i] = w[j] /\ i < j)) = Once(s, Outer)
    BY DEF SortedBy
  <2> HIDE DEF Outer
  <2> QED
    BY <2>1 DEF Once
<1>3. Outer(s) = Inner(s, places)
  <2> DEFINE Op(place) == Inner(s, place)
  <2>1. Outer(s) = Once(places, Op)
    OBVIOUS
  <2> HIDE DEF places, Op, Outer
  <2>2. Outer(s) = Op(places)
    BY <2>1 DEF Once
  <2> QED
    BY <2>2 DEF Op
<1> HIDE DEF places, Outer, Inner
<1>4. SortedBy(s, LAMBDA i, j : w[i] < w[j] \/ (w[i] = w[j] /\ i < j))
        = Inner(s, PlacesOf(Len(s), WorkloadPairs(w, s)))
  BY <1>1, <1>2, <1>3
<1> QED
  BY <1>4 DEF SortOf, Inner

MostWorkPairs(w, s) ==
  {x \in (1 .. Len(s)) \X (1 .. Len(s)) : MoreWork(w, s[x[1]], s[x[2]])}

(* The sorting of micro-batches, as SortOf. *)
LEMMA MostWorkSort ==
  ASSUME NEW s, NEW w
  PROVE  SortedBy(s, LAMBDA p, q : MoreWork(w, p, q)) = SortOf(s, MostWorkPairs(w, s))
<1> DEFINE Inner(v, place) == [k \in 1 .. Len(v) |-> v[CHOOSE i \in 1 .. Len(v) : place[i] = k]]
           Outer(v) == Once(Places(v, LAMBDA p, q : MoreWork(w, p, q)),
                            LAMBDA place : Inner(v, place))
           places == Places(s, LAMBDA p, q : MoreWork(w, p, q))
<1>1. places = PlacesOf(Len(s), MostWorkPairs(w, s))
  BY DEF Places, PlacesOf, InFront, MostWorkPairs
<1>2. SortedBy(s, LAMBDA p, q : MoreWork(w, p, q)) = Outer(s)
  <2>1. SortedBy(s, LAMBDA p, q : MoreWork(w, p, q)) = Once(s, Outer)
    BY DEF SortedBy
  <2> HIDE DEF Outer
  <2> QED
    BY <2>1 DEF Once
<1>3. Outer(s) = Inner(s, places)
  <2> DEFINE Op(place) == Inner(s, place)
  <2>1. Outer(s) = Once(places, Op)
    OBVIOUS
  <2> HIDE DEF places, Op, Outer
  <2>2. Outer(s) = Op(places)
    BY <2>1 DEF Once
  <2> QED
    BY <2>2 DEF Op
<1> HIDE DEF places, Outer, Inner
<1>4. SortedBy(s, LAMBDA p, q : MoreWork(w, p, q)) = Inner(s, PlacesOf(Len(s), MostWorkPairs(w, s)))
  BY <1>1, <1>2, <1>3
<1> QED
  BY <1>4 DEF SortOf, Inner

(* What is sorted is in order, and a permutation of what was there. *)
LEMMA SortOfFacts ==
  ASSUME NEW s, Len(s) \in Nat, NEW B, Compares(Len(s), B)
  PROVE  \E p : /\ Permutes(p, Len(s)) /\ SortOf(s, B) = [k \in 1 .. Len(s) |-> s[p[k]]]
                /\ \A a, b \in 1 .. Len(s) : a < b => <<p[b], p[a]>> \notin B
<1> DEFINE place == PlacesOf(Len(s), B)
           p == [k \in 1 .. Len(s) |-> CHOOSE i \in 1 .. Len(s) : place[i] = k]
<1>1. Permutes(p, Len(s)) /\ \A a, b \in 1 .. Len(s) : a < b => <<p[b], p[a]>> \notin B
  BY Sorting
<1>2. SortOf(s, B) = [k \in 1 .. Len(s) |-> s[p[k]]]
  BY DEF SortOf
<1> HIDE DEF p
<1> QED
  BY <1>1, <1>2

(* Numbers, sorted, ascend. *)
LEMMA LessSorted ==
  ASSUME NEW s, Len(s) \in Nat, \A i \in 1 .. Len(s) : s[i] \in Int
  PROVE  /\ Rearranges(SortedBy(s, <), s)
         /\ \A a, b \in 1 .. Len(s) : a < b => SortedBy(s, <)[a] <= SortedBy(s, <)[b]
<1>1. Compares(Len(s), LessPairs(s))
  BY DEF Compares, LessPairs
<1>2. PICK p : /\ Permutes(p, Len(s)) /\ SortOf(s, LessPairs(s)) = [k \in 1 .. Len(s) |-> s[p[k]]]
               /\ \A a, b \in 1 .. Len(s) : a < b => <<p[b], p[a]>> \notin LessPairs(s)
  BY <1>1, SortOfFacts
<1>3. SortedBy(s, <) = [k \in 1 .. Len(s) |-> s[p[k]]]
  BY <1>2, LessSort
<1>4. ASSUME NEW a \in 1 .. Len(s), NEW b \in 1 .. Len(s), a < b
      PROVE  SortedBy(s, <)[a] <= SortedBy(s, <)[b]
  <2>1. p[a] \in 1 .. Len(s) /\ p[b] \in 1 .. Len(s)
    BY <1>2 DEF Permutes
  <2>2. ~(s[p[b]] < s[p[a]])
    BY <1>2, <1>4, <2>1 DEF LessPairs
  <2>3. s[p[a]] \in Int /\ s[p[b]] \in Int
    BY <2>1
  <2>4. SortedBy(s, <)[a] = s[p[a]] /\ SortedBy(s, <)[b] = s[p[b]]
    BY <1>3
  <2>5. s[p[a]] <= s[p[b]]
    BY <2>2, <2>3
  <2> QED
    BY <2>4, <2>5
<1> QED
  BY <1>2, <1>3, <1>4 DEF Rearranges

(* Sets, by sum, then by size, then by their first item. *)
IsSet(a) == a.sum \in Int /\ a.items \in Seq(Int)

(* Larger is a strict order. *)
LEMMA LargerOrder ==
  ASSUME NEW a, NEW b, NEW c, IsSet(a), IsSet(b), IsSet(c)
  PROVE  /\ ~(Larger(a, b) /\ Larger(b, a))
         /\ ~Larger(a, b) /\ ~Larger(b, c) => ~Larger(a, c)
         /\ Larger(a, b) /\ Larger(b, c) => Larger(a, c)
<1> DEFINE la == Len(a.items)
           lb == Len(b.items)
           lc == Len(c.items)
           ha == Head(a.items)
           hb == Head(b.items)
           hc == Head(c.items)
<1>1. ASSUME NEW t \in Seq(Int)
      PROVE  Len(t) \in Nat /\ (Len(t) # 0 => Head(t) \in Int) /\ (t = <<>> <=> Len(t) = 0)
  OBVIOUS
<1>2. a.items \in Seq(Int) /\ b.items \in Seq(Int) /\ c.items \in Seq(Int)
  BY DEF IsSet
<1>3. /\ a.sum \in Int /\ b.sum \in Int /\ c.sum \in Int
      /\ la \in Nat /\ lb \in Nat /\ lc \in Nat
      /\ la # 0 => ha \in Int
      /\ lb # 0 => hb \in Int
      /\ lc # 0 => hc \in Int
      /\ a.items = <<>> <=> la = 0
      /\ b.items = <<>> <=> lb = 0
      /\ c.items = <<>> <=> lc = 0
  BY <1>1, <1>2 DEF IsSet
<1>4. Larger(a, b) <=> \/ a.sum > b.sum
                       \/ a.sum = b.sum /\ la > lb
                       \/ a.sum = b.sum /\ la = lb /\ la # 0 /\ ha > hb
  BY <1>3 DEF Larger
<1>5. Larger(b, a) <=> \/ b.sum > a.sum
                       \/ b.sum = a.sum /\ lb > la
                       \/ b.sum = a.sum /\ lb = la /\ lb # 0 /\ hb > ha
  BY <1>3 DEF Larger
<1>6. Larger(b, c) <=> \/ b.sum > c.sum
                       \/ b.sum = c.sum /\ lb > lc
                       \/ b.sum = c.sum /\ lb = lc /\ lb # 0 /\ hb > hc
  BY <1>3 DEF Larger
<1>7. Larger(a, c) <=> \/ a.sum > c.sum
                       \/ a.sum = c.sum /\ la > lc
                       \/ a.sum = c.sum /\ la = lc /\ la # 0 /\ ha > hc
  BY <1>3 DEF Larger
<1> HIDE DEF la, lb, lc, ha, hb, hc
<1>8. ~(Larger(a, b) /\ Larger(b, a))
  BY <1>3, <1>4, <1>5
<1>9. ~Larger(a, b) /\ ~Larger(b, c) => ~Larger(a, c)
  BY <1>3, <1>4, <1>6, <1>7
<1>10. Larger(a, b) /\ Larger(b, c) => Larger(a, c)
  BY <1>3, <1>4, <1>6, <1>7
<1> QED
  BY <1>8, <1>9, <1>10

(* Sets, sorted, have descending sums. *)
LEMMA LargerSorted ==
  ASSUME NEW s, Len(s) \in Nat, \A i \in 1 .. Len(s) : IsSet(s[i])
  PROVE  /\ Rearranges(SortedBy(s, Larger), s)
         /\ \A a, b \in 1 .. Len(s) :
              a < b => SortedBy(s, Larger)[a].sum >= SortedBy(s, Larger)[b].sum
<1>1. Compares(Len(s), LargerPairs(s))
  <2>1. ASSUME NEW i \in 1 .. Len(s), NEW j \in 1 .. Len(s), NEW m \in 1 .. Len(s)
        PROVE  /\ ~(Larger(s[i], s[j]) /\ Larger(s[j], s[i]))
               /\ ~Larger(s[i], s[j]) /\ ~Larger(s[j], s[m]) => ~Larger(s[i], s[m])
    BY LargerOrder
  <2> QED
    BY <2>1 DEF Compares, LargerPairs
<1>2. PICK p : /\ Permutes(p, Len(s)) /\ SortOf(s, LargerPairs(s)) = [k \in 1 .. Len(s) |-> s[p[k]]]
               /\ \A a, b \in 1 .. Len(s) : a < b => <<p[b], p[a]>> \notin LargerPairs(s)
  BY <1>1, SortOfFacts
<1>3. SortedBy(s, Larger) = [k \in 1 .. Len(s) |-> s[p[k]]]
  BY <1>2, LargerSort
<1>4. ASSUME NEW a \in 1 .. Len(s), NEW b \in 1 .. Len(s), a < b
      PROVE  SortedBy(s, Larger)[a].sum >= SortedBy(s, Larger)[b].sum
  <2>1. p[a] \in 1 .. Len(s) /\ p[b] \in 1 .. Len(s)
    BY <1>2 DEF Permutes
  <2>2. ~(s[p[b]].sum > s[p[a]].sum)
    BY <1>2, <1>4, <2>1 DEF LargerPairs, Larger
  <2>3. s[p[a]].sum \in Int /\ s[p[b]].sum \in Int
    BY <2>1 DEF IsSet
  <2> QED
    BY <1>3, <2>2, <2>3
<1> QED
  BY <1>2, <1>3, <1>4 DEF Rearranges

(* Rows by workload: the longest last. *)
LEMMA WorkloadSorted ==
  ASSUME NEW s, NEW w, Len(s) \in Nat,
         \A i \in 1 .. Len(s) : s[i] \in Int /\ w[s[i]] \in Int
  PROVE  /\ Rearranges(Sorted(w, s), s)
         /\ \A a, b \in 1 .. Len(s) : a < b => w[Sorted(w, s)[a]] <= w[Sorted(w, s)[b]]
<1>1. Compares(Len(s), WorkloadPairs(w, s))
  <2> DEFINE V(i) == w[s[i]]
             T(i) == s[i]
             Less(i, j) == V(i) < V(j) \/ (V(i) = V(j) /\ T(i) < T(j))
  <2>1. \A i \in 1 .. Len(s) : V(i) \in Int /\ T(i) \in Int
    OBVIOUS
  <2>2. \A i, j \in 1 .. Len(s) : <<i, j>> \in WorkloadPairs(w, s) <=> Less(i, j)
    BY DEF WorkloadPairs
  <2> HIDE DEF V, T
  <2>3. \A i, j \in 1 .. Len(s) : ~(Less(i, j) /\ Less(j, i))
    BY <2>1
  <2>4. \A i, j, k \in 1 .. Len(s) : ~Less(i, j) /\ ~Less(j, k) => ~Less(i, k)
    BY <2>1
  <2> HIDE DEF Less
  <2> QED
    BY <2>2, <2>3, <2>4 DEF Compares
<1>2. PICK p : /\ Permutes(p, Len(s))
               /\ SortOf(s, WorkloadPairs(w, s)) = [k \in 1 .. Len(s) |-> s[p[k]]]
               /\ \A a, b \in 1 .. Len(s) : a < b => <<p[b], p[a]>> \notin WorkloadPairs(w, s)
  BY <1>1, SortOfFacts
<1>3. Sorted(w, s) = [k \in 1 .. Len(s) |-> s[p[k]]]
  BY <1>2, WorkloadSort DEF Sorted
<1>4. ASSUME NEW a \in 1 .. Len(s), NEW b \in 1 .. Len(s), a < b
      PROVE  w[Sorted(w, s)[a]] <= w[Sorted(w, s)[b]]
  <2>1. p[a] \in 1 .. Len(s) /\ p[b] \in 1 .. Len(s)
    BY <1>2 DEF Permutes
  <2>2. ~(w[s[p[b]]] < w[s[p[a]]])
    BY <1>2, <1>4, <2>1 DEF WorkloadPairs
  <2>3. w[s[p[a]]] \in Int /\ w[s[p[b]]] \in Int
    BY <2>1
  <2>4. Sorted(w, s)[a] = s[p[a]] /\ Sorted(w, s)[b] = s[p[b]]
    BY <1>3
  <2>5. w[s[p[a]]] <= w[s[p[b]]]
    BY <2>2, <2>3
  <2> QED
    BY <2>4, <2>5
<1> QED
  BY <1>2, <1>3, <1>4 DEF Rearranges

ByWork(w, s) == SortedBy(s, LAMBDA p, q : MoreWork(w, p, q))

(* Micro-batches by work. *)
LEMMA MostWorkSorted ==
  ASSUME NEW s, NEW w, Len(s) \in Nat,
         \A i \in 1 .. Len(s) : Total(w, s[i]) \in Int /\ Head(s[i]) \in Int
  PROVE  Rearranges(ByWork(w, s), s)
<1>1. Compares(Len(s), MostWorkPairs(w, s))
  <2> DEFINE T(i) == Total(w, s[i])
             H(i) == Head(s[i])
             Less(i, j) == T(i) > T(j) \/ (T(i) = T(j) /\ H(i) > H(j))
  <2>1. \A i \in 1 .. Len(s) : T(i) \in Int /\ H(i) \in Int
    OBVIOUS
  <2>2. \A i, j \in 1 .. Len(s) : <<i, j>> \in MostWorkPairs(w, s) <=> Less(i, j)
    BY DEF MostWorkPairs, MoreWork
  <2> HIDE DEF T, H
  <2>3. \A i, j \in 1 .. Len(s) : ~(Less(i, j) /\ Less(j, i))
    BY <2>1
  <2>4. \A i, j, k \in 1 .. Len(s) : ~Less(i, j) /\ ~Less(j, k) => ~Less(i, k)
    BY <2>1
  <2> HIDE DEF Less
  <2> QED
    BY <2>2, <2>3, <2>4 DEF Compares
<1>2. PICK perm : /\ Permutes(perm, Len(s))
                  /\ SortOf(s, MostWorkPairs(w, s)) = [k \in 1 .. Len(s) |-> s[perm[k]]]
  BY <1>1, SortOfFacts
<1> DEFINE t == SortedBy(s, LAMBDA p, q : MoreWork(w, p, q))
<1>3. t = SortOf(s, MostWorkPairs(w, s))
  BY MostWorkSort
<1> HIDE DEF t
<1>4. Rearranges(t, s)
  BY <1>2, <1>3 DEF Rearranges
<1> QED
  BY <1>4 DEF t, ByWork
-----------------------------------------------------------------------------
(* Sums in another order.                                                  *)

(* f[i] units for every i up to k. *)
Units(f, k) == UNION {{i} \X (1 .. f[i]) : i \in 1 .. k}

(* A sum counts them. *)
LEMMA SumCounts ==
  ASSUME NEW n \in Nat, NEW f, \A i \in 1 .. n : f[i] \in Nat
  PROVE  IsFiniteSet(Units(f, n)) /\ Cardinality(Units(f, n)) = SumOf(f, n)
<1> DEFINE Good(k) == IsFiniteSet(Units(f, k)) /\ Cardinality(Units(f, k)) = SumOf(f, k)
           G == {k \in 0 .. n : Good(k)}
<1>1. /\ SumOf(f, 0) = 0 /\ \A k \in 0 .. n : SumOf(f, k) \in Int
      /\ \A k \in 1 .. n : SumOf(f, k) = SumOf(f, k - 1) + f[k]
  BY SumFacts
<1>2. 0 \in G
  <2>1. Units(f, 0) = {}
    BY DEF Units
  <2>2. Good(0)
    BY <1>1, <2>1, FS_EmptySet
  <2> QED
    BY <2>2
<1>3. ASSUME NEW k \in 0 .. n - 1, k \in G PROVE k + 1 \in G
  <2> DEFINE new == {k + 1} \X (1 .. f[k + 1])
  <2>1. k + 1 \in 1 .. n /\ f[k + 1] \in Nat /\ (k + 1) - 1 = k /\ k + 1 \in 0 .. n
    OBVIOUS
  <2>2. Units(f, k + 1) = Units(f, k) \cup new
    <3>1. \A i \in 1 .. k + 1 : i \in 1 .. k \/ i = k + 1
      OBVIOUS
    <3>2. 1 .. k \subseteq 1 .. k + 1 /\ k + 1 \in 1 .. k + 1
      OBVIOUS
    <3> QED
      BY <3>1, <3>2 DEF Units
  <2>3. Units(f, k) \cap new = {}
    <3>1. k + 1 \notin 1 .. k
      OBVIOUS
    <3> QED
      BY <3>1 DEF Units
  <2>4. IsFiniteSet(new) /\ Cardinality(new) = f[k + 1]
    <3>1. IsFiniteSet({k + 1}) /\ Cardinality({k + 1}) = 1
      BY FS_Singleton
    <3>2. IsFiniteSet(1 .. f[k + 1]) /\ Cardinality(1 .. f[k + 1]) = f[k + 1]
      <4> DEFINE v == f[k + 1]
      <4>1. v \in Nat /\ v \in Int
        BY <2>1
      <4> HIDE DEF v
      <4>2. IsFiniteSet(1 .. v) /\ Cardinality(1 .. v) = v
        BY <4>1, FS_Interval
      <4> QED
        BY <4>2 DEF v
    <3>3. IsFiniteSet(new) /\ Cardinality(new) = 1 * f[k + 1]
      BY <3>1, <3>2, FS_Product
    <3> QED
      BY <2>1, <3>3
  <2>5. Good(k)
    BY <1>3
  <2> HIDE DEF new
  <2>6. IsFiniteSet(Units(f, k + 1))
        /\ Cardinality(Units(f, k + 1)) = SumOf(f, k) + f[k + 1] - Cardinality({})
    BY <2>2, <2>3, <2>4, <2>5, FS_Union
  <2>7. SumOf(f, k + 1) = SumOf(f, k) + f[k + 1] /\ SumOf(f, k) \in Int
    <3>1. SumOf(f, k + 1) = SumOf(f, (k + 1) - 1) + f[k + 1]
      BY <1>1, <2>1
    <3>2. k \in 0 .. n
      OBVIOUS
    <3> QED
      BY <1>1, <2>1, <3>1, <3>2
  <2>8. Good(k + 1)
    <3>1. Cardinality({}) = 0
      BY FS_EmptySet
    <3> QED
      BY <2>1, <2>6, <2>7, <3>1
  <2> QED
    BY <2>1, <2>8
<1> HIDE DEF G
<1>4. 0 .. n \subseteq G
  BY <1>2, <1>3, Induction
<1>5. n \in G
  BY <1>4
<1> QED
  BY <1>5 DEF G

(* The order of its terms does not change a sum. *)
LEMMA SumPermuted ==
  ASSUME NEW n \in Nat, NEW f, NEW g, NEW p, \A i \in 1 .. n : f[i] \in Nat,
         Permutes(p, n), \A i \in 1 .. n : g[i] = f[p[i]]
  PROVE  SumOf(g, n) = SumOf(f, n)
<1> DEFINE F == Units(f, n)
           H == Units(g, n)
           m == [x \in H |-> <<p[x[1]], x[2]>>]
<1>1. \A i \in 1 .. n : p[i] \in 1 .. n /\ g[i] \in Nat
  BY DEF Permutes
<1>2. IsFiniteSet(F) /\ Cardinality(F) = SumOf(f, n)
  BY SumCounts
<1>3. IsFiniteSet(H) /\ Cardinality(H) = SumOf(g, n)
  BY <1>1, SumCounts
<1>4. \A x : x \in F <=> \E i \in 1 .. n : \E v \in 1 .. f[i] : x = <<i, v>>
  BY DEF Units
<1>5. \A x : x \in H <=> \E i \in 1 .. n : \E v \in 1 .. g[i] : x = <<i, v>>
  BY DEF Units
<1> HIDE DEF F, H
<1>6. m \in [H -> F]
  <2>1. ASSUME NEW x \in H PROVE <<p[x[1]], x[2]>> \in F
    <3>1. PICK i \in 1 .. n : \E v \in 1 .. g[i] : x = <<i, v>>
      BY <1>5
    <3>2. PICK v \in 1 .. g[i] : x = <<i, v>>
      BY <3>1
    <3>3. p[i] \in 1 .. n /\ v \in 1 .. f[p[i]]
      BY <1>1
    <3> QED
      BY <1>4, <3>2, <3>3
  <2> QED
    BY <2>1
<1>7. ASSUME NEW x \in H, NEW y \in H, m[x] = m[y] PROVE x = y
  <2>1. PICK i \in 1 .. n : \E v \in 1 .. g[i] : x = <<i, v>>
    BY <1>5
  <2>2. PICK j \in 1 .. n : \E v \in 1 .. g[j] : y = <<j, v>>
    BY <1>5
  <2>3. p[i] = p[j] /\ x[2] = y[2]
    BY <1>7, <2>1, <2>2
  <2>4. i = j
    BY <2>3 DEF Permutes
  <2> QED
    BY <2>1, <2>2, <2>3, <2>4
<1>8. ASSUME NEW z \in F PROVE \E x \in H : m[x] = z
  <2>1. PICK i \in 1 .. n : \E v \in 1 .. f[i] : z = <<i, v>>
    BY <1>4
  <2>2. PICK v \in 1 .. f[i] : z = <<i, v>>
    BY <2>1
  <2>3. PICK k \in 1 .. n : p[k] = i
    BY DEF Permutes
  <2>4. v \in 1 .. g[k]
    BY <2>3
  <2>5. <<k, v>> \in H
    BY <1>5, <2>4
  <2>6. m[<<k, v>>] = z
    BY <2>2, <2>3, <2>5
  <2> QED
    BY <2>5, <2>6
<1> HIDE DEF m
<1>9. m \in Bijection(H, F)
  BY <1>6, <1>7, <1>8 DEF Bijection, Injection, Surjection, IsInjective
<1>10. ExistsBijection(H, F)
  BY <1>9 DEF ExistsBijection
<1> QED
  BY <1>2, <1>3, <1>10, FS_Bijection

(* The work of a micro-batch or of a rank does not depend on the order of its
   rows. *)
LEMMA TotalRearranged ==
  ASSUME NEW w, NEW s, NEW t, Len(s) \in Nat, DOMAIN s = 1 .. Len(s),
         \A i \in 1 .. Len(s) : w[s[i]] \in Nat, Rearranges(t, s)
  PROVE  Total(w, t) = Total(w, s)
<1> DEFINE n == Len(s)
<1>1. PICK p : Permutes(p, n) /\ t = [k \in 1 .. n |-> s[p[k]]]
  BY DEF Rearranges
<1>2. Len(t) = n /\ DOMAIN t = 1 .. n /\ \A k \in 1 .. n : t[k] = s[p[k]]
  BY <1>1
<1> DEFINE f == [j \in DOMAIN s |-> w[s[j]]]
           g == [j \in DOMAIN t |-> w[t[j]]]
<1>3. n \in Nat /\ (\A i \in 1 .. n : f[i] \in Nat) /\ \A i \in 1 .. n : g[i] = f[p[i]]
  BY <1>1, <1>2 DEF Permutes
<1>4. Total(w, t) = SumOf(g, n) /\ Total(w, s) = SumOf(f, n)
  BY <1>2 DEF Total
<1> HIDE DEF f, g, n
<1>5. SumOf(g, n) = SumOf(f, n)
  BY <1>1, <1>3, SumPermuted
<1> QED
  BY <1>4, <1>5

(* A sum depends on its terms only, and those of Nat add up to one. *)
LEMMA SumSame ==
  ASSUME NEW n \in Nat, NEW f, NEW g, \A i \in 1 .. n : f[i] \in Int,
         \A i \in 1 .. n : g[i] = f[i]
  PROVE  SumOf(g, n) = SumOf(f, n)
<1> DEFINE G == {k \in 0 .. n : SumOf(g, k) = SumOf(f, k)}
<1>1. SumOf(f, 0) = 0 /\ SumOf(g, 0) = 0
      /\ (\A k \in 1 .. n : SumOf(f, k) = SumOf(f, k - 1) + f[k])
      /\ (\A k \in 1 .. n : SumOf(g, k) = SumOf(g, k - 1) + g[k])
  BY SumFacts
<1>2. 0 \in G
  BY <1>1
<1>3. ASSUME NEW k \in 0 .. n - 1, k \in G PROVE k + 1 \in G
  <2>1. k + 1 \in 1 .. n /\ (k + 1) - 1 = k /\ k + 1 \in 0 .. n
    OBVIOUS
  <2>2. SumOf(f, k + 1) = SumOf(f, k) + f[k + 1] /\ SumOf(g, k + 1) = SumOf(g, k) + g[k + 1]
    BY <1>1, <2>1
  <2> QED
    BY <1>3, <2>1, <2>2
<1> HIDE DEF G
<1>4. 0 .. n \subseteq G
  BY <1>2, <1>3, Induction
<1> QED
  BY <1>4 DEF G

(* A sum of natural numbers is one, and no less than any of them. *)
LEMMA SumNat ==
  ASSUME NEW n \in Nat, NEW f, \A i \in 1 .. n : f[i] \in Nat
  PROVE  /\ SumOf(f, n) \in Nat
         /\ \A i \in 1 .. n : f[i] <= SumOf(f, n)
<1> DEFINE G == {k \in 0 .. n : SumOf(f, k) \in Nat /\ \A i \in 1 .. k : f[i] <= SumOf(f, k)}
<1>1. SumOf(f, 0) = 0 /\ (\A k \in 1 .. n : SumOf(f, k) = SumOf(f, k - 1) + f[k])
  BY SumFacts
<1>2. 0 \in G
  BY <1>1
<1>3. ASSUME NEW k \in 0 .. n - 1, k \in G PROVE k + 1 \in G
  <2>1. k + 1 \in 1 .. n /\ (k + 1) - 1 = k /\ k + 1 \in 0 .. n
    OBVIOUS
  <2>2. SumOf(f, k + 1) = SumOf(f, k) + f[k + 1] /\ f[k + 1] \in Nat
    BY <1>1, <2>1
  <2>3. SumOf(f, k) \in Nat /\ \A i \in 1 .. k : f[i] <= SumOf(f, k)
    BY <1>3
  <2>4. ASSUME NEW i \in 1 .. k + 1 PROVE f[i] <= SumOf(f, k + 1)
    <3>1. i \in 1 .. k \/ i = k + 1
      OBVIOUS
    <3>2. i \in 1 .. k => f[i] \in Nat
      OBVIOUS
    <3> QED
      BY <2>2, <2>3, <3>1, <3>2
  <2> QED
    BY <2>1, <2>2, <2>3, <2>4
<1> HIDE DEF G
<1>4. 0 .. n \subseteq G
  BY <1>2, <1>3, Induction
<1> QED
  BY <1>4 DEF G

(* The work of the rows of two sets is the sum of theirs. *)
LEMMA TotalJoined ==
  ASSUME NEW R, NEW w, \A x \in R : w[x] \in Int, NEW s \in Seq(R), NEW t \in Seq(R)
  PROVE  Total(w, s \o t) = Total(w, s) + Total(w, t)
<1> DEFINE a == Len(s)
           b == Len(t)
           f == [j \in DOMAIN s |-> w[s[j]]]
           g == [j \in DOMAIN t |-> w[t[j]]]
           h == [j \in DOMAIN (s \o t) |-> w[(s \o t)[j]]]
<1>1. /\ s \o t \in Seq(R) /\ Len(s \o t) = a + b /\ a \in Nat /\ b \in Nat
      /\ \A k \in 1 .. a : (s \o t)[k] = s[k]
      /\ \A k \in 1 .. b : (s \o t)[a + k] = t[k]
  BY Concatenation
<1>2. /\ \A i \in 1 .. a : f[i] \in Int
      /\ \A i \in 1 .. b : g[i] \in Int
  OBVIOUS
<1>3. (\A i \in 1 .. a : h[i] = f[i]) /\ \A i \in 1 .. b : h[a + i] = g[i]
  <2>1. DOMAIN (s \o t) = 1 .. a + b
    BY <1>1
  <2>2. \A i \in 1 .. a : i \in 1 .. a + b
    BY <1>1
  <2>3. \A i \in 1 .. b : a + i \in 1 .. a + b
    BY <1>1
  <2>4. \A i \in 1 .. a : h[i] = w[(s \o t)[i]]
    BY <2>1, <2>2
  <2>5. \A i \in 1 .. b : h[a + i] = w[(s \o t)[a + i]]
    BY <2>1, <2>3
  <2>6. \A i \in 1 .. a : f[i] = w[s[i]]
    OBVIOUS
  <2>7. \A i \in 1 .. b : g[i] = w[t[i]]
    OBVIOUS
  <2> HIDE DEF f, g, h
  <2>8. \A i \in 1 .. a : h[i] = f[i]
    BY <1>1, <2>4, <2>6
  <2>9. \A i \in 1 .. b : h[a + i] = g[i]
    BY <1>1, <2>5, <2>7
  <2> QED
    BY <2>8, <2>9
<1>4. Total(w, s) = SumOf(f, a) /\ Total(w, t) = SumOf(g, b) /\ Total(w, s \o t) = SumOf(h, a + b)
  BY <1>1 DEF Total
<1> HIDE DEF f, g, h, a, b
<1>5. \A i \in 1 .. a + b : h[i] \in Int
  <2>1. ASSUME NEW i \in 1 .. a + b PROVE h[i] \in Int
    <3>1. CASE i <= a
      BY <1>1, <1>2, <1>3, <3>1
    <3>2. CASE i > a
      <4>1. i - a \in 1 .. b /\ a + (i - a) = i
        BY <1>1, <3>2
      <4> QED
        BY <1>2, <1>3, <4>1
    <3> QED
      BY <1>1, <3>1, <3>2
  <2> QED
    BY <2>1
<1> DEFINE G == {k \in 0 .. b : SumOf(h, a + k) = SumOf(f, a) + SumOf(g, k)}
<1>6. /\ SumOf(g, 0) = 0 /\ (\A k \in 0 .. b : SumOf(g, k) \in Int)
      /\ \A k \in 1 .. b : SumOf(g, k) = SumOf(g, k - 1) + g[k]
  BY <1>1, <1>2, SumFacts
<1>7. \A k \in 1 .. a + b : SumOf(h, k) = SumOf(h, k - 1) + h[k]
  <2>1. a + b \in Nat
    BY <1>1
  <2> QED
    BY <1>5, <2>1, SumFacts
<1>8. SumOf(f, a) \in Int
  <2>1. a \in 0 .. a
    BY <1>1
  <2> QED
    BY <1>1, <1>2, <2>1, SumFacts
<1>9. 0 \in G
  <2>1. SumOf(h, a) = SumOf(f, a)
    BY <1>1, <1>2, <1>3, SumSame
  <2>2. a + 0 = a /\ 0 \in 0 .. b
    BY <1>1
  <2> QED
    BY <1>6, <1>8, <2>1, <2>2
<1>10. ASSUME NEW k \in 0 .. b - 1, k \in G PROVE k + 1 \in G
  <2>1. /\ k + 1 \in 1 .. b /\ (k + 1) - 1 = k /\ k + 1 \in 0 .. b /\ k \in 0 .. b
        /\ a + (k + 1) \in 1 .. a + b /\ (a + (k + 1)) - 1 = a + k
    BY <1>1
  <2>2. SumOf(h, a + (k + 1)) = SumOf(h, a + k) + h[a + (k + 1)]
    BY <1>7, <2>1
  <2>3. SumOf(g, k + 1) = SumOf(g, k) + g[k + 1]
    BY <1>6, <2>1
  <2>4. h[a + (k + 1)] = g[k + 1] /\ g[k + 1] \in Int /\ SumOf(g, k) \in Int
    BY <1>2, <1>3, <1>6, <2>1
  <2>5. SumOf(h, a + k) = SumOf(f, a) + SumOf(g, k)
    BY <1>10
  <2> QED
    BY <1>8, <2>1, <2>2, <2>3, <2>4, <2>5
<1> HIDE DEF G
<1>11. 0 .. b \subseteq G
  BY <1>1, <1>9, <1>10, Induction
<1> QED
  BY <1>1, <1>4, <1>11 DEF G
-----------------------------------------------------------------------------
(* The states of the heap: partitions of some of the rows.                 *)

(* Set p of s has Size(s, p) rows, the i-th is Row(s, p, i). *)
Size(s, p) == Len(s[p].items)
Row(s, p, i) == s[p].items[i]

(* k Sets of elements of R. *)
HasRows(s, k, R) == DOMAIN s = 1 .. k /\ \A p \in 1 .. k : s[p].items \in Seq(R)

(* Row x is in one of k Sets. *)
HasRow(s, k, x) == \E p \in 1 .. k : \E i \in 1 .. Size(s, p) : Row(s, p, i) = x

(* No row is in two places. *)
NoRowTwice(s, k) ==
  \A p, q \in 1 .. k : \A i \in 1 .. Size(s, p), j \in 1 .. Size(s, q) :
    Row(s, p, i) = Row(s, q, j) => p = q /\ i = j

SameSize(s, k) == \A p, q \in 1 .. k : Size(s, p) = Size(s, q)
NoneEmpty(s, k) == \A p \in 1 .. k : Size(s, p) >= 1
AtMostOne(s, k) == \A p \in 1 .. k : Size(s, p) <= 1

Close(s, k, b) == \A p, q \in 1 .. k : s[p].sum - s[q].sum <= b

(* s is a sequence of k Sets of rows, each row in one of them, with their
   sums, which differ by no more than one of Bounds; all Sets have the same
   size, if they must, and none is empty, unless none has two rows. *)
IsSets(w, k, equal_size, Bounds, s) ==
  /\ Len(s) = k
  /\ HasRows(s, k, 1 .. Len(w))
  /\ \A p \in 1 .. k : s[p].sum = Total(w, s[p].items)
  /\ NoRowTwice(s, k)
  /\ AtMostOne(s, k) \/ NoneEmpty(s, k)
  /\ equal_size => SameSize(s, k)
  /\ \E b \in Bounds : Close(s, k, b)
  /\ \E x : HasRow(s, k, x)

(* The Sets are in order. *)
IsState(w, k, equal_size, Bounds, s) ==
  /\ IsSets(w, k, equal_size, Bounds, s)
  /\ \A p, q \in 1 .. k : p < q => s[p].sum >= s[q].sum

(* The workload of each row. *)
IsWork(w) == Len(w) \in Nat /\ DOMAIN w = 1 .. Len(w) /\ \A i \in 1 .. Len(w) : w[i] \in Nat \ {0}

(* The rows of the Sets of a State. *)
LEMMA RowFacts ==
  ASSUME NEW R, NEW k, NEW s, HasRows(s, k, R)
  PROVE  /\ DOMAIN s = 1 .. k
         /\ \A p \in 1 .. k : s[p].items \in Seq(R) /\ Size(s, p) \in Nat
         /\ \A p \in 1 .. k : \A i \in 1 .. Size(s, p) : Row(s, p, i) \in R
<1>1. ASSUME NEW t \in Seq(R) PROVE Len(t) \in Nat /\ \A i \in 1 .. Len(t) : t[i] \in R
  OBVIOUS
<1> QED
  BY <1>1 DEF HasRows, Size, Row

(* What Total says of the rows of a Set. *)
LEMMA TotalFacts ==
  ASSUME NEW w, IsWork(w), NEW s \in Seq(1 .. Len(w))
  PROVE  /\ Total(w, s) \in Nat
         /\ Total(w, s) = 0 <=> Len(s) = 0
         /\ Len(s) = 1 => Total(w, s) = w[s[1]]
<1> DEFINE n == Len(s)
           f == [j \in DOMAIN s |-> w[s[j]]]
<1>1. n \in Nat /\ \A i \in 1 .. n : f[i] = w[s[i]] /\ f[i] \in Nat \ {0}
  BY DEF IsWork
<1>2. Total(w, s) = SumOf(f, n)
  BY DEF Total
<1> HIDE DEF f, n
<1>3. SumOf(f, n) \in Nat /\ \A i \in 1 .. n : f[i] <= SumOf(f, n)
  BY <1>1, SumNat
<1>4. SumOf(f, 0) = 0 /\ \A k \in 1 .. n : SumOf(f, k) = SumOf(f, k - 1) + f[k]
  <2>1. \A i \in 1 .. n : f[i] \in Int
    BY <1>1
  <2> QED
    BY <1>1, <2>1, SumFacts
<1>5. n # 0 => SumOf(f, n) # 0
  <2>1. n # 0 => 1 \in 1 .. n
    BY <1>1
  <2> QED
    BY <1>1, <1>3, <2>1
<1>6. n = 1 => SumOf(f, n) = w[s[1]]
  <2> SUFFICES ASSUME n = 1 PROVE SumOf(f, 1) = w[s[1]]
    OBVIOUS
  <2>1. SumOf(f, 1) = SumOf(f, 0) + f[1] /\ f[1] = w[s[1]] /\ f[1] \in Nat
    BY <1>1, <1>4
  <2> QED
    BY <1>4, <2>1
<1> QED
  BY <1>2, <1>3, <1>4, <1>5, <1>6 DEF n

(* Sorted Sets are the same Sets. *)
LEMMA SortedSets ==
  ASSUME NEW w, IsWork(w), NEW k \in Nat \ {0}, NEW equal_size, NEW Bounds, NEW u,
         IsSets(w, k, equal_size, Bounds, u)
  PROVE  /\ IsState(w, k, equal_size, Bounds, SortedBy(u, Larger))
         /\ \A x : HasRow(SortedBy(u, Larger), k, x) <=> HasRow(u, k, x)
<1> DEFINE v == SortedBy(u, Larger)
<1>1. /\ Len(u) = k /\ HasRows(u, k, 1 .. Len(w)) /\ NoRowTwice(u, k)
      /\ \A p \in 1 .. k : u[p].sum = Total(w, u[p].items)
      /\ AtMostOne(u, k) \/ NoneEmpty(u, k)
      /\ equal_size => SameSize(u, k)
      /\ \E x : HasRow(u, k, x)
  BY DEF IsSets
<1>2. \A p \in 1 .. k : IsSet(u[p])
  <2>1. ASSUME NEW p \in 1 .. k PROVE IsSet(u[p])
    <3>1. u[p].items \in Seq(1 .. Len(w))
      BY <1>1, RowFacts
    <3>2. u[p].sum \in Nat
      BY <1>1, <3>1, TotalFacts
    <3>3. Seq(1 .. Len(w)) \subseteq Seq(Int)
      BY DEF IsWork
    <3> QED
      BY <3>1, <3>2, <3>3 DEF IsSet
  <2> QED
    BY <2>1
<1>3. Rearranges(v, u) /\ \A a, b \in 1 .. k : a < b => v[a].sum >= v[b].sum
  BY <1>1, <1>2, LargerSorted
<1> HIDE DEF v
<1>4. PICK m : Permutes(m, k) /\ v = [i \in 1 .. k |-> u[m[i]]]
  BY <1>1, <1>3 DEF Rearranges
<1>5. Len(v) = k /\ DOMAIN v = 1 .. k /\ \A i \in 1 .. k : v[i] = u[m[i]] /\ m[i] \in 1 .. k
  <2>1. \A i \in 1 .. k : m[i] \in 1 .. k
    BY <1>4 DEF Permutes
  <2>2. Len(v) = k
    BY <1>4
  <2> QED
    BY <1>4, <2>1, <2>2
<1>6. \A p \in 1 .. k : Size(v, p) = Size(u, m[p]) /\ \A i : Row(v, p, i) = Row(u, m[p], i)
  BY <1>5 DEF Size, Row
<1>7. NoRowTwice(v, k)
  <2> SUFFICES ASSUME NEW p \in 1 .. k, NEW q \in 1 .. k,
                      NEW i \in 1 .. Size(v, p), NEW j \in 1 .. Size(v, q),
                      Row(v, p, i) = Row(v, q, j)
               PROVE  p = q /\ i = j
    BY DEF NoRowTwice
  <2>1. m[p] = m[q] /\ i = j
    BY <1>1, <1>5, <1>6 DEF NoRowTwice
  <2> QED
    BY <1>4, <2>1 DEF Permutes
<1>8. AtMostOne(v, k) \/ NoneEmpty(v, k)
  BY <1>1, <1>5, <1>6 DEF AtMostOne, NoneEmpty
<1>9. equal_size => SameSize(v, k)
  BY <1>1, <1>5, <1>6 DEF SameSize
<1>10. \E b \in Bounds : Close(v, k, b)
  <2>1. PICK b \in Bounds : Close(u, k, b)
    BY DEF IsSets
  <2>2. Close(v, k, b)
    <3> SUFFICES ASSUME NEW p \in 1 .. k, NEW q \in 1 .. k PROVE v[p].sum - v[q].sum <= b
      BY DEF Close
    <3>1. v[p] = u[m[p]] /\ v[q] = u[m[q]] /\ m[p] \in 1 .. k /\ m[q] \in 1 .. k
      BY <1>5
    <3>2. u[m[p]].sum - u[m[q]].sum <= b
      BY <2>1, <3>1 DEF Close
    <3> QED
      BY <3>1, <3>2
  <2> QED
    BY <2>2
<1>11. \A x : HasRow(v, k, x) <=> HasRow(u, k, x)
  <2>1. ASSUME NEW x, HasRow(v, k, x) PROVE HasRow(u, k, x)
    BY <1>5, <1>6, <2>1 DEF HasRow
  <2>2. ASSUME NEW x, HasRow(u, k, x) PROVE HasRow(v, k, x)
    <3>1. PICK p \in 1 .. k : \E i \in 1 .. Size(u, p) : Row(u, p, i) = x
      BY <2>2 DEF HasRow
    <3>2. PICK q \in 1 .. k : m[q] = p
      BY <1>4 DEF Permutes
    <3>3. \E i \in 1 .. Size(v, q) : Row(v, q, i) = x
      BY <1>6, <3>1, <3>2
    <3> QED
      BY <3>3 DEF HasRow
  <2> QED
    BY <2>1, <2>2
<1>12. HasRows(v, k, 1 .. Len(w)) /\ \A p \in 1 .. k : v[p].sum = Total(w, v[p].items)
  <2>1. \A p \in 1 .. k : u[p].items \in Seq(1 .. Len(w))
    BY <1>1, RowFacts
  <2> QED
    BY <1>1, <1>5, <2>1 DEF HasRows
<1>13. IsSets(w, k, equal_size, Bounds, v)
  BY <1>1, <1>5, <1>7, <1>8, <1>9, <1>10, <1>11, <1>12 DEF IsSets
<1>14. IsState(w, k, equal_size, Bounds, v)
  BY <1>3, <1>13 DEF IsState
<1> QED
  BY <1>11, <1>14 DEF v

(* Two states merged have the rows of both. *)
LEMMA Merging ==
  ASSUME NEW w, IsWork(w), NEW k \in Nat \ {0}, NEW equal_size, NEW Bounds, Bounds \subseteq Int,
         NEW s, NEW t, IsState(w, k, equal_size, Bounds, s), IsState(w, k, equal_size, Bounds, t),
         \A x : ~(HasRow(s, k, x) /\ HasRow(t, k, x))
  PROVE  /\ IsState(w, k, equal_size, Bounds, Merge(s, t))
         /\ \A x : HasRow(Merge(s, t), k, x) <=> HasRow(s, k, x) \/ HasRow(t, k, x)
<1> DEFINE u == [i \in DOMAIN s |-> Joined(s[i], t[Len(t) + 1 - i])]
           R == 1 .. Len(w)
<1>1. /\ Len(s) = k /\ HasRows(s, k, R) /\ NoRowTwice(s, k)
      /\ \A p \in 1 .. k : s[p].sum = Total(w, s[p].items)
      /\ AtMostOne(s, k) \/ NoneEmpty(s, k)
      /\ equal_size => SameSize(s, k)
      /\ \E b \in Bounds : Close(s, k, b)
      /\ \E x : HasRow(s, k, x)
      /\ \A p, q \in 1 .. k : p < q => s[p].sum >= s[q].sum
  BY DEF IsSets, IsState
<1>2. /\ Len(t) = k /\ HasRows(t, k, R) /\ NoRowTwice(t, k)
      /\ \A p \in 1 .. k : t[p].sum = Total(w, t[p].items)
      /\ AtMostOne(t, k) \/ NoneEmpty(t, k)
      /\ equal_size => SameSize(t, k)
      /\ \E b \in Bounds : Close(t, k, b)
      /\ \A p, q \in 1 .. k : p < q => t[p].sum >= t[q].sum
  BY DEF IsSets, IsState
<1>3. /\ DOMAIN s = 1 .. k
      /\ \A p \in 1 .. k : s[p].items \in Seq(R) /\ Size(s, p) \in Nat
      /\ \A p \in 1 .. k : \A i \in 1 .. Size(s, p) : Row(s, p, i) \in R
  BY <1>1, RowFacts
<1>4. /\ \A p \in 1 .. k : t[p].items \in Seq(R) /\ Size(t, p) \in Nat
      /\ \A p \in 1 .. k : \A i \in 1 .. Size(t, p) : Row(t, p, i) \in R
  BY <1>2, RowFacts
<1>5. \A x \in R : w[x] \in Int
  BY DEF IsWork
<1>6. ASSUME NEW p \in 1 .. k
      PROVE  /\ s[p].sum \in Nat /\ (s[p].sum = 0 <=> Size(s, p) = 0)
             /\ t[p].sum \in Nat /\ (t[p].sum = 0 <=> Size(t, p) = 0)
  <2>1. s[p].sum = Total(w, s[p].items) /\ s[p].items \in Seq(1 .. Len(w))
    BY <1>1, <1>3
  <2>2. t[p].sum = Total(w, t[p].items) /\ t[p].items \in Seq(1 .. Len(w))
    BY <1>2, <1>4
  <2>3. Total(w, s[p].items) \in Nat /\ (Total(w, s[p].items) = 0 <=> Len(s[p].items) = 0)
    BY <2>1, TotalFacts
  <2>4. Total(w, t[p].items) \in Nat /\ (Total(w, t[p].items) = 0 <=> Len(t[p].items) = 0)
    BY <2>2, TotalFacts
  <2> QED
    BY <2>1, <2>2, <2>3, <2>4 DEF Size
<1> HIDE DEF R
<1>7. \A i \in 1 .. k : k + 1 - i \in 1 .. k
  OBVIOUS
<1>8. Len(u) = k /\ DOMAIN u = 1 .. k /\ \A i \in 1 .. k : u[i] = Joined(s[i], t[k + 1 - i])
  BY <1>2, <1>3
<1> HIDE DEF u
<1>9. ASSUME NEW i \in 1 .. k
      PROVE  /\ u[i].items \in Seq(R)
             /\ u[i].sum = s[i].sum + t[k + 1 - i].sum
             /\ u[i].sum = Total(w, u[i].items)
             /\ Size(u, i) = Size(s, i) + Size(t, k + 1 - i)
             /\ \A j \in 1 .. Size(s, i) : Row(u, i, j) = Row(s, i, j)
             /\ \A j \in 1 .. Size(t, k + 1 - i) : Row(u, i, Size(s, i) + j) = Row(t, k + 1 - i, j)
  <2> DEFINE a == s[i].items
             b == t[k + 1 - i].items
  <2>1. a \in Seq(R) /\ b \in Seq(R)
    BY <1>3, <1>4, <1>7
  <2>2. u[i].items = a \o b /\ u[i].sum = s[i].sum + t[k + 1 - i].sum
    <3>1. u[i] = Joined(s[i], t[k + 1 - i])
      BY <1>8
    <3> DEFINE c == s[i]
               d == t[k + 1 - i]
    <3>2. Joined(c, d).items = c.items \o d.items /\ Joined(c, d).sum = c.sum + d.sum
      BY DEF Joined
    <3> QED
      BY <3>1, <3>2
  <2>3. s[i].sum = Total(w, a) /\ t[k + 1 - i].sum = Total(w, b)
    BY <1>1, <1>2, <1>7
  <2>4. /\ Size(s, i) = Len(a) /\ Size(t, k + 1 - i) = Len(b) /\ Size(u, i) = Len(u[i].items)
        /\ \A j : Row(s, i, j) = a[j]
        /\ \A j : Row(t, k + 1 - i, j) = b[j]
        /\ \A j : Row(u, i, j) = u[i].items[j]
    BY DEF Size, Row
  <2> HIDE DEF a, b
  <2>5. /\ a \o b \in Seq(R) /\ Len(a \o b) = Len(a) + Len(b)
        /\ \A j \in 1 .. Len(a) : (a \o b)[j] = a[j]
        /\ \A j \in 1 .. Len(b) : (a \o b)[Len(a) + j] = b[j]
    BY <2>1, Concatenation
  <2>6. Total(w, a \o b) = Total(w, a) + Total(w, b)
    BY <1>5, <2>1, TotalJoined
  <2> QED
    BY <2>2, <2>3, <2>4, <2>5, <2>6
<1>10. ASSUME NEW i \in 1 .. k, NEW j \in 1 .. Size(u, i)
       PROVE  \/ j \in 1 .. Size(s, i) /\ Row(u, i, j) = Row(s, i, j)
              \/ /\ j - Size(s, i) \in 1 .. Size(t, k + 1 - i)
                 /\ Row(u, i, j) = Row(t, k + 1 - i, j - Size(s, i))
  <2> DEFINE a == Size(s, i)
             b == Size(t, k + 1 - i)
  <2>1. a \in Nat /\ b \in Nat /\ j \in 1 .. a + b
    BY <1>3, <1>4, <1>7, <1>9
  <2>2. /\ \A m \in 1 .. a : Row(u, i, m) = Row(s, i, m)
        /\ \A m \in 1 .. b : Row(u, i, a + m) = Row(t, k + 1 - i, m)
    BY <1>9
  <2>3. j \in 1 .. a \/ (j - a \in 1 .. b /\ a + (j - a) = j)
    <3> HIDE DEF a, b
    <3> QED
      BY <2>1
  <2> HIDE DEF a, b
  <2>4. \/ j \in 1 .. a /\ Row(u, i, j) = Row(s, i, j)
        \/ j - a \in 1 .. b /\ Row(u, i, j) = Row(t, k + 1 - i, j - a)
    BY <2>2, <2>3
  <2> QED
    BY <2>4 DEF a, b
<1>11. \A x : HasRow(u, k, x) <=> HasRow(s, k, x) \/ HasRow(t, k, x)
  <2>1. ASSUME NEW x, HasRow(u, k, x) PROVE HasRow(s, k, x) \/ HasRow(t, k, x)
    <3>1. PICK i \in 1 .. k : \E j \in 1 .. Size(u, i) : Row(u, i, j) = x
      BY <2>1 DEF HasRow
    <3>2. PICK j \in 1 .. Size(u, i) : Row(u, i, j) = x
      BY <3>1
    <3>3. k + 1 - i \in 1 .. k
      BY <1>7
    <3> QED
      BY <1>10, <3>2, <3>3 DEF HasRow
  <2>2. ASSUME NEW x, HasRow(s, k, x) PROVE HasRow(u, k, x)
    <3>1. PICK i \in 1 .. k : \E j \in 1 .. Size(s, i) : Row(s, i, j) = x
      BY <2>2 DEF HasRow
    <3>2. PICK j \in 1 .. Size(s, i) : Row(s, i, j) = x
      BY <3>1
    <3>3. Size(s, i) \in Nat /\ Size(t, k + 1 - i) \in Nat
      BY <1>3, <1>4, <1>7
    <3>4. j \in 1 .. Size(u, i) /\ Row(u, i, j) = x
      BY <1>9, <3>2, <3>3
    <3> QED
      BY <3>4 DEF HasRow
  <2>3. ASSUME NEW x, HasRow(t, k, x) PROVE HasRow(u, k, x)
    <3>1. PICK q \in 1 .. k : \E j \in 1 .. Size(t, q) : Row(t, q, j) = x
      BY <2>3 DEF HasRow
    <3>2. PICK j \in 1 .. Size(t, q) : Row(t, q, j) = x
      BY <3>1
    <3> DEFINE i == k + 1 - q
    <3>3. i \in 1 .. k /\ k + 1 - i = q
      BY <1>7
    <3> HIDE DEF i
    <3>4. /\ Size(u, i) = Size(s, i) + Size(t, q) /\ Size(s, i) \in Nat /\ Size(t, q) \in Nat
          /\ Row(u, i, Size(s, i) + j) = x
      BY <1>3, <1>4, <1>9, <3>2, <3>3
    <3>5. Size(s, i) + j \in 1 .. Size(u, i)
      BY <3>2, <3>4
    <3> QED
      BY <3>3, <3>4, <3>5 DEF HasRow
  <2> QED
    BY <2>1, <2>2, <2>3
<1>12. NoRowTwice(u, k)
  <2> SUFFICES ASSUME NEW p \in 1 .. k, NEW q \in 1 .. k,
                      NEW i \in 1 .. Size(u, p), NEW j \in 1 .. Size(u, q),
                      Row(u, p, i) = Row(u, q, j)
               PROVE  p = q /\ i = j
    BY DEF NoRowTwice
  <2> DEFINE P == k + 1 - p
             Q == k + 1 - q
             a == Size(s, p)
             b == Size(s, q)
  <2>1. /\ P \in 1 .. k /\ Q \in 1 .. k /\ (P = Q => p = q)
        /\ a \in Nat /\ b \in Nat /\ i \in Int /\ j \in Int
    <3>1. ASSUME NEW v \in 1 .. k PROVE Size(u, v) \in Int
      <4>1. Size(s, v) \in Nat /\ Size(t, k + 1 - v) \in Nat
        BY <1>3, <1>4, <1>7
      <4> QED
        BY <1>9, <4>1
    <3> QED
      BY <1>3, <1>7, <3>1
  <2>2. \/ i \in 1 .. a /\ Row(u, p, i) = Row(s, p, i)
        \/ i - a \in 1 .. Size(t, P) /\ Row(u, p, i) = Row(t, P, i - a)
    BY <1>10
  <2>3. \/ j \in 1 .. b /\ Row(u, q, j) = Row(s, q, j)
        \/ j - b \in 1 .. Size(t, Q) /\ Row(u, q, j) = Row(t, Q, j - b)
    BY <1>10
  <2>4. p = q => a = b
    OBVIOUS
  <2> HIDE DEF P, Q, a, b
  <2>7. \A g, h \in 1 .. k : \A x \in 1 .. Size(s, g), y \in 1 .. Size(s, h) :
          Row(s, g, x) = Row(s, h, y) => g = h /\ x = y
    BY <1>1 DEF NoRowTwice
  <2>8. \A g, h \in 1 .. k : \A x \in 1 .. Size(t, g), y \in 1 .. Size(t, h) :
          Row(t, g, x) = Row(t, h, y) => g = h /\ x = y
    BY <1>2 DEF NoRowTwice
  <2>5. CASE i \in 1 .. a /\ Row(u, p, i) = Row(s, p, i)
    <3>1. CASE j \in 1 .. b /\ Row(u, q, j) = Row(s, q, j)
      <4>1. i \in 1 .. Size(s, p) /\ j \in 1 .. Size(s, q) /\ Row(s, p, i) = Row(s, q, j)
        BY <2>5, <3>1 DEF a, b
      <4> QED
        BY <2>7, <4>1
    <3>2. CASE j - b \in 1 .. Size(t, Q) /\ Row(u, q, j) = Row(t, Q, j - b)
      <4>1. HasRow(s, k, Row(s, p, i))
        BY <2>5 DEF HasRow, a
      <4>2. HasRow(t, k, Row(t, Q, j - b))
        BY <2>1, <3>2 DEF HasRow
      <4> QED
        BY <2>5, <3>2, <4>1, <4>2
    <3> QED
      BY <2>3, <3>1, <3>2
  <2>6. CASE i - a \in 1 .. Size(t, P) /\ Row(u, p, i) = Row(t, P, i - a)
    <3>1. CASE j \in 1 .. b /\ Row(u, q, j) = Row(s, q, j)
      <4>1. HasRow(s, k, Row(s, q, j))
        BY <3>1 DEF HasRow, b
      <4>2. HasRow(t, k, Row(t, P, i - a))
        BY <2>1, <2>6 DEF HasRow
      <4> QED
        BY <2>6, <3>1, <4>1, <4>2
    <3>2. CASE j - b \in 1 .. Size(t, Q) /\ Row(u, q, j) = Row(t, Q, j - b)
      <4>1. P = Q /\ i - a = j - b
        <5>1. Row(t, P, i - a) = Row(t, Q, j - b)
          BY <2>6, <3>2
        <5> QED
          BY <2>1, <2>6, <2>8, <3>2, <5>1
      <4>2. p = q /\ a = b
        BY <2>1, <2>4, <4>1
      <4> QED
        BY <2>1, <4>1, <4>2
    <3> QED
      BY <2>3, <3>1, <3>2
  <2> QED
    BY <2>2, <2>5, <2>6
<1>13. AtMostOne(u, k) \/ NoneEmpty(u, k)
  <2>0. \A i \in 1 .. k : /\ Size(s, i) \in Nat /\ Size(t, i) \in Nat
                          /\ Size(u, i) = Size(s, i) + Size(t, k + 1 - i)
    BY <1>3, <1>4, <1>9
  <2>1. NoneEmpty(s, k) \/ NoneEmpty(t, k) => NoneEmpty(u, k)
    BY <1>7, <2>0 DEF NoneEmpty
  <2>2. ASSUME AtMostOne(s, k), AtMostOne(t, k), ~NoneEmpty(u, k)
        PROVE  AtMostOne(u, k)
    <3>1. PICK i \in 1 .. k : Size(s, i) = 0 /\ Size(t, k + 1 - i) = 0
      <4>1. PICK i \in 1 .. k : ~(Size(u, i) >= 1)
        BY <2>2 DEF NoneEmpty
      <4> QED
        BY <1>7, <2>0, <4>1
    <3>2. ASSUME NEW j \in 1 .. k PROVE Size(u, j) <= 1
      <4>1. k + 1 - j \in 1 .. k /\ k + 1 - i \in 1 .. k
        BY <1>7
      <4>2. Size(s, j) <= 1 /\ Size(t, k + 1 - j) <= 1
        BY <2>2, <4>1 DEF AtMostOne
      <4>3. CASE j >= i
        <5>1. s[j].sum <= s[i].sum
          <6>1. j = i \/ i < j
            BY <4>3
          <6> QED
            BY <1>1, <1>6, <6>1
        <5>2. Size(s, j) = 0
          BY <1>6, <3>1, <5>1
        <5> QED
          BY <2>0, <4>1, <4>2, <5>2
      <4>4. CASE j < i
        <5>1. k + 1 - i < k + 1 - j
          BY <4>4
        <5>2. t[k + 1 - j].sum <= t[k + 1 - i].sum
          BY <1>2, <4>1, <5>1
        <5>3. t[k + 1 - j].sum \in Nat /\ t[k + 1 - i].sum = 0
          BY <1>6, <3>1, <4>1
        <5>4. Size(t, k + 1 - j) = 0
          BY <1>6, <4>1, <5>2, <5>3
        <5> QED
          BY <2>0, <4>1, <4>2, <5>4
      <4> QED
        BY <4>3, <4>4
    <3> QED
      BY <3>2 DEF AtMostOne
  <2> QED
    BY <1>1, <1>2, <2>1, <2>2
<1>14. equal_size => SameSize(u, k)
  <2> SUFFICES ASSUME equal_size, NEW p \in 1 .. k, NEW q \in 1 .. k PROVE Size(u, p) = Size(u, q)
    BY DEF SameSize
  <2>1. Size(s, p) = Size(s, q) /\ Size(t, k + 1 - p) = Size(t, k + 1 - q)
    BY <1>1, <1>2, <1>7 DEF SameSize
  <2> QED
    BY <1>9, <2>1
<1>15. \E b \in Bounds : Close(u, k, b)
  <2>1. PICK b \in Bounds : Close(s, k, b)
    BY <1>1
  <2>2. PICK c \in Bounds : Close(t, k, c)
    BY <1>2
  <2>3. b \in Int /\ c \in Int
    OBVIOUS
  <2>4. PICK d \in Bounds : d >= b /\ d >= c
    BY <2>3
  <2>5. ASSUME NEW p \in 1 .. k, NEW q \in 1 .. k PROVE u[p].sum - u[q].sum <= d
    <3> DEFINE P == k + 1 - p
               Q == k + 1 - q
    <3>1. P \in 1 .. k /\ Q \in 1 .. k /\ (p < q => Q < P) /\ (q < p => P < Q) /\ (p = q => P = Q)
      BY <1>7
    <3>2. u[p].sum = s[p].sum + t[P].sum /\ u[q].sum = s[q].sum + t[Q].sum
      BY <1>9
    <3> HIDE DEF P, Q
    <3>3. /\ s[p].sum \in Int /\ s[q].sum \in Int /\ t[P].sum \in Int /\ t[Q].sum \in Int
          /\ s[p].sum - s[q].sum <= b /\ t[P].sum - t[Q].sum <= c
          /\ s[p].sum - s[p].sum <= b
      BY <1>6, <2>1, <2>2, <3>1 DEF Close
    <3>4. \/ p < q /\ t[P].sum <= t[Q].sum
          \/ p = q /\ P = Q
          \/ q < p /\ s[p].sum <= s[q].sum
      BY <1>1, <1>2, <3>1
    <3>5. d \in Int
      OBVIOUS
    <3> QED
      BY <2>3, <2>4, <3>2, <3>3, <3>4, <3>5
  <2> QED
    BY <2>5 DEF Close
<1>16. HasRows(u, k, R) /\ \A p \in 1 .. k : u[p].sum = Total(w, u[p].items)
  BY <1>8, <1>9 DEF HasRows
<1>17. IsSets(w, k, equal_size, Bounds, u)
  <2>1. \E x : HasRow(u, k, x)
    BY <1>1, <1>11
  <2> QED
    BY <1>8, <1>12, <1>13, <1>14, <1>15, <1>16, <2>1 DEF IsSets, R
<1>18. Merge(s, t) = SortedBy(u, Larger)
  BY DEF Merge, u
<1> DEFINE v == Merge(s, t)
<1>19. /\ IsState(w, k, equal_size, Bounds, v)
       /\ \A x : HasRow(v, k, x) <=> HasRow(u, k, x)
  BY <1>17, <1>18, SortedSets
<1> HIDE DEF v
<1>20. \A x : HasRow(v, k, x) <=> HasRow(s, k, x) \/ HasRow(t, k, x)
  BY <1>11, <1>19
<1> QED
  BY <1>19, <1>20 DEF v
-----------------------------------------------------------------------------
(* The heap.                                                               *)

(* A strict order on some things leaves one that nothing is before. *)
LEMMA Undominated ==
  ASSUME NEW S, IsFiniteSet(S), S # {}, NEW B, \A s \in S : <<s, s>> \notin B,
         \A r, s, t \in S : <<r, s>> \in B /\ <<s, t>> \in B => <<r, t>> \in B
  PROVE  \E s \in S : \A t \in S : <<t, s>> \notin B
<1> DEFINE D(s) == {t \in S : <<t, s>> \in B}
           T == {Cardinality(D(s)) : s \in S}
<1>1. ASSUME NEW s \in S PROVE IsFiniteSet(D(s)) /\ Cardinality(D(s)) \in Nat
  <2>1. D(s) \in SUBSET S
    OBVIOUS
  <2> HIDE DEF D
  <2>2. IsFiniteSet(D(s))
    BY <2>1, FS_Subset
  <2> QED
    BY <2>2, FS_CardinalityType
<1>2. T \subseteq Nat /\ T # {}
  <2> HIDE DEF D
  <2> QED
    BY <1>1
<1>3. PICK m \in T : \A y \in T : m <= y
  <2> HIDE DEF T
  <2> QED
    BY <1>2, LeastNumber
<1>4. PICK s \in S : Cardinality(D(s)) = m
  BY <1>3
<1>5. ASSUME NEW t \in S, <<t, s>> \in B PROVE FALSE
  <2>1. D(t) \in SUBSET D(s) /\ t \in D(s) /\ t \notin D(t)
    BY <1>5
  <2>2. D(t) # D(s)
    BY <2>1
  <2>3. Cardinality(D(t)) \in T
    OBVIOUS
  <2> HIDE DEF D, T
  <2>4. Cardinality(D(t)) <= Cardinality(D(s)) /\ Cardinality(D(t)) # Cardinality(D(s))
    BY <1>1, <2>1, <2>2, FS_Subset
  <2>5. m <= Cardinality(D(t)) /\ m \in Nat /\ Cardinality(D(t)) \in Nat
    BY <1>1, <1>2, <1>3, <2>3
  <2> QED
    BY <1>4, <2>4, <2>5
<1> QED
  BY <1>5

(* States of rows that are in one of them at most. *)
IsHeap(w, k, equal_size, Bounds, heap) ==
  /\ IsFiniteSet(heap)
  /\ \A s \in heap : IsState(w, k, equal_size, Bounds, s)
  /\ \A s, t \in heap : s # t => \A x : ~(HasRow(s, k, x) /\ HasRow(t, k, x))

(* The first Set of a state, and the range of its sums. *)
LEMMA SpreadFacts ==
  ASSUME NEW w, IsWork(w), NEW k \in Nat \ {0}, NEW equal_size, NEW Bounds, NEW s,
         IsState(w, k, equal_size, Bounds, s)
  PROVE  Spread(s) \in Int /\ IsSet(s[1])
<1>1. Len(s) = k /\ HasRows(s, k, 1 .. Len(w)) /\ \A p \in 1 .. k : s[p].sum = Total(w, s[p].items)
  BY DEF IsState, IsSets
<1>2. ASSUME NEW p \in 1 .. k PROVE IsSet(s[p])
  <2>1. s[p].items \in Seq(1 .. Len(w))
    BY <1>1, RowFacts
  <2>2. s[p].sum \in Nat
    BY <1>1, <2>1, TotalFacts
  <2>3. Seq(1 .. Len(w)) \subseteq Seq(Int)
    BY DEF IsWork
  <2> QED
    BY <2>1, <2>2, <2>3 DEF IsSet
<1>3. 1 \in 1 .. k /\ k \in 1 .. k
  OBVIOUS
<1>4. s[1].sum \in Int /\ s[k].sum \in Int
  BY <1>2, <1>3 DEF IsSet
<1> QED
  BY <1>1, <1>2, <1>3, <1>4 DEF Spread

(* The heap pops one of its states. *)
LEMMA PopsState ==
  ASSUME NEW w, IsWork(w), NEW k \in Nat \ {0}, NEW equal_size, NEW Bounds, NEW heap,
         IsHeap(w, k, equal_size, Bounds, heap), heap # {}
  PROVE  Popped(heap) \in heap
<1> DEFINE B == {x \in heap \X heap : PoppedBefore(x[1], x[2])}
<1>1. \A s \in heap : Spread(s) \in Int /\ IsSet(s[1])
  BY SpreadFacts DEF IsHeap
<1>2. \A s, t \in heap : <<s, t>> \in B <=> PoppedBefore(s, t)
  OBVIOUS
<1> HIDE DEF B
<1>3. ASSUME NEW s \in heap PROVE ~PoppedBefore(s, s)
  <2>1. ~Larger(s[1], s[1])
    BY <1>1, LargerOrder
  <2> QED
    BY <1>1, <2>1 DEF PoppedBefore
<1>4. ASSUME NEW r \in heap, NEW s \in heap, NEW t \in heap, PoppedBefore(r, s), PoppedBefore(s, t)
      PROVE  PoppedBefore(r, t)
  <2>1. Larger(r[1], s[1]) /\ Larger(s[1], t[1]) => Larger(r[1], t[1])
    BY <1>1, LargerOrder
  <2>2. Spread(r) \in Int /\ Spread(s) \in Int /\ Spread(t) \in Int
    BY <1>1
  <2> QED
    BY <1>4, <2>1, <2>2 DEF PoppedBefore
<1>5. \E s \in heap : \A t \in heap : <<t, s>> \notin B
  <2>1. /\ \A s \in heap : <<s, s>> \notin B
        /\ \A r, s, t \in heap : <<r, s>> \in B /\ <<s, t>> \in B => <<r, t>> \in B
    BY <1>2, <1>3, <1>4
  <2>2. IsFiniteSet(heap)
    BY DEF IsHeap
  <2> QED
    BY <2>1, <2>2, Undominated
<1>6. \E s \in heap : \A t \in heap : ~PoppedBefore(t, s)
  BY <1>2, <1>5
<1> QED
  BY <1>6 DEF Popped

(* A round merges two states. *)
LEMMA MergesTwo ==
  ASSUME NEW w, IsWork(w), NEW k \in Nat \ {0}, NEW equal_size, NEW Bounds, Bounds \subseteq Int,
         NEW heap, IsHeap(w, k, equal_size, Bounds, heap), Cardinality(heap) >= 2
  PROVE  /\ IsHeap(w, k, equal_size, Bounds, MergeTwo(heap))
         /\ Cardinality(MergeTwo(heap)) = Cardinality(heap) - 1
         /\ \A x : (\E s \in heap : HasRow(s, k, x)) => \E s \in MergeTwo(heap) : HasRow(s, k, x)
<1> DEFINE s == Popped(heap)
           rest == heap \ {s}
           t == Popped(rest)
           u == Merge(s, t)
           others == heap \ {s, t}
<1>0. IsFiniteSet(heap) /\ Cardinality(heap) \in Nat
  <2>1. IsFiniteSet(heap)
    BY DEF IsHeap
  <2> QED
    BY <2>1, FS_CardinalityType
<1>1. s \in heap
  <2>1. heap # {}
    BY <1>0, FS_EmptySet
  <2> QED
    BY <2>1, PopsState
<1>2. MergeTwo(heap) = others \cup {u}
  <2> DEFINE Inner(a, b) == (heap \ {a, b}) \cup {Merge(a, b)}
             Outer(a) == Once(Popped(heap \ {a}), LAMBDA b : Inner(a, b))
             Final(b) == Inner(s, b)
  <2>1. MergeTwo(heap) = Once(s, Outer)
    BY DEF MergeTwo
  <2>2. Outer(s) = Once(t, Final)
    OBVIOUS
  <2>3. Final(t) = others \cup {u}
    OBVIOUS
  <2> HIDE DEF s, t, Outer, Final
  <2>4. MergeTwo(heap) = Outer(s)
    BY <2>1 DEF Once
  <2>5. Outer(s) = Final(t)
    BY <2>2 DEF Once
  <2> HIDE DEF others, u
  <2> QED
    BY <2>3, <2>4, <2>5
<1> HIDE DEF s
<1>3. IsFiniteSet(rest) /\ Cardinality(rest) = Cardinality(heap) - 1
  BY <1>0, <1>1, FS_RemoveElement
<1>4. IsHeap(w, k, equal_size, Bounds, rest)
  BY <1>3 DEF IsHeap
<1>5. t \in rest
  <2>1. rest # {}
    BY <1>0, <1>3, FS_EmptySet
  <2> HIDE DEF rest
  <2> QED
    BY <1>4, <2>1, PopsState
<1>6. t \in heap /\ s # t
  BY <1>5
<1>7. others = rest \ {t}
  OBVIOUS
<1> HIDE DEF rest, t
<1>8. IsFiniteSet(others) /\ Cardinality(others) = Cardinality(heap) - 2
  <2>1. IsFiniteSet(rest \ {t}) /\ Cardinality(rest \ {t}) = Cardinality(rest) - 1
    BY <1>3, <1>5, FS_RemoveElement
  <2> QED
    BY <1>0, <1>3, <1>7, <2>1
<1>9. /\ IsState(w, k, equal_size, Bounds, u)
      /\ \A x : HasRow(u, k, x) <=> HasRow(s, k, x) \/ HasRow(t, k, x)
  <2>1. IsState(w, k, equal_size, Bounds, s) /\ IsState(w, k, equal_size, Bounds, t)
        /\ \A x : ~(HasRow(s, k, x) /\ HasRow(t, k, x))
    BY <1>1, <1>6 DEF IsHeap
  <2> QED
    BY <2>1, Merging
<1>10. \A r \in others : r \in heap /\ r # s /\ r # t
  OBVIOUS
<1>11. heap = others \cup {s, t}
  BY <1>1, <1>6
<1> HIDE DEF u, others
<1>12. ASSUME NEW r \in others, NEW x PROVE ~(HasRow(r, k, x) /\ HasRow(u, k, x))
  BY <1>1, <1>6, <1>9, <1>10 DEF IsHeap
<1>13. u \notin others
  <2>1. PICK x : HasRow(u, k, x)
    BY <1>9 DEF IsState, IsSets
  <2> QED
    BY <1>12, <2>1
<1>14. IsFiniteSet(others \cup {u}) /\ Cardinality(others \cup {u}) = Cardinality(heap) - 1
  <2>1. IsFiniteSet(others \cup {u}) /\ Cardinality(others \cup {u}) = Cardinality(others) + 1
    BY <1>8, <1>13, FS_AddElement
  <2> QED
    BY <1>0, <1>8, <2>1
<1>15. IsHeap(w, k, equal_size, Bounds, others \cup {u})
  <2>1. \A r \in others \cup {u} : IsState(w, k, equal_size, Bounds, r)
    BY <1>9, <1>10 DEF IsHeap
  <2>2. ASSUME NEW r \in others \cup {u}, NEW q \in others \cup {u}, r # q, NEW x
        PROVE  ~(HasRow(r, k, x) /\ HasRow(q, k, x))
    <3>1. r \in others /\ q \in others => ~(HasRow(r, k, x) /\ HasRow(q, k, x))
      BY <1>10, <2>2 DEF IsHeap
    <3> QED
      BY <1>12, <2>2, <3>1
  <2> QED
    BY <1>14, <2>1, <2>2 DEF IsHeap
<1>16. \A x : (\E r \in heap : HasRow(r, k, x)) => \E r \in others \cup {u} : HasRow(r, k, x)
  BY <1>9, <1>11
<1> QED
  BY <1>2, <1>14, <1>15, <1>16

(* The rows in order of workload. *)
LEMMA AscendingFacts ==
  ASSUME NEW w, IsWork(w)
  PROVE  /\ Permutes(Ascending(w), Len(w))
         /\ Ascending(w) = [i \in 1 .. Len(w) |-> Ascending(w)[i]]
         /\ Len(Ascending(w)) = Len(w)
         /\ \A a, b \in 1 .. Len(w) : a < b => w[Ascending(w)[a]] <= w[Ascending(w)[b]]
<1> DEFINE s == [i \in DOMAIN w |-> i]
           n == Len(w)
           t == Sorted(w, s)
<1>1. n \in Nat /\ Len(s) = n /\ \A i \in 1 .. n : s[i] = i
  BY DEF IsWork
<1>2. \A i \in 1 .. n : s[i] \in Int /\ w[s[i]] \in Int
  BY DEF IsWork
<1>3. Ascending(w) = t
  BY DEF Ascending
<1> HIDE DEF s, n
<1>4. Rearranges(t, s) /\ \A a, b \in 1 .. n : a < b => w[t[a]] <= w[t[b]]
  BY <1>1, <1>2, WorkloadSorted
<1> HIDE DEF t
<1>5. PICK p : Permutes(p, n) /\ t = [k \in 1 .. n |-> s[p[k]]]
  BY <1>1, <1>4 DEF Rearranges
<1>6. \A k \in 1 .. n : t[k] = p[k] /\ p[k] \in 1 .. n
  BY <1>1, <1>5 DEF Permutes
<1>7. Permutes(t, n)
  <2>1. t \in [1 .. n -> 1 .. n]
    BY <1>5, <1>6
  <2>2. ASSUME NEW i \in 1 .. n, NEW j \in 1 .. n, t[i] = t[j] PROVE i = j
    <3>1. p[i] = p[j]
      BY <1>6, <2>2
    <3> QED
      BY <1>5, <3>1 DEF Permutes
  <2>3. ASSUME NEW i \in 1 .. n PROVE \E k \in 1 .. n : t[k] = i
    <3>1. PICK k \in 1 .. n : p[k] = i
      BY <1>5 DEF Permutes
    <3> QED
      BY <1>6, <3>1
  <2> QED
    BY <2>1, <2>2, <2>3 DEF Permutes
<1>8. Len(t) = n
  BY <1>1, <1>5
<1>9. t = [i \in 1 .. n |-> t[i]]
  BY <1>5
<1> QED
  BY <1>3, <1>4, <1>7, <1>8, <1>9 DEF n

(* The sum of Set p of a state of one row to a Set. *)
RowWork(w, ids, p) == IF p <= Len(ids) THEN w[ids[p]] ELSE 0

(* Different rows, a Set for each of them, as many as there are Sets if these
   must have one size. *)
FitsState(w, k, equal_size, Bounds, ids) ==
  /\ Len(ids) \in 1 .. k
  /\ equal_size => Len(ids) = k
  /\ \A i \in 1 .. Len(ids) : ids[i] \in 1 .. Len(w)
  /\ \A i, j \in 1 .. Len(ids) : ids[i] = ids[j] => i = j
  /\ \E b \in Bounds : \A p, q \in 1 .. k : RowWork(w, ids, p) - RowWork(w, ids, q) <= b

(* A first state: a row to a Set. *)
LEMMA InitialState ==
  ASSUME NEW w, IsWork(w), NEW k \in Nat \ {0}, NEW equal_size, NEW Bounds,
         NEW ids, FitsState(w, k, equal_size, Bounds, ids)
  PROVE  /\ IsState(w, k, equal_size, Bounds, State(w, ids, k))
         /\ \A x : HasRow(State(w, ids, k), k, x) <=> \E i \in 1 .. Len(ids) : ids[i] = x
<1> DEFINE u == [i \in 1 .. k |-> IF i <= Len(ids)
                                  THEN [sum |-> w[ids[i]], items |-> <<ids[i]>>]
                                  ELSE [sum |-> 0, items |-> <<>>]]
           n == Len(ids)
           R == 1 .. Len(w)
<1>0. /\ n \in 1 .. k
      /\ equal_size => n = k
      /\ \A i \in 1 .. n : ids[i] \in R
      /\ \A i, j \in 1 .. n : ids[i] = ids[j] => i = j
      /\ \E b \in Bounds : \A p, q \in 1 .. k : RowWork(w, ids, p) - RowWork(w, ids, q) <= b
  BY DEF FitsState
<1>1. State(w, ids, k) = SortedBy(u, Larger)
  BY DEF State
<1>2. Len(u) = k /\ DOMAIN u = 1 .. k
  OBVIOUS
<1>3. ASSUME NEW i \in 1 .. k, i <= n
      PROVE  /\ u[i].sum = w[ids[i]] /\ u[i].items = <<ids[i]>> /\ ids[i] \in R
             /\ Size(u, i) = 1 /\ Row(u, i, 1) = ids[i]
  <2>1. u[i] = [sum |-> w[ids[i]], items |-> <<ids[i]>>]
    BY <1>3
  <2> HIDE DEF u
  <2>2. u[i].sum = w[ids[i]] /\ u[i].items = <<ids[i]>>
    BY <2>1
  <2>3. i \in 1 .. n
    BY <1>0, <1>3
  <2> QED
    BY <1>0, <2>2, <2>3 DEF Size, Row
<1>4. ASSUME NEW i \in 1 .. k, ~(i <= n)
      PROVE  u[i].sum = 0 /\ u[i].items = <<>> /\ Size(u, i) = 0
  <2>1. u[i] = [sum |-> 0, items |-> <<>>]
    BY <1>4
  <2> HIDE DEF u
  <2>2. u[i].sum = 0 /\ u[i].items = <<>>
    BY <2>1
  <2> QED
    BY <2>2 DEF Size
<1> HIDE DEF u
<1>5. HasRows(u, k, R)
  <2>1. ASSUME NEW i \in 1 .. k PROVE u[i].items \in Seq(R)
    <3>1. CASE i <= n
      <4>1. \A x \in R : <<x>> \in Seq(R)
        OBVIOUS
      <4> QED
        BY <1>3, <3>1, <4>1
    <3>2. CASE ~(i <= n)
      <4>1. <<>> \in Seq(R)
        OBVIOUS
      <4> QED
        BY <1>4, <3>2, <4>1
    <3> QED
      BY <3>1, <3>2
  <2> QED
    BY <1>2, <2>1 DEF HasRows
<1>6. \A i \in 1 .. k : u[i].sum = Total(w, u[i].items)
  <2>1. ASSUME NEW i \in 1 .. k PROVE u[i].sum = Total(w, u[i].items)
    <3> DEFINE t == u[i].items
    <3>1. t \in Seq(R)
      BY <1>5, RowFacts
    <3>2. /\ Total(w, t) = 0 <=> Len(t) = 0
          /\ Len(t) = 1 => Total(w, t) = w[t[1]]
      <4> HIDE DEF t
      <4> QED
        BY <3>1, TotalFacts
    <3>3. Len(t) = Size(u, i) /\ t[1] = Row(u, i, 1)
      BY DEF Size, Row
    <3> HIDE DEF t
    <3>4. CASE i <= n
      BY <1>3, <3>2, <3>3, <3>4 DEF t
    <3>5. CASE ~(i <= n)
      BY <1>4, <3>2, <3>3, <3>5 DEF t
    <3> QED
      BY <3>4, <3>5
  <2> QED
    BY <2>1
<1>7. NoRowTwice(u, k)
  <2> SUFFICES ASSUME NEW p \in 1 .. k, NEW q \in 1 .. k,
                      NEW i \in 1 .. Size(u, p), NEW j \in 1 .. Size(u, q),
                      Row(u, p, i) = Row(u, q, j)
               PROVE  p = q /\ i = j
    BY DEF NoRowTwice
  <2>1. p <= n /\ q <= n
    BY <1>4
  <2>2. i = 1 /\ j = 1
    BY <1>3, <2>1
  <2>3. ids[p] = ids[q]
    BY <1>3, <2>1, <2>2
  <2> QED
    BY <1>0, <2>1, <2>2, <2>3
<1>8. AtMostOne(u, k)
  <2>1. ASSUME NEW i \in 1 .. k PROVE Size(u, i) <= 1
    BY <1>3, <1>4
  <2> QED
    BY <2>1 DEF AtMostOne
<1>9. equal_size => SameSize(u, k)
  <2>1. equal_size => \A i \in 1 .. k : Size(u, i) = 1
    BY <1>0, <1>3
  <2> QED
    BY <2>1 DEF SameSize
<1>10. \E b \in Bounds : Close(u, k, b)
  <2>1. \A i \in 1 .. k : u[i].sum = RowWork(w, ids, i)
    BY <1>3, <1>4 DEF RowWork
  <2> QED
    BY <1>0, <2>1 DEF Close
<1>11. \A x : HasRow(u, k, x) <=> \E i \in 1 .. n : ids[i] = x
  <2>1. ASSUME NEW x, HasRow(u, k, x) PROVE \E i \in 1 .. n : ids[i] = x
    <3>1. PICK p \in 1 .. k : \E i \in 1 .. Size(u, p) : Row(u, p, i) = x
      BY <2>1 DEF HasRow
    <3>2. PICK i \in 1 .. Size(u, p) : Row(u, p, i) = x
      BY <3>1
    <3>3. p <= n
      BY <1>4
    <3>4. i = 1 /\ p \in 1 .. n
      BY <1>0, <1>3, <3>3
    <3> QED
      BY <1>3, <3>2, <3>3, <3>4
  <2>2. ASSUME NEW i \in 1 .. n PROVE HasRow(u, k, ids[i])
    <3>1. i \in 1 .. k /\ i <= n /\ 1 \in 1 .. 1
      BY <1>0
    <3> QED
      BY <1>3, <3>1 DEF HasRow
  <2> QED
    BY <2>1, <2>2
<1>12. \E x : HasRow(u, k, x)
  <2>1. 1 \in 1 .. n
    BY <1>0
  <2> QED
    BY <1>11, <2>1
<1>13. IsSets(w, k, equal_size, Bounds, u)
  BY <1>2, <1>5, <1>6, <1>7, <1>8, <1>9, <1>10, <1>12 DEF IsSets
<1> DEFINE v == SortedBy(u, Larger)
<1>14. IsState(w, k, equal_size, Bounds, v) /\ \A x : HasRow(v, k, x) <=> HasRow(u, k, x)
  BY <1>13, SortedSets
<1> HIDE DEF v
<1>15. \A x : HasRow(v, k, x) <=> \E i \in 1 .. n : ids[i] = x
  BY <1>11, <1>14
<1> QED
  BY <1>1, <1>14, <1>15 DEF v

(* The longest row. *)
LEMMA MaxOfWork ==
  ASSUME NEW w, IsWork(w), Len(w) > 0
  PROVE  Max(Range(w)) \in Nat /\ \A i \in 1 .. Len(w) : w[i] <= Max(Range(w))
<1> DEFINE n == Len(w)
           R == Range(w)
           b == SumOf(w, n)
           T == {b - x : x \in R}
<1>1. n \in Nat /\ \A i \in 1 .. n : w[i] \in Nat
  BY DEF IsWork
<1>2. b \in Nat /\ \A i \in 1 .. n : w[i] <= b
  <2> HIDE DEF n
  <2> QED
    BY <1>1, SumNat
<1>3. R = {w[i] : i \in 1 .. n}
  BY DEF Range, IsWork
<1> HIDE DEF b, R
<1>4. T \subseteq Nat /\ T # {}
  <2>1. \A x \in R : b - x \in Nat
    BY <1>1, <1>2, <1>3
  <2>2. w[1] \in R
    BY <1>1, <1>3
  <2> QED
    BY <2>1, <2>2
<1>5. PICK y \in T : \A z \in T : y <= z
  <2> HIDE DEF T
  <2> QED
    BY <1>4, LeastNumber
<1>6. PICK m \in R : y = b - m
  OBVIOUS
<1>7. m \in Nat /\ \A x \in R : m >= x
  <2>1. ASSUME NEW x \in R PROVE m >= x
    <3>1. b - m <= b - x
      BY <1>5, <1>6
    <3>2. x \in Nat /\ m \in Nat
      BY <1>1, <1>3
    <3> QED
      BY <1>2, <3>1, <3>2
  <2> QED
    BY <1>1, <1>3, <2>1
<1>8. Max(R) \in R /\ \A x \in R : Max(R) >= x
  BY <1>7 DEF Max
<1>9. Max(R) \in Nat /\ \A i \in 1 .. n : w[i] <= Max(R)
  BY <1>1, <1>3, <1>8
<1> QED
  BY <1>9 DEF R

(* G[lo], ..., G[hi] fit states, and each row is in one of them. *)
IsGrouping(w, k, equal_size, Bounds, lo, hi, G) ==
  /\ lo \in Int /\ hi \in Int /\ lo <= hi
  /\ \A g \in lo .. hi : FitsState(w, k, equal_size, Bounds, G[g])
  /\ \A g, h \in lo .. hi : \A i \in 1 .. Len(G[g]), j \in 1 .. Len(G[h]) :
       G[g][i] = G[h][j] => g = h
  /\ \A x \in 1 .. Len(w) : \E g \in lo .. hi : \E i \in 1 .. Len(G[g]) : G[g][i] = x

(* The heap at first. *)
IsFirst(w, k, equal_size, Bounds, heap) ==
  /\ IsHeap(w, k, equal_size, Bounds, heap)
  /\ heap # {}
  /\ \A x \in 1 .. Len(w) : \E s \in heap : HasRow(s, k, x)

StatesOf(w, k, lo, hi, G) == {State(w, G[g], k) : g \in lo .. hi}

(* The states of the groups are a heap of all the rows. *)
LEMMA StatesAreHeap ==
  ASSUME NEW w, IsWork(w), NEW k \in Nat \ {0}, NEW equal_size, NEW Bounds,
         NEW lo, NEW hi, NEW G, IsGrouping(w, k, equal_size, Bounds, lo, hi, G)
  PROVE  IsFirst(w, k, equal_size, Bounds, StatesOf(w, k, lo, hi, G))
<1> DEFINE S(g) == State(w, G[g], k)
           states == {S(g) : g \in lo .. hi}
           f == [g \in lo .. hi |-> S(g)]
<1>1. /\ \A g \in lo .. hi : IsState(w, k, equal_size, Bounds, S(g))
      /\ \A g \in lo .. hi : \A x : HasRow(S(g), k, x) <=> \E i \in 1 .. Len(G[g]) : G[g][i] = x
  BY InitialState DEF IsGrouping
<1> HIDE DEF S
<1>2. IsFiniteSet(states)
  <2>1. f \in Surjection(lo .. hi, states)
    BY DEF Surjection
  <2>2. IsFiniteSet(lo .. hi)
    BY FS_Interval DEF IsGrouping
  <2> HIDE DEF f, states
  <2> QED
    BY <2>1, <2>2, FS_Surjection
<1>3. lo \in lo .. hi
  BY DEF IsGrouping
<1>4. states # {}
  BY <1>3
<1>5. ASSUME NEW g \in lo .. hi, NEW h \in lo .. hi, NEW x, HasRow(S(g), k, x), HasRow(S(h), k, x)
      PROVE  g = h
  <2>1. PICK i \in 1 .. Len(G[g]) : G[g][i] = x
    BY <1>1, <1>5
  <2>2. PICK j \in 1 .. Len(G[h]) : G[h][j] = x
    BY <1>1, <1>5
  <2>3. G[g][i] = G[h][j]
    BY <2>1, <2>2
  <2> QED
    BY <2>3 DEF IsGrouping
<1>6. IsHeap(w, k, equal_size, Bounds, states)
  <2>1. \A s \in states : IsState(w, k, equal_size, Bounds, s)
    BY <1>1
  <2>2. ASSUME NEW s \in states, NEW t \in states, s # t, NEW x
        PROVE  ~(HasRow(s, k, x) /\ HasRow(t, k, x))
    <3>1. PICK g \in lo .. hi : s = S(g)
      OBVIOUS
    <3>2. PICK h \in lo .. hi : t = S(h)
      OBVIOUS
    <3> QED
      BY <1>5, <2>2, <3>1, <3>2
  <2> HIDE DEF states
  <2> QED
    BY <1>2, <2>1, <2>2 DEF IsHeap
<1>7. ASSUME NEW x \in 1 .. Len(w) PROVE \E s \in states : HasRow(s, k, x)
  <2>1. PICK g \in lo .. hi : \E i \in 1 .. Len(G[g]) : G[g][i] = x
    BY DEF IsGrouping
  <2>2. HasRow(S(g), k, x)
    BY <1>1, <2>1
  <2>3. S(g) \in states
    OBVIOUS
  <2> QED
    BY <2>2, <2>3
<1>8. IsFirst(w, k, equal_size, Bounds, states)
  <2> HIDE DEF states
  <2> QED
    BY <1>4, <1>6, <1>7 DEF IsFirst
<1> QED
  BY <1>8 DEF S, StatesOf

(* How far apart the sums may be: as far as the first and the last row of one
   of the groups of k, or as the longest row. *)
SumBounds(w, k, equal_size) ==
  IF equal_size
  THEN {w[Ascending(w)[g * k + k]] - w[Ascending(w)[g * k + 1]] : g \in 0 .. Len(w) \div k - 1}
  ELSE {Max(Range(w))}

(* k parts of equal size need a number of rows that k divides. *)
MayPart(w, k, equal_size) ==
  /\ k \in Nat \ {0} /\ k <= Len(w)
  /\ equal_size \in BOOLEAN
  /\ equal_size => Len(w) % k = 0

(* Groups of k rows in order of workload. *)
LEMMA FirstGroups ==
  ASSUME NEW w, IsWork(w), NEW k, NEW equal_size, equal_size, MayPart(w, k, equal_size)
  PROVE  /\ SumBounds(w, k, equal_size) \subseteq Int
         /\ IsFirst(w, k, equal_size, SumBounds(w, k, equal_size),
                    {State(w, SubSeq(Ascending(w), g * k + 1, g * k + k), k) :
                      g \in 0 .. Len(w) \div k - 1})
<1> DEFINE n == Len(w)
           m == n \div k
           A == Ascending(w)
           G == [g \in 0 .. m - 1 |-> SubSeq(A, g * k + 1, g * k + k)]
           Bounds == SumBounds(w, k, equal_size)
<1>1. /\ n \in Nat /\ k \in Nat \ {0} /\ k <= n /\ n % k = 0
      /\ \A x \in 1 .. n : w[x] \in Nat \ {0}
  BY DEF IsWork, MayPart
<1>2. Permutes(A, n) /\ Len(A) = n /\ \A a, b \in 1 .. n : a < b => w[A[a]] <= w[A[b]]
  BY AscendingFacts
<1>3. A \in Seq(1 .. n) /\ \A i \in 1 .. n : A[i] \in 1 .. n
  <2>1. A \in [1 .. n -> 1 .. n]
    BY <1>2 DEF Permutes
  <2> HIDE DEF A, n
  <2> QED
    BY <1>1, <2>1
<1>4. Bounds = {w[A[g * k + k]] - w[A[g * k + 1]] : g \in 0 .. m - 1}
  BY DEF SumBounds
<1>5. m \in Nat \ {0} /\ n = k * m
  <2>1. n = k * (n \div k) /\ n \div k \in Nat
    BY <1>1, Divides, DivBounds
  <2>2. n \div k # 0
    BY <1>1, <2>1
  <2> QED
    BY <2>1, <2>2
<1> HIDE DEF A, m, n, Bounds
<1>6. ASSUME NEW g \in 0 .. m - 1
      PROVE  g * k \in Nat /\ g * k + k <= n
  <2>1. g \in Nat /\ g < m
    BY <1>5
  <2>2. g * k + k <= m * k
    BY <1>1, <1>5, <2>1, MulMono
  <2> QED
    BY <1>1, <1>5, <2>1, <2>2
<1>7. ASSUME NEW g \in 0 .. m - 1
      PROVE  Len(G[g]) = k /\ \A i \in 1 .. k : G[g][i] = A[g * k + i] /\ g * k + i \in 1 .. n
  <2> DEFINE o == g * k
  <2>1. o \in Nat /\ o + k <= n
    BY <1>6
  <2>2. G[g] = SubSeq(A, o + 1, o + k)
    OBVIOUS
  <2> HIDE DEF o, G
  <2>3. o + 1 \in 1 .. Len(A) + 1 /\ o + k \in (o + 1) - 1 .. Len(A) /\ (o + k) - (o + 1) + 1 = k
    BY <1>1, <1>2, <2>1
  <2>4. Len(G[g]) = k /\ \A i \in 1 .. k : G[g][i] = A[(o + 1) + i - 1]
    BY <1>3, <2>2, <2>3, SubSeqFacts
  <2>5. \A i \in 1 .. k : (o + 1) + i - 1 = o + i /\ o + i \in 1 .. n
    BY <1>1, <2>1
  <2> QED
    BY <2>4, <2>5 DEF o
<1> HIDE DEF G
<1>8. Bounds \subseteq Int
  <2>1. ASSUME NEW g \in 0 .. m - 1 PROVE w[A[g * k + k]] - w[A[g * k + 1]] \in Int
    <3>1. g * k + k \in 1 .. n /\ g * k + 1 \in 1 .. n
      BY <1>1, <1>7
    <3>2. A[g * k + k] \in 1 .. n /\ A[g * k + 1] \in 1 .. n
      BY <1>3, <3>1
    <3>3. w[A[g * k + k]] \in Nat /\ w[A[g * k + 1]] \in Nat
      BY <1>1, <3>2
    <3> QED
      BY <3>3
  <2> QED
    BY <1>4, <2>1
<1>9. ASSUME NEW g \in 0 .. m - 1
      PROVE  FitsState(w, k, equal_size, Bounds, G[g])
  <2> DEFINE r == G[g]
             o == g * k
             b == w[A[o + k]] - w[A[o + 1]]
  <2>1. Len(r) = k /\ \A i \in 1 .. k : r[i] = A[o + i] /\ o + i \in 1 .. n
    BY <1>7
  <2>2. b \in Bounds /\ o \in Nat
    BY <1>4, <1>6
  <2> HIDE DEF r, o
  <2>3. \A i \in 1 .. Len(r) : r[i] \in 1 .. n
    BY <1>3, <2>1
  <2>4. ASSUME NEW i \in 1 .. Len(r), NEW j \in 1 .. Len(r), r[i] = r[j] PROVE i = j
    <3>1. A[o + i] = A[o + j] /\ o + i \in 1 .. n /\ o + j \in 1 .. n
      BY <2>1, <2>4
    <3>2. o + i = o + j
      BY <1>2, <3>1 DEF Permutes
    <3> QED
      BY <1>1, <2>1, <2>2, <3>2
  <2>5. ASSUME NEW p \in 1 .. k
        PROVE  /\ w[r[p]] \in Nat /\ w[A[o + 1]] \in Nat /\ w[A[o + k]] \in Nat
               /\ w[A[o + 1]] <= w[r[p]] /\ w[r[p]] <= w[A[o + k]]
    <3>1. 1 \in 1 .. k /\ k \in 1 .. k
      BY <1>1
    <3>2. o + 1 \in 1 .. n /\ o + p \in 1 .. n /\ o + k \in 1 .. n
      BY <2>1, <3>1
    <3>3. A[o + 1] \in 1 .. n /\ A[o + p] \in 1 .. n /\ A[o + k] \in 1 .. n /\ r[p] = A[o + p]
      BY <1>3, <2>1, <3>2
    <3>4. w[A[o + 1]] \in Nat /\ w[A[o + p]] \in Nat /\ w[A[o + k]] \in Nat
      BY <1>1, <3>3
    <3>5. (p = 1 \/ o + 1 < o + p) /\ (p = k \/ o + p < o + k)
      BY <1>1, <2>2
    <3>6. w[A[o + 1]] <= w[A[o + p]]
      BY <1>2, <3>2, <3>4, <3>5
    <3>7. w[A[o + p]] <= w[A[o + k]]
      BY <1>2, <3>2, <3>4, <3>5
    <3> QED
      BY <3>3, <3>4, <3>6, <3>7
  <2>6. ASSUME NEW p \in 1 .. k, NEW q \in 1 .. k
        PROVE  RowWork(w, r, p) - RowWork(w, r, q) <= b
    <3>1. p <= Len(r) /\ q <= Len(r)
      BY <1>1, <2>1
    <3>2. w[r[p]] - w[r[q]] <= b
      BY <2>5
    <3> QED
      BY <3>1, <3>2 DEF RowWork
  <2>7. Len(r) \in 1 .. k
    BY <1>1, <2>1
  <2> HIDE DEF b
  <2>8. FitsState(w, k, equal_size, Bounds, r)
    BY <2>1, <2>2, <2>3, <2>4, <2>6, <2>7 DEF FitsState, n
  <2> QED
    BY <2>8 DEF r
<1>10. ASSUME NEW g \in 0 .. m - 1, NEW h \in 0 .. m - 1,
              NEW i \in 1 .. Len(G[g]), NEW j \in 1 .. Len(G[h]), G[g][i] = G[h][j]
       PROVE  g = h
  <2>1. i \in 1 .. k /\ j \in 1 .. k
    BY <1>7
  <2>2. g * k + i = h * k + j
    <3>1. A[g * k + i] = A[h * k + j] /\ g * k + i \in 1 .. n /\ h * k + j \in 1 .. n
      BY <1>7, <1>10, <2>1
    <3> QED
      BY <1>2, <3>1 DEF Permutes
  <2>3. (g * k + (i - 1)) \div k = g /\ (h * k + (j - 1)) \div k = h
    <3>1. g \in Nat /\ h \in Nat /\ i - 1 \in 0 .. k - 1 /\ j - 1 \in 0 .. k - 1
      BY <1>1, <2>1
    <3> QED
      BY <1>1, <3>1, DivOfSum
  <2>4. g * k + (i - 1) = h * k + (j - 1)
    <3>1. g * k \in Nat /\ h * k \in Nat /\ i \in Int /\ j \in Int
      BY <1>6, <2>1
    <3> QED
      BY <2>2, <3>1
  <2> QED
    BY <2>3, <2>4
<1>11. ASSUME NEW x \in 1 .. n PROVE \E g \in 0 .. m - 1 : \E i \in 1 .. Len(G[g]) : G[g][i] = x
  <2>1. PICK y \in 1 .. n : A[y] = x
    BY <1>2 DEF Permutes
  <2> DEFINE g == (y - 1) \div k
             i == y - k * g
  <2>2. g \in Nat /\ k * g <= y - 1 /\ y - 1 < k * g + k
    <3>1. y - 1 \in Nat
      BY <1>1
    <3> QED
      BY <1>1, <3>1, DivBounds
  <2> HIDE DEF g
  <2>3. g < m
    <3>1. k * g < k * m
      BY <1>1, <1>5, <2>2
    <3>2. ~(m <= g)
      <4> SUFFICES ASSUME m <= g PROVE FALSE
        OBVIOUS
      <4>1. k * m <= k * g
        BY <1>1, <1>5, <2>2
      <4>2. k * m \in Int /\ k * g \in Int
        BY <1>1, <1>5, <2>2
      <4> QED
        BY <3>1, <4>1, <4>2
    <3> QED
      BY <1>5, <2>2, <3>2
  <2>4. g \in 0 .. m - 1 /\ g * k = k * g /\ k * g \in Int
    BY <1>1, <1>5, <2>2, <2>3
  <2>5. i \in 1 .. k /\ g * k + i = y
    BY <1>1, <2>2, <2>4
  <2> HIDE DEF i
  <2>6. Len(G[g]) = k /\ G[g][i] = A[g * k + i]
    BY <1>7, <2>4, <2>5
  <2> QED
    BY <2>1, <2>4, <2>5, <2>6
<1> DEFINE states == StatesOf(w, k, 0, m - 1, G)
<1>12. IsFirst(w, k, equal_size, Bounds, states)
  <2>1. 0 \in Int /\ m - 1 \in Int /\ 0 <= m - 1
    BY <1>5
  <2>2. IsGrouping(w, k, equal_size, Bounds, 0, m - 1, G)
    BY <1>9, <1>10, <1>11, <2>1 DEF IsGrouping, n
  <2> QED
    BY <1>1, <2>2, StatesAreHeap
<1>13. states = {State(w, SubSeq(A, g * k + 1, g * k + k), k) : g \in 0 .. m - 1}
  BY DEF G, StatesOf
<1> HIDE DEF states
<1> QED
  BY <1>8, <1>12, <1>13 DEF Bounds, A, m, n

(* Single rows. *)
LEMMA FirstRows ==
  ASSUME NEW w, IsWork(w), NEW k, NEW equal_size, ~equal_size, MayPart(w, k, equal_size)
  PROVE  /\ SumBounds(w, k, equal_size) \subseteq Int
         /\ IsFirst(w, k, equal_size, SumBounds(w, k, equal_size),
                    {State(w, <<Ascending(w)[i]>>, k) : i \in 1 .. Len(w)})
<1> DEFINE n == Len(w)
           A == Ascending(w)
           G == [i \in 1 .. n |-> <<A[i]>>]
           Bounds == SumBounds(w, k, equal_size)
           b == Max(Range(w))
<1>1. /\ n \in Nat \ {0} /\ k \in Nat \ {0}
      /\ \A x \in 1 .. n : w[x] \in Nat \ {0}
  BY DEF IsWork, MayPart
<1>2. Permutes(A, n)
  BY AscendingFacts
<1>3. \A i \in 1 .. n : A[i] \in 1 .. n
  BY <1>2 DEF Permutes
<1>4. Bounds = {b}
  BY DEF SumBounds
<1>5. b \in Nat /\ \A i \in 1 .. n : w[i] <= b
  BY <1>1, MaxOfWork
<1>6. \A i \in 1 .. n : Len(G[i]) = 1 /\ G[i][1] = A[i]
  OBVIOUS
<1>7. StatesOf(w, k, 1, n, G) = {State(w, <<A[i]>>, k) : i \in 1 .. n}
  BY DEF StatesOf
<1> HIDE DEF n, A, G, Bounds, b
<1>8. ASSUME NEW i \in 1 .. n PROVE FitsState(w, k, equal_size, Bounds, G[i])
  <2> DEFINE r == G[i]
  <2>1. Len(r) = 1 /\ r[1] = A[i] /\ A[i] \in 1 .. n
    BY <1>3, <1>6
  <2> HIDE DEF r
  <2>2. w[r[1]] \in Nat /\ w[r[1]] <= b
    BY <1>1, <1>5, <2>1
  <2>3. ASSUME NEW p \in 1 .. k PROVE RowWork(w, r, p) \in 0 .. b
    <3>1. CASE p <= Len(r)
      <4>1. p = 1
        BY <2>1, <3>1
      <4> QED
        BY <1>5, <2>2, <3>1, <4>1 DEF RowWork
    <3>2. CASE ~(p <= Len(r))
      BY <1>5, <3>2 DEF RowWork
    <3> QED
      BY <3>1, <3>2
  <2>4. \A p, q \in 1 .. k : RowWork(w, r, p) - RowWork(w, r, q) <= b
    BY <1>5, <2>3
  <2>5. /\ Len(r) \in 1 .. k
        /\ \A j \in 1 .. Len(r) : r[j] \in 1 .. n
        /\ \A j, h \in 1 .. Len(r) : r[j] = r[h] => j = h
    BY <1>1, <2>1
  <2>6. FitsState(w, k, equal_size, Bounds, r)
    BY <1>4, <2>4, <2>5 DEF FitsState, n
  <2> QED
    BY <2>6 DEF r
<1>9. ASSUME NEW g \in 1 .. n, NEW h \in 1 .. n,
             NEW i \in 1 .. Len(G[g]), NEW j \in 1 .. Len(G[h]), G[g][i] = G[h][j]
      PROVE  g = h
  <2>1. i = 1 /\ j = 1
    <3>1. Len(G[g]) = 1 /\ Len(G[h]) = 1
      BY <1>6
    <3> QED
      BY <3>1
  <2>2. A[g] = A[h]
    BY <1>6, <1>9, <2>1
  <2> QED
    BY <1>2, <2>2 DEF Permutes
<1>10. ASSUME NEW x \in 1 .. n PROVE \E g \in 1 .. n : \E i \in 1 .. Len(G[g]) : G[g][i] = x
  <2>1. PICK g \in 1 .. n : A[g] = x
    BY <1>2 DEF Permutes
  <2>2. 1 \in 1 .. Len(G[g]) /\ G[g][1] = x
    BY <1>6, <2>1
  <2> QED
    BY <2>2
<1> DEFINE states == StatesOf(w, k, 1, n, G)
<1>11. IsFirst(w, k, equal_size, Bounds, states)
  <2>1. 1 \in Int /\ n \in Int /\ 1 <= n
    BY <1>1
  <2>2. IsGrouping(w, k, equal_size, Bounds, 1, n, G)
    BY <1>8, <1>9, <1>10, <2>1 DEF IsGrouping, n
  <2> QED
    BY <1>1, <2>2, StatesAreHeap
<1> HIDE DEF states
<1>12. Bounds \subseteq Int
  BY <1>4, <1>5
<1> QED
  BY <1>7, <1>11, <1>12 DEF Bounds, A, n, states

(* The states the code starts from. *)
LEMMA FirstHeap ==
  ASSUME NEW w, IsWork(w), NEW k, NEW equal_size, MayPart(w, k, equal_size)
  PROVE  /\ SumBounds(w, k, equal_size) \subseteq Int
         /\ IsFirst(w, k, equal_size, SumBounds(w, k, equal_size), InitialStates(w, k, equal_size))
<1> DEFINE A == Ascending(w)
           Outer(ids) ==
             IF equal_size
             THEN {State(w, SubSeq(ids, g * k + 1, g * k + k), k) : g \in 0 .. Len(w) \div k - 1}
             ELSE {State(w, <<ids[i]>>, k) : i \in DOMAIN ids}
<1>1. InitialStates(w, k, equal_size) = Once(A, Outer)
  BY DEF InitialStates
<1>2. DOMAIN A = 1 .. Len(w)
  BY AscendingFacts
<1>3. Outer(A) = IF equal_size
                 THEN {State(w, SubSeq(A, g * k + 1, g * k + k), k) : g \in 0 .. Len(w) \div k - 1}
                 ELSE {State(w, <<A[i]>>, k) : i \in 1 .. Len(w)}
  BY <1>2
<1> HIDE DEF Outer
<1>4. InitialStates(w, k, equal_size) = Outer(A)
  <2> HIDE DEF A
  <2> QED
    BY <1>1 DEF Once
<1> DEFINE groups == {State(w, SubSeq(A, g * k + 1, g * k + k), k) : g \in 0 .. Len(w) \div k - 1}
           single == {State(w, <<A[i]>>, k) : i \in 1 .. Len(w)}
           B == SumBounds(w, k, equal_size)
<1>5. ASSUME equal_size PROVE B \subseteq Int /\ IsFirst(w, k, equal_size, B, groups)
  BY <1>5, FirstGroups
<1>6. ASSUME ~equal_size PROVE B \subseteq Int /\ IsFirst(w, k, equal_size, B, single)
  BY <1>6, FirstRows
<1>7. Outer(A) = IF equal_size THEN groups ELSE single
  BY <1>3
<1> HIDE DEF groups, single, A, B
<1>8. B \subseteq Int /\ IsFirst(w, k, equal_size, B, Outer(A))
  BY <1>5, <1>6, <1>7
<1> QED
  BY <1>4, <1>8 DEF B
-----------------------------------------------------------------------------
(* The partition.                                                          *)

(* parts[1], ..., parts[k] have each of the rows 1 .. n once, and none of them
   is empty. *)
IsPartition(n, k, parts) ==
  /\ Len(parts) = k /\ parts = [p \in 1 .. k |-> parts[p]]
  /\ \A p \in 1 .. k : parts[p] \in Seq(1 .. n) /\ Len(parts[p]) >= 1
  /\ \A p, q \in 1 .. k : \A i \in 1 .. Len(parts[p]), j \in 1 .. Len(parts[q]) :
       parts[p][i] = parts[q][j] => p = q /\ i = j
  /\ \A x \in 1 .. n : \E p \in 1 .. k : \E i \in 1 .. Len(parts[p]) : parts[p][i] = x

(* Their work differs by one of the bounds at most. *)
Balanced(w, k, equal_size, parts) ==
  /\ equal_size => \A p \in 1 .. k : Len(parts[p]) * k = Len(w)
  /\ \E b \in SumBounds(w, k, equal_size) :
       \A p, q \in 1 .. k : Total(w, parts[p]) - Total(w, parts[q]) <= b

(* A state of all the rows. *)
LEMMA LastState ==
  ASSUME NEW w, IsWork(w), NEW k, NEW equal_size, MayPart(w, k, equal_size), NEW s,
         IsState(w, k, equal_size, SumBounds(w, k, equal_size), s),
         \A x \in 1 .. Len(w) : HasRow(s, k, x)
  PROVE  LET parts == [p \in 1 .. k |-> s[p].items]
         IN  IsPartition(Len(w), k, parts) /\ Balanced(w, k, equal_size, parts)
<1> DEFINE n == Len(w)
           parts == [p \in 1 .. k |-> s[p].items]
           Bounds == SumBounds(w, k, equal_size)
<1>1. n \in Nat \ {0} /\ k \in Nat \ {0} /\ k <= n
  BY DEF IsWork, MayPart
<1>2. /\ HasRows(s, k, 1 .. n) /\ NoRowTwice(s, k)
      /\ \A p \in 1 .. k : s[p].sum = Total(w, s[p].items)
      /\ AtMostOne(s, k) \/ NoneEmpty(s, k)
      /\ equal_size => SameSize(s, k)
  BY DEF IsState, IsSets
<1>3. \E b \in Bounds : Close(s, k, b)
  BY DEF IsState, IsSets
<1>4. /\ \A p \in 1 .. k : s[p].items \in Seq(1 .. n) /\ Size(s, p) \in Nat
      /\ \A p \in 1 .. k : \A i \in 1 .. Size(s, p) : Row(s, p, i) \in 1 .. n
  BY <1>2, RowFacts
<1>5. \A x \in 1 .. n : \E p \in 1 .. k : \E i \in 1 .. Size(s, p) : Row(s, p, i) = x
  BY DEF HasRow
<1>6. /\ Len(parts) = k /\ parts = [p \in 1 .. k |-> parts[p]]
      /\ \A p \in 1 .. k : parts[p] = s[p].items /\ Len(parts[p]) = Size(s, p)
                           /\ \A i : parts[p][i] = Row(s, p, i)
  BY <1>1 DEF Size, Row
<1> HIDE DEF parts, n, Bounds
<1>7. NoneEmpty(s, k)
  <2> SUFFICES ASSUME AtMostOne(s, k), ~NoneEmpty(s, k) PROVE FALSE
    BY <1>2
  <2>1. PICK e \in 1 .. k : ~(Size(s, e) >= 1)
    BY DEF NoneEmpty
  <2> DEFINE S == {p \in 1 .. k : Size(s, p) = 1}
             f == [p \in S |-> Row(s, p, 1)]
  <2>2. f \in [S -> 1 .. n]
    BY <1>4
  <2>3. ASSUME NEW x \in 1 .. n PROVE \E p \in S : f[p] = x
    <3>1. PICK p \in 1 .. k : \E i \in 1 .. Size(s, p) : Row(s, p, i) = x
      BY <1>5
    <3>2. PICK i \in 1 .. Size(s, p) : Row(s, p, i) = x
      BY <3>1
    <3>3. Size(s, p) = 1 /\ i = 1
      BY <1>4, <3>2 DEF AtMostOne
    <3> QED
      BY <3>2, <3>3
  <2>4. f \in Surjection(S, 1 .. n)
    BY <2>2, <2>3 DEF Surjection
  <2> DEFINE others == (1 .. k) \ {e}
  <2>5. S \in SUBSET others
    BY <2>1
  <2> HIDE DEF S, f
  <2>6. IsFiniteSet(others) /\ Cardinality(others) = k - 1
    <3>1. IsFiniteSet(1 .. k) /\ Cardinality(1 .. k) = k
      BY <1>1, FS_Interval
    <3> QED
      BY <3>1, FS_RemoveElement
  <2> HIDE DEF others
  <2>7. IsFiniteSet(S) /\ Cardinality(S) <= k - 1
    BY <2>5, <2>6, FS_Subset
  <2>8. Cardinality(1 .. n) <= Cardinality(S)
    BY <2>4, <2>7, FS_Surjection
  <2>9. Cardinality(1 .. n) = n
    BY <1>1, FS_Interval
  <2>10. Cardinality(S) \in Nat
    BY <2>7, FS_CardinalityType
  <2> QED
    BY <1>1, <2>7, <2>8, <2>9, <2>10
<1>8. IsPartition(n, k, parts)
  <2>1. \A p \in 1 .. k : parts[p] \in Seq(1 .. n) /\ Len(parts[p]) >= 1
    BY <1>4, <1>6, <1>7 DEF NoneEmpty
  <2>2. ASSUME NEW p \in 1 .. k, NEW q \in 1 .. k,
               NEW i \in 1 .. Len(parts[p]), NEW j \in 1 .. Len(parts[q]), parts[p][i] = parts[q][j]
        PROVE  p = q /\ i = j
    <3>1. i \in 1 .. Size(s, p) /\ j \in 1 .. Size(s, q) /\ Row(s, p, i) = Row(s, q, j)
      BY <1>6, <2>2
    <3> QED
      BY <1>2, <3>1 DEF NoRowTwice
  <2>3. \A x \in 1 .. n : \E p \in 1 .. k : \E i \in 1 .. Len(parts[p]) : parts[p][i] = x
    BY <1>5, <1>6
  <2> QED
    BY <1>6, <2>1, <2>2, <2>3 DEF IsPartition
<1>9. ASSUME equal_size, NEW p \in 1 .. k PROVE Len(parts[p]) * k = n
  <2> DEFINE l == Size(s, p)
             D == (1 .. k) \X (1 .. l)
             f == [y \in D |-> Row(s, y[1], y[2])]
  <2>1. l \in Nat /\ \A q \in 1 .. k : Size(s, q) = l
    BY <1>2, <1>4, <1>9 DEF SameSize
  <2> HIDE DEF l
  <2>2. f \in [D -> 1 .. n]
    <3>1. ASSUME NEW y \in D PROVE Row(s, y[1], y[2]) \in 1 .. n
      <4>1. y[1] \in 1 .. k /\ y[2] \in 1 .. Size(s, y[1])
        BY <2>1
      <4> QED
        BY <1>4, <4>1
    <3> QED
      BY <3>1
  <2>3. ASSUME NEW y \in D, NEW z \in D, f[y] = f[z] PROVE y = z
    <3>1. /\ y[1] \in 1 .. k /\ y[2] \in 1 .. Size(s, y[1]) /\ y = <<y[1], y[2]>>
          /\ z[1] \in 1 .. k /\ z[2] \in 1 .. Size(s, z[1]) /\ z = <<z[1], z[2]>>
      BY <2>1
    <3>2. Row(s, y[1], y[2]) = Row(s, z[1], z[2])
      BY <2>3
    <3>3. y[1] = z[1] /\ y[2] = z[2]
      BY <1>2, <3>1, <3>2 DEF NoRowTwice
    <3> QED
      BY <3>1, <3>3
  <2>4. ASSUME NEW x \in 1 .. n PROVE \E y \in D : f[y] = x
    <3>1. PICK q \in 1 .. k : \E i \in 1 .. Size(s, q) : Row(s, q, i) = x
      BY <1>5
    <3>2. PICK i \in 1 .. Size(s, q) : Row(s, q, i) = x
      BY <3>1
    <3>3. <<q, i>> \in D
      BY <2>1, <3>2
    <3>4. f[<<q, i>>] = x
      BY <3>2, <3>3
    <3> QED
      BY <3>3, <3>4
  <2> HIDE DEF f
  <2>5. f \in Bijection(D, 1 .. n)
    BY <2>2, <2>3, <2>4 DEF Bijection, Injection, Surjection, IsInjective
  <2>6. ExistsBijection(D, 1 .. n)
    BY <2>5 DEF ExistsBijection
  <2>7. IsFiniteSet(D) /\ Cardinality(D) = k * l
    <3>1. IsFiniteSet(1 .. k) /\ Cardinality(1 .. k) = k
      BY <1>1, FS_Interval
    <3>2. IsFiniteSet(1 .. l) /\ Cardinality(1 .. l) = l
      BY <2>1, FS_Interval
    <3> DEFINE P == 1 .. k
               Q == 1 .. l
    <3>3. D = P \X Q
      OBVIOUS
    <3>4. IsFiniteSet(P) /\ Cardinality(P) = k /\ IsFiniteSet(Q) /\ Cardinality(Q) = l
      BY <3>1, <3>2
    <3> HIDE DEF P, Q, D
    <3>5. IsFiniteSet(P \X Q) /\ Cardinality(P \X Q) = Cardinality(P) * Cardinality(Q)
      BY <3>4, FS_Product
    <3> QED
      BY <3>3, <3>4, <3>5
  <2> HIDE DEF D
  <2>8. Cardinality(1 .. n) = k * l
    BY <2>6, <2>7, FS_Bijection
  <2>9. Cardinality(1 .. n) = n
    BY <1>1, FS_Interval
  <2>10. Len(parts[p]) = l
    BY <1>6 DEF l
  <2> QED
    BY <1>1, <2>1, <2>8, <2>9, <2>10
<1>10. \E b \in Bounds : \A p, q \in 1 .. k : Total(w, parts[p]) - Total(w, parts[q]) <= b
  BY <1>2, <1>3, <1>6 DEF Close
<1>11. Balanced(w, k, equal_size, parts)
  BY <1>9, <1>10 DEF Balanced, Bounds, n
<1> QED
  BY <1>8, <1>11 DEF parts, n

(* The heap after 0, 1, ... rounds. *)
Heaps(states, rounds) ==
  LET heap[i \in 0 .. rounds] == IF i = 0 THEN states ELSE Once(heap[i - 1], MergeTwo) IN heap

(* Each round merges two of its states. *)
LEMMA HeapRounds ==
  ASSUME NEW states, NEW rounds \in Nat
  PROVE  /\ Heaps(states, rounds)[0] = states
         /\ \A i \in 1 .. rounds :
              Heaps(states, rounds)[i] = MergeTwo(Heaps(states, rounds)[i - 1])
<1> DEFINE Is(r, g) == g = [i \in 0 .. r |-> IF i = 0 THEN states ELSE Once(g[i - 1], MergeTwo)]
           G == {r \in 0 .. rounds : \E g : Is(r, g)}
           heap == CHOOSE g : Is(rounds, g)
<1>1. 0 \in G
  <2> DEFINE g == [i \in 0 .. 0 |-> states]
  <2>1. Is(0, g)
    OBVIOUS
  <2> HIDE DEF Is, g
  <2>2. \E h : Is(0, h)
    BY <2>1
  <2> QED
    BY <2>2
<1>2. ASSUME NEW r \in 0 .. rounds - 1, r \in G PROVE r + 1 \in G
  <2>1. PICK g : Is(r, g)
    BY <1>2
  <2> DEFINE next == Once(g[r], MergeTwo)
             h == [i \in 0 .. r + 1 |-> IF i = r + 1 THEN next ELSE g[i]]
  <2>2. ASSUME NEW i \in 0 .. r + 1
        PROVE  h[i] = IF i = 0 THEN states ELSE Once(h[i - 1], MergeTwo)
    <3>1. CASE i = 0
      <4>1. h[0] = g[0] /\ g[0] = states
        BY <2>1
      <4> QED
        BY <3>1, <4>1
    <3>2. CASE i # 0
      <4>1. i - 1 \in 0 .. r + 1 /\ i - 1 \in 0 .. r /\ i - 1 # r + 1
        BY <3>2
      <4>2. h[i - 1] = g[i - 1]
        BY <4>1
      <4>3. CASE i = r + 1
        <5>1. h[i] = next /\ i - 1 = r
          BY <4>3
        <5> HIDE DEF h
        <5> QED
          BY <3>2, <4>2, <5>1
      <4>4. CASE i # r + 1
        <5>1. h[i] = g[i] /\ i \in 0 .. r
          BY <4>4
        <5>2. g[i] = Once(g[i - 1], MergeTwo)
          BY <2>1, <3>2, <5>1
        <5> HIDE DEF h
        <5> QED
          BY <3>2, <4>2, <5>1, <5>2
      <4> QED
        BY <4>3, <4>4
    <3> QED
      BY <3>1, <3>2
  <2>3. h = [i \in 0 .. r + 1 |-> h[i]]
    OBVIOUS
  <2> HIDE DEF h
  <2>4. Is(r + 1, h)
    BY <2>2, <2>3
  <2>5. r + 1 \in 0 .. rounds
    OBVIOUS
  <2> HIDE DEF Is
  <2> QED
    BY <2>4, <2>5
<1> HIDE DEF G
<1>3. 0 .. rounds \subseteq G
  BY <1>1, <1>2, Induction
<1>4. \E g : Is(rounds, g)
  BY <1>3 DEF G
<1>5. Is(rounds, heap)
  <2> HIDE DEF Is
  <2> QED
    BY <1>4
<1> HIDE DEF heap
<1>6. heap[0] = states
  BY <1>5
<1>7. ASSUME NEW i \in 1 .. rounds PROVE heap[i] = MergeTwo(heap[i - 1])
  <2>1. heap[i] = Once(heap[i - 1], MergeTwo)
    BY <1>5
  <2> QED
    BY <2>1 DEF Once
<1>8. Heaps(states, rounds) = heap
  BY DEF Heaps, heap
<1> QED
  BY <1>6, <1>7, <1>8
-----------------------------------------------------------------------------
(* karmarkar_karp: whatever it pops from the heap, the last state is a     *)
(* partition of the rows.                                                  *)
LEMMA KarmarkarKarp ==
  ASSUME NEW w, IsWork(w), NEW k, NEW equal_size, MayPart(w, k, equal_size)
  PROVE  /\ IsPartition(Len(w), k, karmarkar_karp(w, k, equal_size))
         /\ Balanced(w, k, equal_size, karmarkar_karp(w, k, equal_size))
<1> DEFINE Bounds == SumBounds(w, k, equal_size)
           states == InitialStates(w, k, equal_size)
           rounds == Cardinality(states) - 1
           heap[i \in 0 .. rounds] == IF i = 0 THEN states ELSE Once(heap[i - 1], MergeTwo)
           Parts(s) == [p \in 1 .. k |-> s[p].items]
           Outer(st) ==
             LET r == Cardinality(st) - 1
                 h[i \in 0 .. r] == IF i = 0 THEN st ELSE Once(h[i - 1], MergeTwo)
             IN  CHOOSE parts \in {[p \in 1 .. k |-> s[p].items] : s \in h[r]} : TRUE
           found == karmarkar_karp(w, k, equal_size)
<1>1. /\ Bounds \subseteq Int
      /\ IsHeap(w, k, equal_size, Bounds, states) /\ states # {}
      /\ \A x \in 1 .. Len(w) : \E s \in states : HasRow(s, k, x)
  BY FirstHeap DEF IsFirst
<1>2. k \in Nat \ {0}
  BY DEF MayPart
<1>3. found = Once(states, Outer)
  BY DEF karmarkar_karp
<1>4. Outer(states) = CHOOSE parts \in {Parts(s) : s \in heap[rounds]} : TRUE
  OBVIOUS
<1> HIDE DEF Outer, Bounds, states, found
<1>5. found = Outer(states)
  BY <1>3 DEF Once
<1>6. IsFiniteSet(states)
  BY <1>1 DEF IsHeap
<1>7. Cardinality(states) \in Nat /\ Cardinality(states) # 0
  BY <1>1, <1>6, FS_CardinalityType, FS_EmptySet
<1>8. rounds \in Nat /\ Cardinality(states) = rounds + 1
  BY <1>7
<1> HIDE DEF rounds
<1>9. heap = Heaps(states, rounds)
  BY DEF Heaps
<1> HIDE DEF heap
<1>10. heap[0] = states /\ \A i \in 1 .. rounds : heap[i] = MergeTwo(heap[i - 1])
  BY <1>8, <1>9, HeapRounds
<1> DEFINE Good(h, c) == /\ IsHeap(w, k, equal_size, Bounds, h)
                         /\ Cardinality(h) = c
                         /\ \A x \in 1 .. Len(w) : \E s \in h : HasRow(s, k, x)
           G == {i \in 0 .. rounds : Good(heap[i], rounds + 1 - i)}
<1>11. 0 \in G
  BY <1>1, <1>8, <1>10
<1>12. ASSUME NEW i \in 0 .. rounds - 1, i \in G PROVE i + 1 \in G
  <2> DEFINE h == heap[i]
  <2>1. heap[i + 1] = MergeTwo(h)
    <3>1. i + 1 \in 1 .. rounds /\ (i + 1) - 1 = i
      BY <1>8
    <3> QED
      BY <1>10, <3>1
  <2>2. Good(h, rounds + 1 - i)
    BY <1>12
  <2> HIDE DEF h
  <2>3. Cardinality(h) = rounds + 1 - i /\ Cardinality(h) >= 2
    BY <1>8, <2>2
  <2>4. /\ IsHeap(w, k, equal_size, Bounds, MergeTwo(h))
        /\ Cardinality(MergeTwo(h)) = Cardinality(h) - 1
        /\ \A x : (\E s \in h : HasRow(s, k, x)) => \E s \in MergeTwo(h) : HasRow(s, k, x)
    BY <1>1, <1>2, <2>2, <2>3, MergesTwo
  <2>5. Cardinality(MergeTwo(h)) = rounds + 1 - (i + 1)
    BY <1>8, <2>3, <2>4
  <2>6. Good(MergeTwo(h), rounds + 1 - (i + 1))
    BY <2>2, <2>4, <2>5
  <2>7. i + 1 \in 0 .. rounds
    BY <1>8
  <2> HIDE DEF Good
  <2> QED
    BY <2>1, <2>6, <2>7
<1> HIDE DEF G
<1>13. 0 .. rounds \subseteq G
  BY <1>8, <1>11, <1>12, Induction
<1> DEFINE last == heap[rounds]
<1>14. Good(last, 1)
  <2> HIDE DEF Good
  <2>1. rounds \in 0 .. rounds /\ rounds + 1 - rounds = 1
    BY <1>8
  <2>2. Good(heap[rounds], rounds + 1 - rounds)
    BY <1>13, <2>1 DEF G
  <2> QED
    BY <2>1, <2>2
<1> HIDE DEF last
<1>15. PICK s : last = {s}
  <2>1. IsFiniteSet(last) /\ Cardinality(last) = 1
    BY <1>14 DEF IsHeap
  <2> QED
    BY <2>1, FS_Singleton
<1>16. IsState(w, k, equal_size, Bounds, s)
  BY <1>14, <1>15 DEF IsHeap
<1>17. \A x \in 1 .. Len(w) : HasRow(s, k, x)
  BY <1>14, <1>15
<1>18. IsPartition(Len(w), k, Parts(s)) /\ Balanced(w, k, equal_size, Parts(s))
  BY <1>16, <1>17, LastState DEF Bounds
<1>19. found = Parts(s)
  <2> HIDE DEF Parts
  <2>1. found = CHOOSE parts \in {Parts(x) : x \in {s}} : TRUE
    BY <1>4, <1>5, <1>15 DEF last
  <2> QED
    BY <2>1
<1> QED
  BY <1>18, <1>19 DEF found

(* The elements of a sequence. *)
LEMMA InSeq ==
  ASSUME NEW S, NEW s \in Seq(S)
  PROVE  Len(s) \in Nat /\ DOMAIN s = 1 .. Len(s) /\ \A i \in 1 .. Len(s) : s[i] \in S
OBVIOUS

(* Element i of t is element f[i] of s. *)
Reorders(f, t, s) ==
  /\ Permutes(f, Len(s))
  /\ t = [i \in 1 .. Len(s) |-> s[f[i]]]
  /\ Len(t) = Len(s)

(* A sequence that is rearranged. *)
LEMMA RearrangedFacts ==
  ASSUME NEW s, NEW t, Len(s) \in Nat, Rearranges(t, s)
  PROVE  \E f : Reorders(f, t, s)
<1> DEFINE n == Len(s)
<1>1. PICK p : Permutes(p, n) /\ t = [i \in 1 .. n |-> s[p[i]]]
  BY DEF Rearranges
<1>3. n \in Nat
  OBVIOUS
<1> HIDE DEF n
<1>4. DOMAIN t = 1 .. n /\ Len(t) = n /\ \A i \in 1 .. n : t[i] = s[p[i]]
  BY <1>1, <1>3
<1> QED
  BY <1>1, <1>4 DEF n, Reorders

(* Its elements are the same. *)
LEMMA ReorderedSeq ==
  ASSUME NEW S, NEW s \in Seq(S), NEW t, NEW f, Reorders(f, t, s)
  PROVE  t \in Seq(S)
<1>1. Len(s) \in Nat /\ \A i \in 1 .. Len(s) : s[i] \in S /\ f[i] \in 1 .. Len(s)
  BY InSeq DEF Reorders, Permutes
<1>2. t \in [1 .. Len(s) -> S]
  BY <1>1 DEF Reorders
<1> QED
  BY <1>1, <1>2

(* The rows of each part in another order. *)
EachRearranged(t, parts, k) ==
  /\ Len(t) = k /\ t = [p \in 1 .. k |-> t[p]]
  /\ \A p \in 1 .. k : Rearranges(t[p], parts[p])
SameLens(t, parts, k) == \A p \in 1 .. k : Len(t[p]) = Len(parts[p])

(* It does not matter. *)
LEMMA PartsRearranged ==
  ASSUME NEW n \in Nat, NEW k \in Nat, NEW parts, IsPartition(n, k, parts),
         NEW t, EachRearranged(t, parts, k)
  PROVE  IsPartition(n, k, t) /\ SameLens(t, parts, k)
<1>0. Len(t) = k /\ t = [p \in 1 .. k |-> t[p]] /\ \A p \in 1 .. k : Rearranges(t[p], parts[p])
  BY DEF EachRearranged
<1>1. /\ \A p \in 1 .. k : parts[p] \in Seq(1 .. n) /\ Len(parts[p]) >= 1
      /\ \A p, q \in 1 .. k : \A i \in 1 .. Len(parts[p]), j \in 1 .. Len(parts[q]) :
           parts[p][i] = parts[q][j] => p = q /\ i = j
      /\ \A x \in 1 .. n : \E p \in 1 .. k : \E i \in 1 .. Len(parts[p]) : parts[p][i] = x
  BY DEF IsPartition
<1>2. ASSUME NEW p \in 1 .. k
      PROVE  /\ Len(t[p]) = Len(parts[p]) /\ t[p] \in Seq(1 .. n)
             /\ \E f : Reorders(f, t[p], parts[p])
  <2> DEFINE s == parts[p]
             u == t[p]
  <2>1. s \in Seq(1 .. n) /\ Rearranges(u, s)
    BY <1>0, <1>1
  <2> HIDE DEF s, u
  <2>2. Len(s) \in Nat
    BY <2>1, InSeq
  <2>3. PICK f : Reorders(f, u, s)
    BY <2>1, <2>2, RearrangedFacts
  <2>4. u \in Seq(1 .. n)
    BY <2>1, <2>3, ReorderedSeq
  <2> QED
    BY <2>3, <2>4 DEF s, u, Reorders
<1>3. ASSUME NEW p \in 1 .. k, NEW q \in 1 .. k,
             NEW i \in 1 .. Len(t[p]), NEW j \in 1 .. Len(t[q]), t[p][i] = t[q][j]
      PROVE  p = q /\ i = j
  <2>1. PICK f : Reorders(f, t[p], parts[p])
    BY <1>2
  <2>2. PICK g : Reorders(g, t[q], parts[q])
    BY <1>2
  <2>3. i \in 1 .. Len(parts[p]) /\ j \in 1 .. Len(parts[q])
    BY <1>2
  <2>4. parts[p][f[i]] = parts[q][g[j]] /\ f[i] \in 1 .. Len(parts[p]) /\ g[j] \in 1 .. Len(parts[q])
    BY <1>3, <2>1, <2>2, <2>3 DEF Reorders, Permutes
  <2>5. p = q /\ f[i] = g[j]
    <3> DEFINE a == f[i]
               b == g[j]
    <3>1. parts[p][a] = parts[q][b] /\ a \in 1 .. Len(parts[p]) /\ b \in 1 .. Len(parts[q])
      BY <2>4
    <3> HIDE DEF a, b
    <3>2. \A x \in 1 .. Len(parts[p]), y \in 1 .. Len(parts[q]) :
            parts[p][x] = parts[q][y] => p = q /\ x = y
      BY <1>1
    <3>3. p = q /\ a = b
      BY <3>1, <3>2
    <3> QED
      BY <3>3 DEF a, b
  <2>6. parts[p][f[j]] = parts[p][f[i]] /\ f[j] \in 1 .. Len(parts[p])
    BY <1>3, <2>1, <2>3, <2>5 DEF Reorders, Permutes
  <2>7. f[j] = f[i]
    <3> DEFINE a == f[j]
               b == f[i]
    <3>1. parts[p][a] = parts[p][b] /\ a \in 1 .. Len(parts[p]) /\ b \in 1 .. Len(parts[p])
      BY <2>4, <2>6
    <3> HIDE DEF a, b
    <3>2. a = b
      BY <1>1, <3>1
    <3> QED
      BY <3>2 DEF a, b
  <2> QED
    BY <2>1, <2>3, <2>5, <2>7 DEF Reorders, Permutes
<1>4. ASSUME NEW x \in 1 .. n PROVE \E p \in 1 .. k : \E i \in 1 .. Len(t[p]) : t[p][i] = x
  <2>1. PICK p \in 1 .. k : \E i \in 1 .. Len(parts[p]) : parts[p][i] = x
    BY <1>1
  <2>2. PICK i \in 1 .. Len(parts[p]) : parts[p][i] = x
    BY <2>1
  <2>3. PICK f : Reorders(f, t[p], parts[p])
    BY <1>2
  <2>4. PICK b \in 1 .. Len(parts[p]) : f[b] = i
    BY <2>3 DEF Reorders, Permutes
  <2>5. t[p][b] = x /\ b \in 1 .. Len(t[p])
    BY <1>2, <2>2, <2>3, <2>4 DEF Reorders
  <2> QED
    BY <2>5
<1>5. \A p \in 1 .. k : t[p] \in Seq(1 .. n) /\ Len(t[p]) >= 1 /\ Len(t[p]) = Len(parts[p])
  BY <1>1, <1>2
<1> QED
  BY <1>0, <1>3, <1>4, <1>5 DEF IsPartition, SameLens

(* get_seqlen_balanced_partitions: a partition of the rows, as balanced. *)
LEMMA PartitionsFacts ==
  ASSUME NEW w, IsWork(w), NEW k, NEW equal_size, MayPart(w, k, equal_size)
  PROVE  /\ IsPartition(Len(w), k, Partitions(w, k, equal_size))
         /\ Balanced(w, k, equal_size, Partitions(w, k, equal_size))
<1> DEFINE n == Len(w)
           given == karmarkar_karp(w, k, equal_size)
           Outer(v) == [p \in 1 .. k |-> SortedBy(v[p], <)]
           parts == Outer(given)
<1>1. Partitions(w, k, equal_size) = Once(given, Outer)
  BY DEF Partitions
<1>2. k \in Nat \ {0} /\ n \in Nat /\ equal_size \in BOOLEAN
  BY DEF MayPart, IsWork
<1>3. IsPartition(n, k, given) /\ Balanced(w, k, equal_size, given)
  BY KarmarkarKarp
<1>4. /\ parts = [p \in 1 .. k |-> parts[p]] /\ Len(parts) = k
      /\ \A p \in 1 .. k : parts[p] = SortedBy(given[p], <)
  BY <1>2
<1> HIDE DEF Outer, given, n
<1>5. Partitions(w, k, equal_size) = parts
  BY <1>1 DEF Once
<1> HIDE DEF parts
<1>6. \A p \in 1 .. k : given[p] \in Seq(1 .. n)
  BY <1>3 DEF IsPartition
<1>7. ASSUME NEW p \in 1 .. k
      PROVE  /\ Len(given[p]) \in Nat /\ DOMAIN given[p] = 1 .. Len(given[p])
             /\ \A i \in 1 .. Len(given[p]) : given[p][i] \in 1 .. n
  BY <1>6, InSeq
<1>8. ASSUME NEW p \in 1 .. k PROVE Rearranges(parts[p], given[p])
  <2> DEFINE s == given[p]
  <2>1. Len(s) \in Nat /\ \A i \in 1 .. Len(s) : s[i] \in Int
    BY <1>7, <1>2
  <2> HIDE DEF s
  <2>2. Rearranges(SortedBy(s, <), s)
    BY <2>1, LessSorted
  <2> QED
    BY <1>4, <2>2 DEF s
<1>9. IsPartition(n, k, parts) /\ \A p \in 1 .. k : Len(parts[p]) = Len(given[p])
  <2>1. EachRearranged(parts, given, k)
    BY <1>4, <1>8 DEF EachRearranged
  <2> QED
    BY <1>2, <1>3, <2>1, PartsRearranged DEF SameLens
<1>10. ASSUME NEW p \in 1 .. k PROVE Total(w, parts[p]) = Total(w, given[p])
  <2> DEFINE s == given[p]
             t == parts[p]
  <2>1. Len(s) \in Nat /\ DOMAIN s = 1 .. Len(s) /\ \A i \in 1 .. Len(s) : w[s[i]] \in Nat
    BY <1>7 DEF IsWork, n
  <2>2. Rearranges(t, s)
    BY <1>8
  <2> HIDE DEF s, t
  <2>3. Total(w, t) = Total(w, s)
    BY <2>1, <2>2, TotalRearranged
  <2> QED
    BY <2>3 DEF s, t
<1>11. Balanced(w, k, equal_size, parts)
  <2>1. equal_size => \A p \in 1 .. k : Len(parts[p]) * k = Len(w)
    BY <1>3, <1>9 DEF Balanced
  <2>2. PICK b \in SumBounds(w, k, equal_size) :
          \A p, q \in 1 .. k : Total(w, given[p]) - Total(w, given[q]) <= b
    BY <1>3 DEF Balanced
  <2>3. \A p, q \in 1 .. k : Total(w, parts[p]) - Total(w, parts[q]) <= b
    BY <1>10, <2>2
  <2> QED
    BY <2>1, <2>3 DEF Balanced
<1> QED
  BY <1>5, <1>9, <1>11 DEF n

(* Its assertions hold. *)
LEMMA AssertsHold ==
  ASSUME NEW w, IsWork(w), NEW k, NEW equal_size, MayPart(w, k, equal_size)
  PROVE  PartitionAsserts(w, k, equal_size)
<1> DEFINE n == Len(w)
           parts == Partitions(w, k, equal_size)
<1>1. IsPartition(n, k, parts) /\ Balanced(w, k, equal_size, parts)
  BY PartitionsFacts
<1>2. n \in Nat /\ k \in Nat \ {0} /\ k <= n /\ DOMAIN w = 1 .. n /\ (equal_size => n % k = 0)
  BY DEF IsWork, MayPart
<1> HIDE DEF n, parts
<1>3. \A p \in 1 .. k : parts[p] \in Seq(1 .. n) /\ Len(parts[p]) >= 1
  BY <1>1 DEF IsPartition
<1>4. ASSUME NEW p \in 1 .. k
      PROVE  /\ parts[p] # <<>>
             /\ \A x : x \in Range(parts[p]) <=> \E i \in 1 .. Len(parts[p]) : parts[p][i] = x
             /\ Range(parts[p]) \subseteq 1 .. n
  <2> DEFINE s == parts[p]
  <2>1. s \in Seq(1 .. n) /\ Len(s) >= 1
    BY <1>3
  <2> HIDE DEF s
  <2>2. DOMAIN s = 1 .. Len(s) /\ \A i \in 1 .. Len(s) : s[i] \in 1 .. n
    BY <2>1, InSeq
  <2>3. /\ s # <<>>
        /\ \A x : x \in Range(s) <=> \E i \in 1 .. Len(s) : s[i] = x
        /\ Range(s) \subseteq 1 .. n
    BY <2>1, <2>2 DEF Range
  <2> QED
    BY <2>3 DEF s
<1>5. equal_size => \A p \in 1 .. k : Len(parts[p]) * k = n
  BY <1>1 DEF Balanced, n
<1>6. \A x \in 1 .. n : \E p \in 1 .. k : \E i \in 1 .. Len(parts[p]) : parts[p][i] = x
  BY <1>1 DEF IsPartition
<1> DEFINE all == UNION {Range(parts[p]) : p \in 1 .. k}
<1>7. all \subseteq 1 .. n
  BY <1>4
<1>8. ASSUME NEW x \in 1 .. n PROVE x \in all
  <2>1. PICK p \in 1 .. k : \E i \in 1 .. Len(parts[p]) : parts[p][i] = x
    BY <1>6
  <2>2. x \in Range(parts[p])
    BY <1>4, <2>1
  <2> QED
    BY <2>2
<1>9. all = DOMAIN w
  BY <1>2, <1>7, <1>8
<1>10. \A p \in 1 .. k : parts[p] # <<>>
  BY <1>4
<1>11. Len(w) >= k /\ (equal_size => Len(w) % k = 0)
  BY <1>2 DEF n
<1>12. \A v \in {parts} :
         /\ \A p \in 1 .. k : v[p] # <<>>
         /\ equal_size => \A p \in 1 .. k : Len(v[p]) * k = n
         /\ UNION {Range(v[p]) : p \in 1 .. k} = DOMAIN w
  BY <1>5, <1>9, <1>10
<1> QED
  BY <1>11, <1>12 DEF PartitionAsserts, n, parts
-----------------------------------------------------------------------------
(* The order of the micro-batches of a rank, and of the rows of a rank's     *)
(* share.                                                                    *)

(* One order after another. *)
LEMMA RearrangedTwice ==
  ASSUME NEW s, NEW t, NEW u, Len(s) \in Nat, Rearranges(t, s), Rearranges(u, t)
  PROVE  Rearranges(u, s)
<1> DEFINE n == Len(s)
<1>1. n \in Nat
  OBVIOUS
<1>2. PICK f : Permutes(f, n) /\ t = [i \in 1 .. n |-> s[f[i]]]
  BY DEF Rearranges
<1> HIDE DEF n
<1>3. Len(t) = n
  BY <1>1, <1>2
<1>4. PICK g : Permutes(g, n) /\ u = [i \in 1 .. n |-> t[g[i]]]
  BY <1>3 DEF Rearranges
<1> DEFINE h == [i \in 1 .. n |-> f[g[i]]]
<1>5. /\ f \in [1 .. n -> 1 .. n]
      /\ \A i, j \in 1 .. n : f[i] = f[j] => i = j
      /\ \A i \in 1 .. n : \E j \in 1 .. n : f[j] = i
  BY <1>2 DEF Permutes
<1>6. /\ g \in [1 .. n -> 1 .. n]
      /\ \A i, j \in 1 .. n : g[i] = g[j] => i = j
      /\ \A i \in 1 .. n : \E j \in 1 .. n : g[j] = i
  BY <1>4 DEF Permutes
<1>7. h \in [1 .. n -> 1 .. n]
  BY <1>5, <1>6
<1>8. ASSUME NEW i \in 1 .. n, NEW j \in 1 .. n, h[i] = h[j] PROVE i = j
  <2>1. g[i] \in 1 .. n /\ g[j] \in 1 .. n /\ f[g[i]] = f[g[j]]
    BY <1>6, <1>8
  <2>2. g[i] = g[j]
    BY <1>5, <2>1
  <2> QED
    BY <1>6, <2>2
<1>9. ASSUME NEW i \in 1 .. n PROVE \E j \in 1 .. n : h[j] = i
  <2>1. PICK a \in 1 .. n : f[a] = i
    BY <1>5
  <2>2. PICK b \in 1 .. n : g[b] = a
    BY <1>6
  <2> QED
    BY <2>1, <2>2
<1>10. u = [i \in 1 .. n |-> s[h[i]]]
  <2>1. \A i \in 1 .. n : t[g[i]] = s[h[i]]
    BY <1>2, <1>6
  <2> QED
    BY <1>4, <2>1
<1>11. Permutes(h, n)
  BY <1>7, <1>8, <1>9 DEF Permutes
<1> HIDE DEF h
<1> QED
  BY <1>10, <1>11 DEF Rearranges, n

(* Half of n, rounded down and up. *)
LEMMA Halves ==
  ASSUME NEW n \in Nat
  PROVE  /\ n \div 2 \in Nat /\ (n + 1) \div 2 \in Nat
         /\ n \div 2 + (n + 1) \div 2 = n
         /\ 2 * (n \div 2) <= n /\ 2 * ((n + 1) \div 2) - 1 <= n
         /\ \E m \in Nat : n = 2 * m \/ n = 2 * m + 1
OBVIOUS

(* s[::2] reversed, then s[1::2]; and s[::2], then s[1::2] reversed. *)
LEMMA Interleaved ==
  ASSUME NEW S, NEW s \in Seq(S)
  PROVE  /\ Rearranges(Reverse(Evens(s)) \o Odds(s), s)
         /\ Rearranges(Evens(s) \o Reverse(Odds(s)), s)
<1> DEFINE n == Len(s)
           e == (n + 1) \div 2
           o == n \div 2
<1>1. n \in Nat /\ \A i \in 1 .. n : s[i] \in S
  BY InSeq
<1>2. /\ e \in Nat /\ o \in Nat /\ e + o = n
      /\ 2 * o <= n /\ 2 * e - 1 <= n
  BY <1>1, Halves
<1>3. /\ Evens(s) = [i \in 1 .. e |-> s[2 * i - 1]]
      /\ Odds(s) = [i \in 1 .. o |-> s[2 * i]]
  BY DEF Evens, Odds
<1> HIDE DEF n, e, o
<1>4. /\ Evens(s) \in Seq(S) /\ Len(Evens(s)) = e
      /\ Odds(s) \in Seq(S) /\ Len(Odds(s)) = o
      /\ \A i \in 1 .. e : Evens(s)[i] = s[2 * i - 1]
      /\ \A i \in 1 .. o : Odds(s)[i] = s[2 * i]
  <2>1. \A i \in 1 .. e : s[2 * i - 1] \in S
    <3>1. \A i \in 1 .. e : 2 * i - 1 \in 1 .. n
      BY <1>1, <1>2
    <3> QED
      BY <1>1, <3>1
  <2>2. \A i \in 1 .. o : s[2 * i] \in S
    <3>1. \A i \in 1 .. o : 2 * i \in 1 .. n
      BY <1>1, <1>2
    <3> QED
      BY <1>1, <3>1
  <2>3. Evens(s) \in [1 .. e -> S] /\ Odds(s) \in [1 .. o -> S]
    BY <1>3, <2>1, <2>2
  <2> QED
    BY <1>2, <1>3, <2>3
<1>5. ASSUME NEW t \in Seq(S)
      PROVE  /\ Reverse(t) \in Seq(S) /\ Len(Reverse(t)) = Len(t)
             /\ \A i \in 1 .. Len(t) : Reverse(t)[i] = t[Len(t) - i + 1]
  <2>1. Len(t) \in Nat /\ \A i \in 1 .. Len(t) : t[i] \in S
    BY InSeq
  <2>2. \A i \in 1 .. Len(t) : Len(t) - i + 1 \in 1 .. Len(t)
    BY <2>1
  <2>3. Reverse(t) = [i \in 1 .. Len(t) |-> t[Len(t) - i + 1]]
    BY DEF Reverse
  <2>4. Reverse(t) \in [1 .. Len(t) -> S]
    BY <2>1, <2>2, <2>3
  <2> QED
    BY <2>1, <2>3, <2>4
<1>6. Rearranges(Reverse(Evens(s)) \o Odds(s), s)
  <2> DEFINE t == Reverse(Evens(s)) \o Odds(s)
             f == [i \in 1 .. n |-> IF i <= e THEN 2 * (e - i + 1) - 1 ELSE 2 * (i - e)]
  <2>1. /\ Reverse(Evens(s)) \in Seq(S) /\ Len(Reverse(Evens(s))) = e
        /\ \A i \in 1 .. e : Reverse(Evens(s))[i] = s[2 * (e - i + 1) - 1]
    <3>1. \A i \in 1 .. e : e - i + 1 \in 1 .. e
      BY <1>2
    <3> QED
      BY <1>4, <1>5, <3>1
  <2>2. /\ t \in Seq(S) /\ Len(t) = n
        /\ \A i \in 1 .. e : t[i] = s[2 * (e - i + 1) - 1]
        /\ \A i \in 1 .. o : t[e + i] = s[2 * i]
    <3> DEFINE a == Reverse(Evens(s))
               b == Odds(s)
    <3>1. a \in Seq(S) /\ b \in Seq(S) /\ Len(a) = e /\ Len(b) = o /\ t = a \o b
      BY <1>4, <2>1
    <3>2. /\ \A i \in 1 .. e : a[i] = s[2 * (e - i + 1) - 1]
          /\ \A i \in 1 .. o : b[i] = s[2 * i]
      BY <1>4, <2>1
    <3> HIDE DEF a, b, t
    <3> DEFINE c == a \o b
    <3>3. /\ c \in Seq(S) /\ Len(c) = Len(a) + Len(b)
          /\ \A i \in 1 .. Len(a) : c[i] = a[i]
          /\ \A i \in 1 .. Len(b) : c[Len(a) + i] = b[i]
      <4>1. a \in Seq(S) /\ b \in Seq(S)
        BY <3>1
      <4> QED
        BY <4>1, Concatenation
    <3>4. t = c
      BY <3>1
    <3> HIDE DEF c
    <3> QED
      BY <1>2, <3>1, <3>2, <3>3, <3>4
  <2> HIDE DEF t
  <2>3. f \in [1 .. n -> 1 .. n]
    BY <1>1, <1>2
  <2>4. ASSUME NEW i \in 1 .. n, NEW j \in 1 .. n, f[i] = f[j] PROVE i = j
    BY <1>1, <1>2, <2>4
  <2>5. ASSUME NEW i \in 1 .. n PROVE \E j \in 1 .. n : f[j] = i
    <3>0. i \in Nat
      BY <1>1
    <3>1. PICK m \in Nat : i = 2 * m \/ i = 2 * m + 1
      BY <3>0, Halves
    <3>2. CASE i = 2 * m
      <4>1. e + m \in 1 .. n /\ e + m > e
        BY <1>1, <1>2, <3>2
      <4> QED
        BY <1>2, <3>2, <4>1
    <3>3. CASE i = 2 * m + 1
      <4>1. e - m \in 1 .. n /\ e - m <= e
        BY <1>1, <1>2, <3>3
      <4>2. f[e - m] = 2 * (e - (e - m) + 1) - 1
        BY <4>1
      <4> QED
        BY <1>2, <3>3, <4>1, <4>2
    <3> QED
      BY <3>1, <3>2, <3>3
  <2>6. ASSUME NEW i \in 1 .. n PROVE t[i] = s[f[i]]
    <3>1. CASE i <= e
      BY <1>1, <1>2, <2>2, <3>1
    <3>2. CASE i > e
      <4>1. i - e \in 1 .. o /\ e + (i - e) = i
        BY <1>1, <1>2, <3>2
      <4>2. t[e + (i - e)] = s[2 * (i - e)]
        BY <2>2, <4>1
      <4> QED
        BY <1>2, <3>2, <4>1, <4>2
    <3> QED
      BY <1>2, <3>1, <3>2
  <2>7. Permutes(f, n)
    BY <2>3, <2>4, <2>5 DEF Permutes
  <2> HIDE DEF f
  <2>8. t = [i \in 1 .. n |-> s[f[i]]]
    <3>1. t \in [1 .. n -> S]
      BY <2>2
    <3> QED
      BY <2>6, <3>1
  <2> QED
    BY <2>7, <2>8 DEF Rearranges, n, t
<1>7. Rearranges(Evens(s) \o Reverse(Odds(s)), s)
  <2> DEFINE t == Evens(s) \o Reverse(Odds(s))
             f == [i \in 1 .. n |-> IF i <= e THEN 2 * i - 1 ELSE 2 * (n - i + 1)]
  <2>1. /\ Reverse(Odds(s)) \in Seq(S) /\ Len(Reverse(Odds(s))) = o
        /\ \A i \in 1 .. o : Reverse(Odds(s))[i] = s[2 * (o - i + 1)]
    <3>1. \A i \in 1 .. o : o - i + 1 \in 1 .. o
      BY <1>2
    <3> QED
      BY <1>4, <1>5, <3>1
  <2>2. /\ t \in Seq(S) /\ Len(t) = n
        /\ \A i \in 1 .. e : t[i] = s[2 * i - 1]
        /\ \A i \in 1 .. o : t[e + i] = s[2 * (o - i + 1)]
    <3> DEFINE a == Evens(s)
               b == Reverse(Odds(s))
    <3>1. a \in Seq(S) /\ b \in Seq(S) /\ Len(a) = e /\ Len(b) = o /\ t = a \o b
      BY <1>4, <2>1
    <3>2. /\ \A i \in 1 .. e : a[i] = s[2 * i - 1]
          /\ \A i \in 1 .. o : b[i] = s[2 * (o - i + 1)]
      BY <1>4, <2>1
    <3> HIDE DEF a, b, t
    <3> DEFINE c == a \o b
    <3>3. /\ c \in Seq(S) /\ Len(c) = Len(a) + Len(b)
          /\ \A i \in 1 .. Len(a) : c[i] = a[i]
          /\ \A i \in 1 .. Len(b) : c[Len(a) + i] = b[i]
      <4>1. a \in Seq(S) /\ b \in Seq(S)
        BY <3>1
      <4> QED
        BY <4>1, Concatenation
    <3>4. t = c
      BY <3>1
    <3> HIDE DEF c
    <3> QED
      BY <1>2, <3>1, <3>2, <3>3, <3>4
  <2> HIDE DEF t
  <2>3. f \in [1 .. n -> 1 .. n]
    BY <1>1, <1>2
  <2>4. ASSUME NEW i \in 1 .. n, NEW j \in 1 .. n, f[i] = f[j] PROVE i = j
    BY <1>1, <1>2, <2>4
  <2>5. ASSUME NEW i \in 1 .. n PROVE \E j \in 1 .. n : f[j] = i
    <3>0. i \in Nat
      BY <1>1
    <3>1. PICK m \in Nat : i = 2 * m \/ i = 2 * m + 1
      BY <3>0, Halves
    <3>2. CASE i = 2 * m
      <4>1. n - m + 1 \in 1 .. n /\ n - m + 1 > e
        BY <1>1, <1>2, <3>2
      <4>2. f[n - m + 1] = 2 * (n - (n - m + 1) + 1)
        BY <1>2, <4>1
      <4> QED
        BY <1>1, <3>2, <4>1, <4>2
    <3>3. CASE i = 2 * m + 1
      <4>1. m + 1 \in 1 .. n /\ m + 1 <= e
        BY <1>1, <1>2, <3>3
      <4> QED
        BY <1>2, <3>3, <4>1
    <3> QED
      BY <3>1, <3>2, <3>3
  <2>6. ASSUME NEW i \in 1 .. n PROVE t[i] = s[f[i]]
    <3>1. CASE i <= e
      BY <1>1, <1>2, <2>2, <3>1
    <3>2. CASE i > e
      <4>1. i - e \in 1 .. o /\ e + (i - e) = i /\ o - (i - e) + 1 = n - i + 1
        BY <1>1, <1>2, <3>2
      <4>2. t[e + (i - e)] = s[2 * (o - (i - e) + 1)]
        BY <2>2, <4>1
      <4> QED
        BY <1>2, <3>2, <4>1, <4>2
    <3> QED
      BY <1>2, <3>1, <3>2
  <2>7. Permutes(f, n)
    BY <2>3, <2>4, <2>5 DEF Permutes
  <2> HIDE DEF f
  <2>8. t = [i \in 1 .. n |-> s[f[i]]]
    <3>1. t \in [1 .. n -> S]
      BY <2>2
    <3> QED
      BY <2>6, <3>1
  <2> QED
    BY <2>7, <2>8 DEF Rearranges, n, t
<1> QED
  BY <1>6, <1>7

(* The order of the parts does not matter either. *)
LEMMA PartsReordered ==
  ASSUME NEW n \in Nat, NEW k \in Nat, NEW parts, IsPartition(n, k, parts),
         NEW t, NEW f, Reorders(f, t, parts)
  PROVE  IsPartition(n, k, t)
<1>1. Len(parts) = k
  BY DEF IsPartition
<1>2. /\ \A p \in 1 .. k : parts[p] \in Seq(1 .. n) /\ Len(parts[p]) >= 1
      /\ \A p, q \in 1 .. k : \A i \in 1 .. Len(parts[p]), j \in 1 .. Len(parts[q]) :
           parts[p][i] = parts[q][j] => p = q /\ i = j
      /\ \A x \in 1 .. n : \E p \in 1 .. k : \E i \in 1 .. Len(parts[p]) : parts[p][i] = x
  BY DEF IsPartition
<1>3. /\ f \in [1 .. k -> 1 .. k]
      /\ \A i, j \in 1 .. k : f[i] = f[j] => i = j
      /\ \A i \in 1 .. k : \E j \in 1 .. k : f[j] = i
  BY <1>1 DEF Reorders, Permutes
<1>4. /\ Len(t) = k /\ t = [p \in 1 .. k |-> t[p]]
      /\ \A p \in 1 .. k : t[p] = parts[f[p]] /\ f[p] \in 1 .. k
  BY <1>1, <1>3 DEF Reorders
<1>5. ASSUME NEW p \in 1 .. k PROVE t[p] \in Seq(1 .. n) /\ Len(t[p]) >= 1
  BY <1>2, <1>4
<1>6. ASSUME NEW p \in 1 .. k, NEW q \in 1 .. k,
             NEW i \in 1 .. Len(t[p]), NEW j \in 1 .. Len(t[q]), t[p][i] = t[q][j]
      PROVE  p = q /\ i = j
  <2> DEFINE a == f[p]
             b == f[q]
  <2>1. /\ a \in 1 .. k /\ b \in 1 .. k /\ parts[a][i] = parts[b][j]
        /\ i \in 1 .. Len(parts[a]) /\ j \in 1 .. Len(parts[b])
    BY <1>4, <1>6
  <2> HIDE DEF a, b
  <2>2. \A x \in 1 .. Len(parts[a]), y \in 1 .. Len(parts[b]) :
          parts[a][x] = parts[b][y] => a = b /\ x = y
    BY <1>2, <2>1
  <2>3. a = b /\ i = j
    BY <2>1, <2>2
  <2> QED
    BY <1>3, <2>3 DEF a, b
<1>7. ASSUME NEW x \in 1 .. n PROVE \E p \in 1 .. k : \E i \in 1 .. Len(t[p]) : t[p][i] = x
  <2>1. PICK a \in 1 .. k : \E i \in 1 .. Len(parts[a]) : parts[a][i] = x
    BY <1>2
  <2>2. PICK p \in 1 .. k : f[p] = a
    BY <1>3
  <2> QED
    BY <1>4, <2>1, <2>2
<1> QED
  BY <1>4, <1>5, <1>6, <1>7 DEF IsPartition

(* rearrange_micro_batches: every row of a rank is in one micro-batch, none of
   which is empty, and their work differs by a row's at most. *)
LEMMA MicroBatchesFacts ==
  ASSUME NEW w, IsWork(w), NEW num \in 1 .. Len(w)
  PROVE  /\ IsPartition(Len(w), num, MicroBatches(w, num))
         /\ \A p, q \in 1 .. num :
              Total(w, MicroBatches(w, num)[p]) - Total(w, MicroBatches(w, num)[q]) <= Max(Range(w))
<1> DEFINE n == Len(w)
           parts == Partitions(w, num, FALSE)
           most == ByWork(w, parts)
           Outer(s) == Reverse(Evens(s)) \o Odds(s)
           all == MicroBatches(w, num)
<1>1. n \in Nat /\ num \in Nat \ {0} /\ num <= n
  BY DEF IsWork
<1>2. IsPartition(n, num, parts) /\ \E b \in SumBounds(w, num, FALSE) :
        \A p, q \in 1 .. num : Total(w, parts[p]) - Total(w, parts[q]) <= b
  <2> SUFFICES ASSUME NEW eq, eq = FALSE
               PROVE  /\ IsPartition(n, num, Partitions(w, num, eq))
                      /\ \E b \in SumBounds(w, num, eq) : \A p, q \in 1 .. num :
                           Total(w, Partitions(w, num, eq)[p])
                             - Total(w, Partitions(w, num, eq)[q]) <= b
    OBVIOUS
  <2>1. MayPart(w, num, eq)
    BY <1>1 DEF MayPart
  <2> QED
    BY <2>1, PartitionsFacts DEF Balanced
<1>3. SumBounds(w, num, FALSE) = {Max(Range(w))}
  BY DEF SumBounds
<1>4. \A p, q \in 1 .. num : Total(w, parts[p]) - Total(w, parts[q]) <= Max(Range(w))
  BY <1>2, <1>3
<1>5. MostWorkFirst(w, num) = most
  BY DEF MostWorkFirst, ByWork
<1>6. all = Once(most, Outer)
  BY <1>5 DEF MicroBatches
<1> HIDE DEF most, Outer, all, parts, n
<1>7. all = Outer(most)
  BY <1>6 DEF Once
<1>8. /\ Len(parts) = num /\ DOMAIN parts = 1 .. num
      /\ \A p \in 1 .. num : parts[p] \in Seq(1 .. n) /\ Len(parts[p]) >= 1
  BY <1>2 DEF IsPartition
<1>9. ASSUME NEW p \in 1 .. num PROVE Total(w, parts[p]) \in Int /\ Head(parts[p]) \in Int
  <2> DEFINE s == parts[p]
  <2>1. s \in Seq(1 .. n) /\ Len(s) >= 1
    BY <1>8
  <2> HIDE DEF s
  <2>2. Total(w, s) \in Nat
    BY <2>1, TotalFacts DEF n
  <2>3. Head(s) \in Int
    BY <1>1, <2>1
  <2> QED
    BY <2>2, <2>3 DEF s
<1>10. Rearranges(most, parts)
  BY <1>1, <1>8, <1>9, MostWorkSorted DEF most
<1>11. PICK f : Reorders(f, most, parts)
  BY <1>1, <1>8, <1>10, RearrangedFacts
<1>12. most \in Seq(Seq(1 .. n))
  <2>1. parts \in Seq(Seq(1 .. n))
    <3>1. parts = [p \in 1 .. num |-> parts[p]]
      BY <1>2 DEF IsPartition
    <3> DEFINE R == Seq(1 .. n)
    <3>2. \A p \in 1 .. num : parts[p] \in R
      BY <1>8
    <3> HIDE DEF R
    <3>3. parts \in [1 .. num -> R]
      BY <3>1, <3>2
    <3>4. parts \in Seq(R)
      BY <1>1, <3>3
    <3> QED
      BY <3>4 DEF R
  <2> QED
    BY <1>11, <2>1, ReorderedSeq
<1>13. Rearranges(Outer(most), most)
  BY <1>12, Interleaved DEF Outer
<1>14. Rearranges(all, parts)
  BY <1>1, <1>7, <1>8, <1>10, <1>13, RearrangedTwice
<1>15. PICK g : Reorders(g, all, parts)
  BY <1>1, <1>8, <1>14, RearrangedFacts
<1>16. IsPartition(n, num, all)
  BY <1>1, <1>2, <1>15, PartsReordered
<1>17. ASSUME NEW p \in 1 .. num, NEW q \in 1 .. num
       PROVE  Total(w, all[p]) - Total(w, all[q]) <= Max(Range(w))
  <2>1. all[p] = parts[g[p]] /\ all[q] = parts[g[q]] /\ g[p] \in 1 .. num /\ g[q] \in 1 .. num
    BY <1>8, <1>15 DEF Reorders, Permutes
  <2> QED
    BY <1>4, <2>1
<1> QED
  BY <1>16, <1>17 DEF n, all
-----------------------------------------------------------------------------
(* What is flattened: the rows in the order of the parts.                  *)

(* Every row is there once. *)
LEMMA FlattenedPartition ==
  ASSUME NEW n \in Nat, NEW k \in Nat, NEW parts, IsPartition(n, k, parts)
  PROVE  /\ parts \in Seq(Seq(1 .. n))
         /\ Len(FlattenSeq(parts)) = n
         /\ Permutes(FlattenSeq(parts), n)
<1> DEFINE v == PartLengths(parts)
           flat == FlattenSeq(parts)
           L == Len(flat)
<1>1. /\ Len(parts) = k /\ parts = [p \in 1 .. k |-> parts[p]]
      /\ \A p \in 1 .. k : parts[p] \in Seq(1 .. n) /\ Len(parts[p]) >= 1
      /\ \A p, q \in 1 .. k : \A i \in 1 .. Len(parts[p]), j \in 1 .. Len(parts[q]) :
           parts[p][i] = parts[q][j] => p = q /\ i = j
      /\ \A x \in 1 .. n : \E p \in 1 .. k : \E i \in 1 .. Len(parts[p]) : parts[p][i] = x
  BY DEF IsPartition
<1>2. parts \in Seq(Seq(1 .. n))
  <2> DEFINE R == Seq(1 .. n)
  <2>1. \A p \in 1 .. k : parts[p] \in R
    BY <1>1
  <2> HIDE DEF R
  <2>2. parts \in [1 .. k -> R]
    BY <1>1, <2>1
  <2>3. parts \in Seq(R)
    BY <2>2
  <2> QED
    BY <2>3 DEF R
<1>3. /\ flat \in Seq(1 .. n) /\ L = Before(v, k + 1)
      /\ \A p \in 1 .. k : \A i \in 1 .. Len(parts[p]) : flat[Before(v, p) + i] = parts[p][i]
  <2> DEFINE R == 1 .. n
  <2>1. parts \in Seq(Seq(R)) /\ Len(parts) = k
    BY <1>1, <1>2
  <2> HIDE DEF R
  <2>2. /\ FlattenSeq(parts) \in Seq(R)
        /\ Len(FlattenSeq(parts)) = Before(PartLengths(parts), Len(parts) + 1)
        /\ \A p \in 1 .. Len(parts) : \A i \in 1 .. Len(parts[p]) :
             FlattenSeq(parts)[Before(PartLengths(parts), p) + i] = parts[p][i]
    BY <2>1, Flatten
  <2> QED
    BY <2>1, <2>2 DEF R
<1>4. /\ Len(v) = k /\ \A p \in 1 .. k : v[p] = Len(parts[p])
      /\ \A p \in 1 .. k : v[p] \in Nat
  <2>1. Len(v) = k /\ \A p \in 1 .. k : v[p] = Len(parts[p])
    BY <1>1 DEF PartLengths
  <2>2. \A p \in 1 .. k : Len(parts[p]) \in Nat
    BY <1>1, InSeq
  <2> QED
    BY <2>1, <2>2
<1> HIDE DEF v, flat
<1>5. L \in Nat /\ flat \in [1 .. L -> 1 .. n]
  BY <1>3
<1>6. ASSUME NEW t \in 1 .. L
      PROVE  \E p \in 1 .. k : \E i \in 1 .. Len(parts[p]) :
               t = Before(v, p) + i /\ flat[t] = parts[p][i]
  <2>1. t \in 1 .. Before(v, Len(v) + 1)
    BY <1>3, <1>4
  <2>2. PICK p \in 1 .. k : \E i \in 1 .. v[p] : t = Before(v, p) + i
    BY <1>4, <2>1, PartOf
  <2>3. PICK i \in 1 .. v[p] : t = Before(v, p) + i
    BY <2>2
  <2> QED
    BY <1>3, <1>4, <2>3
<1>7. ASSUME NEW t \in 1 .. L, NEW u \in 1 .. L, flat[t] = flat[u] PROVE t = u
  <2>1. PICK p \in 1 .. k : \E i \in 1 .. Len(parts[p]) :
               t = Before(v, p) + i /\ flat[t] = parts[p][i]
    BY <1>6
  <2>2. PICK i \in 1 .. Len(parts[p]) : t = Before(v, p) + i /\ flat[t] = parts[p][i]
    BY <2>1
  <2>3. PICK q \in 1 .. k : \E j \in 1 .. Len(parts[q]) :
               u = Before(v, q) + j /\ flat[u] = parts[q][j]
    BY <1>6
  <2>4. PICK j \in 1 .. Len(parts[q]) : u = Before(v, q) + j /\ flat[u] = parts[q][j]
    BY <2>3
  <2>5. parts[p][i] = parts[q][j]
    BY <1>7, <2>2, <2>4
  <2>6. \A x \in 1 .. Len(parts[p]), y \in 1 .. Len(parts[q]) :
          parts[p][x] = parts[q][y] => p = q /\ x = y
    BY <1>1
  <2>7. p = q /\ i = j
    BY <2>5, <2>6
  <2> QED
    BY <2>2, <2>4, <2>7
<1>8. ASSUME NEW x \in 1 .. n PROVE \E t \in 1 .. L : flat[t] = x
  <2>1. PICK p \in 1 .. k : \E i \in 1 .. Len(parts[p]) : parts[p][i] = x
    BY <1>1
  <2>2. PICK i \in 1 .. Len(parts[p]) : parts[p][i] = x
    BY <2>1
  <2>3. p \in 1 .. Len(v) /\ i \in 1 .. v[p]
    BY <1>4
  <2>4. Before(v, p) + i \in 1 .. Before(v, Len(v) + 1)
    BY <1>4, <2>3, PartOnce
  <2>5. Before(v, p) + i \in 1 .. L
    BY <1>3, <1>4, <2>4
  <2> QED
    BY <1>3, <2>2, <2>5
<1>9. L = n
  <2> DEFINE P == 1 .. L
             Q == 1 .. n
  <2>1. IsFiniteSet(P) /\ Cardinality(P) = L
    <3>1. L \in Nat
      BY <1>5
    <3> HIDE DEF L
    <3> QED
      BY <3>1, FS_Interval
  <2>2. Cardinality(Q) = n
    BY FS_Interval
  <2>3. flat \in [P -> Q] /\ (\A t, u \in P : flat[t] = flat[u] => t = u)
        /\ \A x \in Q : \E t \in P : flat[t] = x
    BY <1>5, <1>7, <1>8
  <2> HIDE DEF P, Q
  <2>4. flat \in Bijection(P, Q)
    BY <2>3 DEF Bijection, Injection, Surjection, IsInjective
  <2>5. ExistsBijection(P, Q)
    BY <2>4 DEF ExistsBijection
  <2> QED
    BY <2>1, <2>2, <2>5, FS_Bijection
<1>10. Permutes(flat, n)
  BY <1>5, <1>7, <1>8, <1>9 DEF Permutes
<1> QED
  BY <1>2, <1>9, <1>10 DEF flat

(* Element i of part m of vs is that of f for element i of part m of parts. *)
Maps(vs, f, parts) ==
  /\ vs = [m \in 1 .. Len(parts) |-> vs[m]]
  /\ \A m \in 1 .. Len(parts) :
       vs[m] = [i \in 1 .. Len(parts[m]) |-> f[parts[m][i]]]

Selects(all, f, flat) == all = [t \in 1 .. Len(flat) |-> f[flat[t]]]

(* So is an element of all of them. *)
LEMMA FlattenMapped ==
  ASSUME NEW S, NEW parts \in Seq(Seq(S)), NEW f, NEW vs, Maps(vs, f, parts)
  PROVE  Selects(FlattenSeq(vs), f, FlattenSeq(parts))
<1> DEFINE v == PartLengths(parts)
           n == Len(parts)
           flat == FlattenSeq(parts)
           all == FlattenSeq(vs)
           T == {f[x] : x \in S}
<1>1. n \in Nat /\ \A m \in 1 .. n : parts[m] \in Seq(S)
  <2> DEFINE R == Seq(S)
  <2>1. parts \in Seq(R)
    OBVIOUS
  <2> HIDE DEF R
  <2>2. Len(parts) \in Nat /\ \A m \in 1 .. Len(parts) : parts[m] \in R
    BY <2>1, InSeq
  <2> QED
    BY <2>2 DEF R
<1>2. \A m \in 1 .. n : Len(parts[m]) \in Nat /\ \A i \in 1 .. Len(parts[m]) : parts[m][i] \in S
  BY <1>1, InSeq
<1>3. vs = [m \in 1 .. n |-> vs[m]]
      /\ \A m \in 1 .. n : vs[m] = [i \in 1 .. Len(parts[m]) |-> f[parts[m][i]]]
  BY DEF Maps
<1>4. ASSUME NEW m \in 1 .. n
      PROVE  /\ vs[m] \in Seq(T) /\ Len(vs[m]) = Len(parts[m])
             /\ \A i \in 1 .. Len(parts[m]) : vs[m][i] = f[parts[m][i]]
  <2> DEFINE l == Len(parts[m])
             a == vs[m]
             b == parts[m]
  <2>1. l \in Nat /\ (\A i \in 1 .. l : b[i] \in S) /\ a = [i \in 1 .. l |-> f[b[i]]]
    BY <1>2, <1>3
  <2> HIDE DEF l, a, b
  <2>2. \A i \in 1 .. l : f[b[i]] \in T
    BY <2>1
  <2> HIDE DEF T
  <2>3. a \in [1 .. l -> T]
    BY <2>1, <2>2
  <2>4. a \in Seq(T) /\ Len(a) = l /\ \A i \in 1 .. l : a[i] = f[b[i]]
    BY <2>1, <2>3
  <2> QED
    BY <2>4 DEF a, b, l
<1> HIDE DEF T
<1>5. vs \in Seq(Seq(T)) /\ Len(vs) = n
  <2> DEFINE R == Seq(T)
  <2>1. \A m \in 1 .. n : vs[m] \in R
    BY <1>4
  <2> HIDE DEF R, n
  <2>2. vs \in [1 .. n -> R]
    BY <1>3, <2>1
  <2>3. vs \in Seq(R) /\ Len(vs) = n
    BY <1>1, <2>2
  <2> QED
    BY <2>3 DEF R
<1>6. PartLengths(vs) = v
  BY <1>4, <1>5 DEF PartLengths
<1>7. /\ flat \in Seq(S) /\ Len(flat) = Before(v, n + 1)
      /\ \A m \in 1 .. n : \A i \in 1 .. Len(parts[m]) : flat[Before(v, m) + i] = parts[m][i]
  BY Flatten
<1>8. /\ all \in Seq(T) /\ Len(all) = Before(v, n + 1)
      /\ \A m \in 1 .. n : \A i \in 1 .. Len(vs[m]) : all[Before(v, m) + i] = vs[m][i]
  <2>1. /\ FlattenSeq(vs) \in Seq(T)
        /\ Len(FlattenSeq(vs)) = Before(PartLengths(vs), Len(vs) + 1)
        /\ \A m \in 1 .. Len(vs) : \A i \in 1 .. Len(vs[m]) :
             FlattenSeq(vs)[Before(PartLengths(vs), m) + i] = vs[m][i]
    BY <1>5, Flatten
  <2> QED
    BY <1>5, <1>6, <2>1
<1>9. Len(v) = n /\ \A m \in 1 .. n : v[m] = Len(parts[m]) /\ v[m] \in Nat
  BY <1>1, <1>2 DEF PartLengths
<1> HIDE DEF v, n, flat, all
<1>10. ASSUME NEW t \in 1 .. Len(flat) PROVE all[t] = f[flat[t]]
  <2>1. t \in 1 .. Before(v, Len(v) + 1)
    BY <1>7, <1>9
  <2>2. PICK m \in 1 .. n : \E i \in 1 .. v[m] : t = Before(v, m) + i
    BY <1>1, <1>9, <2>1, PartOf
  <2>3. PICK i \in 1 .. v[m] : t = Before(v, m) + i
    BY <2>2
  <2>4. flat[t] = parts[m][i] /\ all[t] = vs[m][i] /\ vs[m][i] = f[parts[m][i]]
    BY <1>4, <1>7, <1>8, <1>9, <2>3
  <2> QED
    BY <2>4
<1>11. all = [t \in 1 .. Len(flat) |-> all[t]]
  <2>1. Len(all) = Len(flat)
    BY <1>7, <1>8
  <2> HIDE DEF all
  <2>2. all \in [1 .. Len(all) -> T]
    BY <1>8
  <2> QED
    BY <2>1, <2>2
<1> QED
  BY <1>10, <1>11 DEF all, flat, Selects

(* restore_dynamic_batch: the values in the order of the rows again. *)
LEMMA RestoredRows ==
  ASSUME NEW n \in Nat, NEW parts, Len(FlattenSeq(parts)) = n, Permutes(FlattenSeq(parts), n),
         NEW f, NEW all, Selects(all, f, FlattenSeq(parts))
  PROVE  Restored(all, parts) = [i \in 1 .. n |-> f[i]]
<1> DEFINE idx == FlattenSeq(parts)
           revert == ReverseIdx(idx)
<1>1. /\ idx \in [1 .. n -> 1 .. n]
      /\ \A i, j \in 1 .. n : idx[i] = idx[j] => i = j
      /\ \A i \in 1 .. n : \E j \in 1 .. n : idx[j] = i
  BY DEF Permutes
<1>2. /\ all = [t \in 1 .. n |-> f[idx[t]]]
      /\ Restored(all, parts) = [j \in 1 .. n |-> all[revert[j]]]
  BY DEF Selects, Restored
<1> HIDE DEF idx
<1>3. revert = [j \in 1 .. n |-> CHOOSE i \in 1 .. n : idx[i] = j]
  BY <1>1 DEF ReverseIdx
<1> HIDE DEF revert
<1>4. ASSUME NEW j \in 1 .. n PROVE all[revert[j]] = f[j]
  <2>1. revert[j] \in 1 .. n /\ idx[revert[j]] = j
    BY <1>1, <1>3
  <2>2. all[revert[j]] = f[idx[revert[j]]]
    BY <1>2, <2>1
  <2> QED
    BY <2>1, <2>2
<1> QED
  BY <1>2, <1>4

(* Parts of one size follow each other at multiples of it. *)
LEMMA BeforeEqual ==
  ASSUME NEW v, Len(v) \in Nat, NEW m \in Nat, \A g \in 1 .. Len(v) : v[g] = m
  PROVE  \A g \in 0 .. Len(v) : Before(v, g + 1) = g * m
<1> DEFINE n == Len(v)
           G == {g \in 0 .. n : Before(v, g + 1) = g * m}
<1>1. n \in Nat
  OBVIOUS
<1>2. /\ Before(v, 1) = 0
      /\ \A g \in 1 .. n : Before(v, g + 1) = Before(v, g) + v[g]
  BY BeforeDef
<1> HIDE DEF n
<1>3. 0 \in G
  BY <1>1, <1>2
<1>4. ASSUME NEW g \in 0 .. n - 1, g \in G PROVE g + 1 \in G
  <2>1. g + 1 \in 1 .. n /\ g \in Int
    BY <1>1
  <2>2. Before(v, (g + 1) + 1) = Before(v, g + 1) + v[g + 1]
    BY <1>2, <2>1
  <2>3. Before(v, g + 1) = g * m /\ v[g + 1] = m
    BY <1>4, <2>1 DEF n
  <2>4. (g + 1) * m = g * m + m
    BY <2>1
  <2> QED
    BY <2>1, <2>2, <2>3, <2>4
<1> HIDE DEF G
<1>5. 0 .. n \subseteq G
  BY <1>1, <1>3, <1>4, Induction
<1> QED
  BY <1>5 DEF G, n

(* The work of share d of the rows in the given order, m rows each. *)
ShareWork(w, order, m, d) == SumOf([i \in 1 .. m |-> w[order[d * m + i]]], m)

(* _balance_batch: the shares of the ranks are the parts. *)
LEMMA BalancedOrderFacts ==
  ASSUME NEW w, IsWork(w), NEW k, NEW equal_size, equal_size = TRUE, MayPart(w, k, equal_size)
  PROVE  /\ Len(BalancedOrder(w, k)) = Len(w) /\ Permutes(BalancedOrder(w, k), Len(w))
         /\ \E b \in SumBounds(w, k, equal_size) : \A d, e \in 0 .. k - 1 :
              ShareWork(w, BalancedOrder(w, k), Len(w) \div k, d)
                - ShareWork(w, BalancedOrder(w, k), Len(w) \div k, e) <= b
<1> DEFINE n == Len(w)
           m == n \div k
           given == Partitions(w, k, equal_size)
           Row1(v) == Evens(v) \o Reverse(Odds(v))
           shares == [p \in 1 .. k |-> Once(Sorted(w, given[p]), Row1)]
           Outer(v) == FlattenSeq([p \in 1 .. k |-> Once(Sorted(w, v[p]), Row1)])
           order == BalancedOrder(w, k)
<1>1. k \in Nat \ {0} /\ n \in Nat /\ n % k = 0
  BY DEF MayPart, IsWork
<1>2. IsPartition(n, k, given) /\ Balanced(w, k, equal_size, given)
  BY PartitionsFacts
<1>3. order = FlattenSeq(shares)
  <2>1. order = Once(given, Outer)
    BY DEF BalancedOrder
  <2>2. Outer(given) = FlattenSeq(shares)
    OBVIOUS
  <2> HIDE DEF given, Outer, order, shares
  <2>3. order = Outer(given)
    BY <2>1 DEF Once
  <2> QED
    BY <2>2, <2>3
<1>4. m \in Nat /\ n = k * m /\ \A p \in 1 .. k : Len(given[p]) = m
  <2>1. m \in Nat /\ n = k * m
    <3> HIDE DEF n
    <3> QED
      BY <1>1, DivBounds, Divides
  <2>2. ASSUME NEW p \in 1 .. k PROVE Len(given[p]) = m
    <3> DEFINE l == Len(given[p])
    <3>1. l * k = n
      BY <1>2 DEF Balanced
    <3>2. l \in Nat
      <4>1. given[p] \in Seq(1 .. n)
        BY <1>2 DEF IsPartition
      <4> QED
        BY <4>1, InSeq
    <3> HIDE DEF l, n
    <3>3. k * l <= n /\ n < k * l + k
      BY <1>1, <3>1, <3>2
    <3>4. n \div k = l
      BY <1>1, <3>2, <3>3, DivUnique
    <3> QED
      BY <3>4 DEF l
  <2> QED
    BY <2>1, <2>2
<1>5. ASSUME NEW p \in 1 .. k
      PROVE  Rearranges(shares[p], given[p]) /\ Total(w, shares[p]) = Total(w, given[p])
  <2> DEFINE s == given[p]
             u == Sorted(w, s)
             t == shares[p]
  <2>1. s \in Seq(1 .. n)
    BY <1>2 DEF IsPartition
  <2>2. t = Once(u, Row1)
    OBVIOUS
  <2> HIDE DEF s, t, Row1
  <2>3. t = Row1(u)
    <3> HIDE DEF u
    <3> QED
      BY <2>2 DEF Once
  <2>4. Len(s) \in Nat /\ DOMAIN s = 1 .. Len(s) /\ \A i \in 1 .. Len(s) : s[i] \in 1 .. n
    BY <2>1, InSeq
  <2>5. \A i \in 1 .. Len(s) : s[i] \in Int /\ w[s[i]] \in Int /\ w[s[i]] \in Nat
    BY <1>1, <2>4 DEF IsWork
  <2>6. Rearranges(u, s)
    BY <2>4, <2>5, WorkloadSorted
  <2> HIDE DEF u
  <2>7. PICK f : Reorders(f, u, s)
    BY <2>4, <2>6, RearrangedFacts
  <2>8. u \in Seq(1 .. n)
    BY <2>1, <2>7, ReorderedSeq
  <2>9. Rearranges(t, u)
    BY <2>3, <2>8, Interleaved DEF Row1
  <2>10. Rearranges(t, s)
    BY <2>4, <2>6, <2>9, RearrangedTwice
  <2>11. Total(w, t) = Total(w, s)
    BY <2>4, <2>5, <2>10, TotalRearranged
  <2> QED
    BY <2>10, <2>11 DEF s, t
<1>6. Len(shares) = k /\ shares = [p \in 1 .. k |-> shares[p]]
  <2> DEFINE Op(p) == Once(Sorted(w, given[p]), Row1)
  <2>1. shares = [p \in 1 .. k |-> Op(p)]
    OBVIOUS
  <2> HIDE DEF Op, shares
  <2> QED
    BY <1>1, <2>1
<1> HIDE DEF shares, given, order
<1>7. IsPartition(n, k, shares) /\ SameLens(shares, given, k)
  <2>1. EachRearranged(shares, given, k)
    BY <1>5, <1>6 DEF EachRearranged
  <2> HIDE DEF n
  <2> QED
    BY <1>1, <1>2, <2>1, PartsRearranged
<1>8. shares \in Seq(Seq(1 .. n)) /\ Len(order) = n /\ Permutes(order, n)
  <2> HIDE DEF n
  <2> QED
    BY <1>1, <1>3, <1>7, FlattenedPartition
<1>9. \A p \in 1 .. k : Len(shares[p]) = m
  BY <1>4, <1>7 DEF SameLens
<1> DEFINE v == PartLengths(shares)
<1>10. Len(v) = k /\ \A p \in 1 .. k : v[p] = m
  BY <1>1, <1>6, <1>9 DEF PartLengths
<1>11. \A g \in 0 .. k : Before(v, g + 1) = g * m
  <2> HIDE DEF v, m
  <2>1. m \in Nat /\ Len(v) \in Nat /\ Len(v) = k /\ \A g \in 1 .. Len(v) : v[g] = m
    BY <1>1, <1>4, <1>10
  <2>2. \A g \in 0 .. Len(v) : Before(v, g + 1) = g * m
    BY <2>1, BeforeEqual
  <2> QED
    BY <2>1, <2>2
<1>12. \A p \in 1 .. k : \A i \in 1 .. m : order[Before(v, p) + i] = shares[p][i]
  <2> DEFINE R == 1 .. n
  <2>1. shares \in Seq(Seq(R)) /\ Len(shares) = k
    BY <1>6, <1>8
  <2> HIDE DEF R
  <2>2. \A p \in 1 .. Len(shares) : \A i \in 1 .. Len(shares[p]) :
             FlattenSeq(shares)[Before(PartLengths(shares), p) + i] = shares[p][i]
    BY <2>1, Flatten
  <2> QED
    BY <1>3, <1>9, <2>1, <2>2
<1> HIDE DEF v
<1>13. ASSUME NEW d \in 0 .. k - 1 PROVE ShareWork(w, order, m, d) = Total(w, given[d + 1])
  <2>1. d + 1 \in 1 .. k
    BY <1>1
  <2>2. \A i \in 1 .. m : order[d * m + i] = shares[d + 1][i]
    <3>1. Before(v, d + 1) = d * m
      <4> HIDE DEF m
      <4>1. d \in 0 .. k
        BY <1>1
      <4> QED
        BY <1>11, <4>1
    <3> QED
      BY <1>12, <2>1, <3>1
  <2> DEFINE s == shares[d + 1]
  <2>3. s \in Seq(1 .. n) /\ Len(s) = m
    BY <1>7, <1>9, <2>1 DEF IsPartition
  <2> HIDE DEF s
  <2>4. DOMAIN s = 1 .. m
    BY <2>3, InSeq
  <2>5. [i \in 1 .. m |-> w[order[d * m + i]]] = [j \in DOMAIN s |-> w[s[j]]]
    BY <2>2, <2>4 DEF s
  <2>6. ShareWork(w, order, m, d) = Total(w, s)
    BY <2>3, <2>5 DEF ShareWork, Total
  <2> QED
    BY <1>5, <2>1, <2>6 DEF s
<1>14. PICK b \in SumBounds(w, k, equal_size) :
         \A p, q \in 1 .. k : Total(w, given[p]) - Total(w, given[q]) <= b
  BY <1>2 DEF Balanced
<1>15. ASSUME NEW d \in 0 .. k - 1, NEW e \in 0 .. k - 1
       PROVE  ShareWork(w, order, m, d) - ShareWork(w, order, m, e) <= b
  <2>1. d + 1 \in 1 .. k /\ e + 1 \in 1 .. k
    BY <1>1
  <2> QED
    BY <1>13, <1>14, <2>1
<1> QED
  BY <1>8, <1>15 DEF order, m, n

(* f and g are in order, and g[i] is f[q[i]]. *)
BothSorted(n, f, g, q) ==
  /\ Permutes(q, n)
  /\ \A i \in 1 .. n : f[i] \in Int /\ g[i] = f[q[i]]
  /\ \A i, j \in 1 .. n : i < j => f[i] <= f[j] /\ g[i] <= g[j]

SameValues(n, f, g) == \A i \in 1 .. n : f[i] = g[i]

(* There is one way to put numbers in order. *)
LEMMA SameSorted ==
  ASSUME NEW n \in Nat, NEW f, NEW g, NEW q, BothSorted(n, f, g, q)
  PROVE  SameValues(n, f, g)
<1> SUFFICES ASSUME NEW i \in 1 .. n, f[i] # g[i] PROVE FALSE
  BY DEF SameValues
<1>0. \A a \in 1 .. n : f[a] \in Int /\ g[a] = f[q[a]]
  BY DEF BothSorted
<1>1. /\ q \in [1 .. n -> 1 .. n]
      /\ \A a, b \in 1 .. n : q[a] = q[b] => a = b
  BY DEF Permutes, BothSorted
<1>2. \A a \in 1 .. n : f[a] \in Int /\ g[a] \in Int
  BY <1>0, <1>1
<1>3. \A a, b \in 1 .. n : a <= b => f[a] <= f[b] /\ g[a] <= g[b]
  BY <1>2 DEF BothSorted
<1>4. ASSUME NEW S, NEW T, NEW c \in Nat, S \subseteq 1 .. n,
             IsFiniteSet(T) /\ Cardinality(T) = c,
             IsFiniteSet(S) /\ Cardinality(S) = c + 1,
             \A a \in S : q[a] \in T
      PROVE  FALSE
  <2> DEFINE h == [a \in S |-> q[a]]
  <2>1. h \in [S -> T]
    BY <1>4
  <2>2. \A a, b \in S : h[a] = h[b] => a = b
    BY <1>1, <1>4
  <2> HIDE DEF h
  <2>3. h \in Injection(S, T)
    BY <2>1, <2>2 DEF Injection, IsInjective
  <2>4. Cardinality(S) <= Cardinality(T)
    BY <1>4, <2>3, FS_Injection
  <2> QED
    BY <1>4, <2>4
<1>5. CASE f[i] < g[i]
  <2> DEFINE S == i .. n
             T == i + 1 .. n
             c == n - i
  <2>1. \A a \in S : q[a] \in T
    <3> SUFFICES ASSUME NEW a \in S, q[a] <= i PROVE FALSE
      BY <1>1
    <3>1. a \in 1 .. n /\ q[a] \in 1 .. n
      BY <1>1
    <3>2. f[q[a]] <= f[i] /\ g[i] <= g[a] /\ g[a] = f[q[a]]
      BY <1>0, <1>3, <3>1
    <3> QED
      BY <1>2, <1>5, <3>1, <3>2
  <2>2. c \in Nat /\ S \subseteq 1 .. n
    OBVIOUS
  <2>3. IsFiniteSet(T) /\ Cardinality(T) = c
    <3>1. i + 1 \in Int /\ n \in Int
      OBVIOUS
    <3>2. IsFiniteSet(T) /\ Cardinality(T) = IF i + 1 > n THEN 0 ELSE n - (i + 1) + 1
      BY <3>1, FS_Interval
    <3> QED
      BY <3>2
  <2>4. IsFiniteSet(S) /\ Cardinality(S) = c + 1
    <3>1. i \in Int /\ n \in Int
      OBVIOUS
    <3>2. IsFiniteSet(S) /\ Cardinality(S) = IF i > n THEN 0 ELSE n - i + 1
      BY <3>1, FS_Interval
    <3> QED
      BY <3>2
  <2> HIDE DEF S, T, c
  <2> QED
    BY <1>4, <2>1, <2>2, <2>3, <2>4
<1>6. CASE f[i] > g[i]
  <2> DEFINE S == 1 .. i
             T == 1 .. i - 1
             c == i - 1
  <2>1. \A a \in S : q[a] \in T
    <3> SUFFICES ASSUME NEW a \in S, q[a] >= i PROVE FALSE
      BY <1>1
    <3>1. a \in 1 .. n /\ q[a] \in 1 .. n
      BY <1>1
    <3>2. f[i] <= f[q[a]] /\ g[a] <= g[i] /\ g[a] = f[q[a]]
      BY <1>0, <1>3, <3>1
    <3> QED
      BY <1>2, <1>6, <3>1, <3>2
  <2>2. c \in Nat /\ S \subseteq 1 .. n
    OBVIOUS
  <2>3. IsFiniteSet(T) /\ Cardinality(T) = c
    <3>1. 1 \in Int /\ i - 1 \in Int
      OBVIOUS
    <3>2. IsFiniteSet(T) /\ Cardinality(T) = IF 1 > i - 1 THEN 0 ELSE i - 1 - 1 + 1
      BY <3>1, FS_Interval
    <3> QED
      BY <3>2
  <2>4. IsFiniteSet(S) /\ Cardinality(S) = c + 1
    <3>1. 1 \in Int /\ i \in Int
      OBVIOUS
    <3>2. IsFiniteSet(S) /\ Cardinality(S) = IF 1 > i THEN 0 ELSE i - 1 + 1
      BY <3>1, FS_Interval
    <3> QED
      BY <3>2
  <2> HIDE DEF S, T, c
  <2> QED
    BY <1>4, <2>1, <2>2, <2>3, <2>4
<1> QED
  BY <1>2, <1>5, <1>6

(* u is w in another order. *)
Reordered(u, w, order) == \A i \in 1 .. Len(w) : u[i] = w[order[i]]

SameOrder(u, w) == \A i \in 1 .. Len(w) : u[Ascending(u)[i]] = w[Ascending(w)[i]]

(* The workloads in ascending order do not depend on the order of the rows. *)
LEMMA AscendingSame ==
  ASSUME NEW w, IsWork(w), NEW u, IsWork(u), Len(u) = Len(w), NEW order,
         Permutes(order, Len(w)), Reordered(u, w, order)
  PROVE  SameOrder(u, w)
<1> DEFINE n == Len(w)
           A == Ascending(w)
           B == Ascending(u)
           f == [i \in 1 .. n |-> w[A[i]]]
           g == [i \in 1 .. n |-> u[B[i]]]
<1>1. n \in Nat
  BY DEF IsWork
<1>2. /\ A \in [1 .. n -> 1 .. n]
      /\ \A i, j \in 1 .. n : A[i] = A[j] => i = j
      /\ \A x \in 1 .. n : \E i \in 1 .. n : A[i] = x
      /\ \A i, j \in 1 .. n : i < j => w[A[i]] <= w[A[j]]
  BY AscendingFacts DEF Permutes
<1>3. /\ B \in [1 .. n -> 1 .. n]
      /\ \A i, j \in 1 .. n : B[i] = B[j] => i = j
      /\ \A x \in 1 .. n : \E i \in 1 .. n : B[i] = x
      /\ \A i, j \in 1 .. n : i < j => u[B[i]] <= u[B[j]]
  BY AscendingFacts DEF Permutes
<1>4. /\ order \in [1 .. n -> 1 .. n]
      /\ \A i, j \in 1 .. n : order[i] = order[j] => i = j
      /\ \A x \in 1 .. n : \E i \in 1 .. n : order[i] = x
  BY DEF Permutes
<1>5. \A i \in 1 .. n : w[i] \in Int
  BY DEF IsWork
<1> HIDE DEF A, B, n
<1> DEFINE q == [i \in 1 .. n |-> CHOOSE j \in 1 .. n : A[j] = order[B[i]]]
<1>6. \A i \in 1 .. n : q[i] \in 1 .. n /\ A[q[i]] = order[B[i]]
  <2> SUFFICES ASSUME NEW i \in 1 .. n PROVE \E j \in 1 .. n : A[j] = order[B[i]]
    OBVIOUS
  <2>1. order[B[i]] \in 1 .. n
    BY <1>3, <1>4
  <2> QED
    BY <1>2, <2>1
<1>7. q \in [1 .. n -> 1 .. n]
  BY <1>6
<1>8. q = [i \in 1 .. n |-> q[i]]
  OBVIOUS
<1> HIDE DEF q
<1>9. ASSUME NEW i \in 1 .. n, NEW j \in 1 .. n, q[i] = q[j] PROVE i = j
  <2>1. order[B[i]] = order[B[j]] /\ B[i] \in 1 .. n /\ B[j] \in 1 .. n
    BY <1>3, <1>6, <1>9
  <2>2. B[i] = B[j]
    BY <1>4, <2>1
  <2> QED
    BY <1>3, <2>2
<1>10. ASSUME NEW x \in 1 .. n PROVE \E i \in 1 .. n : q[i] = x
  <2>1. A[x] \in 1 .. n
    BY <1>2
  <2>2. PICK y \in 1 .. n : order[y] = A[x]
    BY <1>4, <2>1
  <2>3. PICK i \in 1 .. n : B[i] = y
    BY <1>3
  <2>4. A[q[i]] = A[x] /\ q[i] \in 1 .. n
    BY <1>6, <2>2, <2>3
  <2>5. q[i] = x
    BY <1>2, <2>4
  <2> QED
    BY <2>5
<1>11. Permutes(q, n)
  BY <1>7, <1>9, <1>10 DEF Permutes
<1>12. \A i \in 1 .. n : f[i] \in Int /\ g[i] = f[q[i]]
  <2> SUFFICES ASSUME NEW i \in 1 .. n PROVE f[i] \in Int /\ g[i] = f[q[i]]
    OBVIOUS
  <2>1. f[i] = w[A[i]] /\ A[i] \in 1 .. n
    BY <1>2
  <2>2. g[i] = u[B[i]] /\ B[i] \in 1 .. n /\ u[B[i]] = w[order[B[i]]]
    BY <1>3 DEF n, Reordered
  <2>3. f[q[i]] = w[A[q[i]]]
    BY <1>6
  <2> QED
    BY <1>5, <1>6, <2>1, <2>2, <2>3
<1>13. \A i, j \in 1 .. n : i < j => f[i] <= f[j] /\ g[i] <= g[j]
  BY <1>2, <1>3
<1>14. \A i \in 1 .. n : f[i] = w[A[i]] /\ g[i] = u[B[i]]
  OBVIOUS
<1> HIDE DEF f, g
<1>15. BothSorted(n, f, g, q)
  BY <1>11, <1>12, <1>13 DEF BothSorted
<1>16. \A i \in 1 .. n : f[i] = g[i]
  BY <1>1, <1>15, SameSorted DEF SameValues
<1> QED
  BY <1>14, <1>16 DEF n, A, B, SameOrder

-----------------------------------------------------------------------------
(***************************************************************************)
(* A call on a worker group.                                               *)
(***************************************************************************)

(* Shares.                                                                 *)

(* The ranks of a worker group, SP at a time. *)
LEMMA RankFacts ==
  /\ World \in Nat \ {0} /\ SP \in Nat \ {0} /\ DpSize \in Nat \ {0}
  /\ World = SP * DpSize
  /\ \A r \in Rank : /\ DpRank(r) \in 0 .. DpSize - 1 /\ SpRank(r) \in 0 .. SP - 1
                     /\ r = SP * DpRank(r) + SpRank(r) /\ r \in Nat
  /\ \A r \in Rank : SpGroup(r) = {q \in Rank : DpRank(q) = DpRank(r)}
<1> DEFINE d == World \div SP
<1>1. World \in Nat \ {0} /\ SP \in Nat \ {0} /\ World % SP = 0
  BY DispatchAssumption
<1>2. d \in Nat /\ World = SP * d
  BY <1>1, DivBounds, Divides
<1> HIDE DEF d
<1>3. d # 0
  BY <1>1, <1>2
<1>4. ASSUME NEW r \in Rank
      PROVE  /\ r \div SP \in 0 .. d - 1 /\ r % SP \in 0 .. SP - 1
             /\ r = SP * (r \div SP) + (r % SP) /\ r \in Nat
  <2>1. r \in Nat /\ r < World
    BY <1>1 DEF Rank
  <2> DEFINE q == r \div SP
             e == r % SP
  <2>2. q \in Nat /\ e \in 0 .. SP - 1 /\ r = SP * q + e
    BY <1>1, <2>1
  <2> HIDE DEF q, e
  <2>3. ~(d <= q)
    <3> SUFFICES ASSUME d <= q PROVE FALSE
      OBVIOUS
    <3>1. SP * d <= SP * q
      BY <1>1, <1>2, <2>2
    <3> DEFINE a == SP * d
               b == SP * q
    <3>2. a <= b /\ r = b + e /\ World = a /\ a \in Nat /\ b \in Nat
      BY <1>1, <1>2, <2>2, <3>1
    <3> HIDE DEF a, b
    <3> QED
      BY <2>1, <2>2, <3>2
  <2>4. q \in 0 .. d - 1
    BY <1>2, <2>2, <2>3
  <2> QED
    BY <2>1, <2>2, <2>4 DEF q, e
<1> QED
  BY <1>1, <1>2, <1>3, <1>4 DEF DpSize, DpRank, SpRank, SpGroup, d

(* t is n rows of s from number c * n + 1. *)
IsShare(t, s, c, n) ==
  /\ Len(t) = n /\ DOMAIN t = 1 .. n
  /\ \A i \in 1 .. n : c * n + i \in 1 .. Len(s) /\ t[i] = s[c * n + i]

(* Equal shares, one after another. *)
LEMMA ShareFacts ==
  ASSUME NEW S, NEW s \in Seq(S), NEW chunks \in Nat \ {0}, Len(s) % chunks = 0,
         NEW c \in 0 .. chunks - 1, NEW n, n = Len(s) \div chunks
  PROVE  /\ n \in Nat /\ Len(s) = chunks * n
         /\ Share(s, chunks, c) \in Seq(S) /\ IsShare(Share(s, chunks, c), s, c, n)
<1> DEFINE L == Len(s)
           first == c * n
<1>1. L \in Nat
  OBVIOUS
<1>2. n \in Nat /\ L = chunks * n
  <2> HIDE DEF L
  <2> QED
    BY <1>1, DivBounds, Divides DEF L
<1>3. Share(s, chunks, c) = SubSeq(s, first + 1, (c + 1) * n)
  BY DEF Share
<1>4. (c + 1) * n = first + n /\ first \in Nat
  BY <1>2
<1>5. first + n <= L
  <2>1. c \in Nat /\ chunks \in Nat /\ c < chunks
    OBVIOUS
  <2>2. c * n + n <= chunks * n
    BY <1>2, <2>1, MulMono
  <2> QED
    BY <1>2, <2>2
<1> HIDE DEF first, L
<1>6. first + 1 \in 1 .. L + 1 /\ first + n \in (first + 1) - 1 .. L
  BY <1>1, <1>2, <1>4, <1>5
<1>7. /\ SubSeq(s, first + 1, first + n) \in Seq(S)
      /\ Len(SubSeq(s, first + 1, first + n)) = (first + n) - (first + 1) + 1
      /\ \A k \in 1 .. (first + n) - (first + 1) + 1 :
           SubSeq(s, first + 1, first + n)[k] = s[(first + 1) + k - 1]
  <2> DEFINE lo == first + 1
             hi == first + n
  <2>1. lo \in 1 .. Len(s) + 1 /\ hi \in lo - 1 .. Len(s)
    BY <1>6 DEF L
  <2> HIDE DEF lo, hi
  <2>2. /\ SubSeq(s, lo, hi) \in Seq(S)
        /\ Len(SubSeq(s, lo, hi)) = hi - lo + 1
        /\ \A k \in 1 .. hi - lo + 1 : SubSeq(s, lo, hi)[k] = s[lo + k - 1]
    BY <2>1, SubSeqFacts
  <2> QED
    BY <2>2 DEF lo, hi
<1> DEFINE t == Share(s, chunks, c)
<1>8. t = SubSeq(s, first + 1, first + n)
  BY <1>3, <1>4
<1> HIDE DEF t
<1>9. t \in Seq(S) /\ Len(t) = n
  BY <1>2, <1>4, <1>7, <1>8
<1>10. ASSUME NEW i \in 1 .. n PROVE first + i \in 1 .. L /\ t[i] = s[first + i]
  <2>1. first + i \in 1 .. L
    BY <1>1, <1>2, <1>4, <1>5
  <2>2. i \in 1 .. (first + n) - (first + 1) + 1 /\ (first + 1) + i - 1 = first + i
    BY <1>2, <1>4
  <2> QED
    BY <1>7, <1>8, <2>1, <2>2
<1>11. DOMAIN t = 1 .. n
  BY <1>9
<1> QED
  BY <1>2, <1>9, <1>10, <1>11 DEF t, first, L, IsShare

(* s has the elements of the parts ss, one part after another. *)
Fills(s, ss) ==
  /\ Len(s) = Before(PartLengths(ss), Len(ss) + 1)
  /\ \A g \in 1 .. Len(ss) : \A i \in 1 .. Len(ss[g]) :
       s[Before(PartLengths(ss), g) + i] = ss[g][i]

(* A sequence that has the elements of each part in its place is what
   FlattenSeq makes of the parts. *)
LEMMA FlattenIs ==
  ASSUME NEW S, NEW ss \in Seq(Seq(S)), NEW s \in Seq(S), Fills(s, ss)
  PROVE  FlattenSeq(ss) = s
<1> DEFINE flat == FlattenSeq(ss)
           v == PartLengths(ss)
           n == Len(ss)
<1>1. /\ flat \in Seq(S) /\ Len(flat) = Before(v, n + 1)
      /\ \A g \in 1 .. n : \A i \in 1 .. Len(ss[g]) : flat[Before(v, g) + i] = ss[g][i]
  BY Flatten
<1>2. n \in Nat /\ Len(v) = n /\ \A g \in 1 .. n : v[g] = Len(ss[g]) /\ v[g] \in Nat
  <2> DEFINE R == Seq(S)
  <2>1. ss \in Seq(R)
    OBVIOUS
  <2> HIDE DEF R
  <2>2. n \in Nat /\ \A g \in 1 .. n : ss[g] \in R
    BY <2>1, InSeq
  <2>3. \A g \in 1 .. n : Len(ss[g]) \in Nat
    BY <2>2 DEF R
  <2> QED
    BY <2>2, <2>3 DEF PartLengths
<1>3. /\ Len(s) = Before(v, n + 1)
      /\ \A g \in 1 .. n : \A i \in 1 .. Len(ss[g]) : s[Before(v, g) + i] = ss[g][i]
  BY DEF Fills
<1> HIDE DEF v, n, flat
<1>4. ASSUME NEW t \in 1 .. Len(flat) PROVE flat[t] = s[t]
  <2>1. t \in 1 .. Before(v, Len(v) + 1)
    BY <1>1, <1>2
  <2>2. PICK g \in 1 .. n : \E i \in 1 .. v[g] : t = Before(v, g) + i
    BY <1>2, <2>1, PartOf
  <2>3. PICK i \in 1 .. v[g] : t = Before(v, g) + i
    BY <2>2
  <2>4. i \in 1 .. Len(ss[g])
    BY <1>2
  <2> QED
    BY <1>1, <1>3, <2>3, <2>4
<1>5. Len(flat) = Len(s)
  BY <1>1, <1>3
<1>6. flat = s
  BY <1>1, <1>4, <1>5, SameSeq
<1> QED
  BY <1>6 DEF flat

(* Multiples of a number are divided by it. *)
LEMMA Multiple ==
  ASSUME NEW b \in Nat \ {0}, NEW q \in Nat
  PROVE  (b * q) % b = 0 /\ (b * q) \div b = q
<1> DEFINE a == b * q
<1>1. a \in Nat /\ b * q <= a /\ a < b * q + b
  OBVIOUS
<1> HIDE DEF a
<1>2. a \div b = q
  BY <1>1, DivUnique
<1>3. a % b = a - b * (a \div b)
  BY <1>1
<1> QED
  BY <1>1, <1>2, <1>3 DEF a

(* The padding makes the ranks' shares equal. *)
LEMMA PadFacts ==
  ASSUME NEW n \in Nat
  PROVE  PadSize(n, World) \in Nat /\ (n + PadSize(n, World)) % World = 0
<1>1. World \in Nat \ {0}
  BY DispatchAssumption
<1> DEFINE q == n \div World
           e == n % World
<1>2. q \in Nat /\ e \in 0 .. World - 1 /\ n = World * q + e
  BY <1>1
<1>3. PadSize(n, World) = IF e > 0 THEN World - e ELSE 0
  BY DEF PadSize
<1> HIDE DEF q, e
<1>4. PadSize(n, World) \in Nat
  BY <1>1, <1>2, <1>3
<1>5. CASE e > 0
  <2>1. n + PadSize(n, World) = World * (q + 1)
    BY <1>1, <1>2, <1>3, <1>5
  <2>2. q + 1 \in Nat
    BY <1>2
  <2>3. (World * (q + 1)) % World = 0
    BY <1>1, <2>2, Multiple
  <2> QED
    BY <1>4, <2>1, <2>3
<1>6. CASE ~(e > 0)
  <2>1. n + PadSize(n, World) = World * q
    BY <1>1, <1>2, <1>3, <1>6
  <2>2. (World * q) % World = 0
    BY <1>1, <1>2, Multiple
  <2> QED
    BY <1>4, <2>1, <2>2
<1> QED
  BY <1>5, <1>6

(* What World divides, DpSize divides. *)
LEMMA DpDivides ==
  ASSUME NEW n \in Nat, n % World = 0
  PROVE  /\ n % DpSize = 0 /\ n \div World \in Nat
         /\ n = World * (n \div World) /\ n \div DpSize = SP * (n \div World)
<1> DEFINE c == n \div World
<1>1. /\ World \in Nat \ {0} /\ SP \in Nat \ {0} /\ DpSize \in Nat \ {0}
      /\ World = SP * DpSize
  BY RankFacts
<1>2. c \in Nat /\ n = World * c
  BY <1>1, DivBounds, Divides
<1> HIDE DEF c
<1> DEFINE m == SP * c
           D == DpSize
<1>3. n = D * m
  <2> DEFINE a == SP * DpSize
  <2>1. a * c = DpSize * (SP * c)
    BY <1>1, <1>2
  <2> QED
    BY <1>1, <1>2, <2>1
<1>4. m \in Nat
  BY <1>1, <1>2
<1> HIDE DEF m, D
<1>5. D \in Nat \ {0}
  BY <1>1 DEF D
<1>6. (D * m) % D = 0 /\ (D * m) \div D = m
  BY <1>4, <1>5, Multiple
<1>7. n % D = 0 /\ n \div D = m
  BY <1>3, <1>6
<1> QED
  BY <1>2, <1>7 DEF c, D, m

(* A batch followed by copies of its rows. *)
LEMMA PaddedFacts ==
  ASSUME NEW S, NEW s \in Seq(S), NEW n \in Nat, NEW more, more \in [1 .. n -> S]
  PROVE  /\ s \o more \in Seq(S) /\ Len(s \o more) = Len(s) + n
         /\ \A i \in 1 .. Len(s) : (s \o more)[i] = s[i]
         /\ \A i \in 1 .. n : (s \o more)[Len(s) + i] = more[i]
<1>1. more \in Seq(S) /\ Len(more) = n
  OBVIOUS
<1> QED
  BY <1>1, Concatenation

-----------------------------------------------------------------------------
(* data.split: pieces of MicroBatchSize rows, in order.                    *)

(* The rows before piece g + 1. *)
PieceStart(n, k, g) == IF g = k THEN n ELSE g * MicroBatchSize

(* Each piece begins where the one before it ends, and the last one ends with
   the rows. *)
LEMMA FixedPlanFacts ==
  ASSUME NEW n \in Nat \ {0}
  PROVE  LET k == CeilDiv(n, MicroBatchSize)
         IN  /\ k \in Nat \ {0} /\ Len(FixedPlan(n)) = k
             /\ \A g \in 1 .. k :
                  \E l \in Nat \ {0} :
                    /\ FixedPlan(n)[g] = [i \in 1 .. l |-> (g - 1) * MicroBatchSize + i]
                    /\ PieceStart(n, k, g) = PieceStart(n, k, g - 1) + l
             /\ FixedPlan(n) = [g \in 1 .. k |-> FixedPlan(n)[g]]
             /\ PieceStart(n, k, 0) = 0 /\ \A g \in 0 .. k : PieceStart(n, k, g) \in 0 .. n
             /\ \A g \in 1 .. k : PieceStart(n, k, g - 1) = (g - 1) * MicroBatchSize
<1> DEFINE M == MicroBatchSize
           k == CeilDiv(n, M)
           plan1 == FixedPlan(n)
           L(g) == Min({M, n - (g - 1) * M})
<1>1. M \in Nat \ {0} /\ n \in Nat
  BY DispatchAssumption
<1>2. k \in Int /\ \A x \in Int : x < k <=> x * M < n
  <2> HIDE DEF M
  <2>1. \A x \in Int : (n + M - 1) \div M \in Int /\ (x < (n + M - 1) \div M <=> x * M < n)
    BY <1>1, CeilLess
  <2> QED
    BY <2>1 DEF CeilDiv
<1>3. k \in Nat \ {0}
  <2>1. 0 < k
    BY <1>1, <1>2
  <2> QED
    BY <1>2, <2>1
<1>4. plan1 = [g \in 1 .. k |-> [i \in 1 .. L(g) |-> (g - 1) * M + i]]
  BY DEF FixedPlan
<1> HIDE DEF k, M, plan1
<1>5. Len(plan1) = k /\ plan1 = [g \in 1 .. k |-> plan1[g]]
  <2> HIDE DEF L
  <2> QED
    BY <1>3, <1>4
<1>6. ASSUME NEW g \in 1 .. k
      PROVE  L(g) \in Nat \ {0} /\ PieceStart(n, k, g) = PieceStart(n, k, g - 1) + L(g)
  <2> DEFINE first == (g - 1) * M
  <2>1. g - 1 \in Int /\ g - 1 < k /\ g \in Int
    BY <1>3
  <2>2. first < n /\ first \in Nat
    <3>1. first < n
      BY <1>2, <2>1
    <3>2. g - 1 \in Nat
      OBVIOUS
    <3> QED
      BY <1>1, <3>1, <3>2
  <2>3. g * M = first + M
    BY <1>1, <2>1
  <2> HIDE DEF first
  <2>4. M \in Nat /\ n - first \in Nat
    BY <1>1, <2>2
  <2>5. Min({M, n - first}) = IF M <= n - first THEN M ELSE n - first
    BY <2>4, MinOfTwo
  <2>6. L(g) = IF M <= n - first THEN M ELSE n - first
    BY <2>5 DEF first
  <2> HIDE DEF L
  <2>7. g < k <=> first + M < n
    BY <1>2, <2>1, <2>3
  <2>8. PieceStart(n, k, g - 1) = first
    BY <1>3, <2>1 DEF PieceStart, first, M
  <2>9. PieceStart(n, k, g) = IF g = k THEN n ELSE first + M
    BY <2>3 DEF PieceStart, M
  <2>10. g = k <=> ~(first + M < n)
    BY <1>3, <2>1, <2>7
  <2>11. L(g) \in Nat \ {0}
    BY <1>1, <2>2, <2>4, <2>6
  <2>12. first + L(g) = IF g = k THEN n ELSE first + M
    BY <1>1, <2>2, <2>6, <2>10
  <2> QED
    BY <2>8, <2>9, <2>11, <2>12
<1>7. ASSUME NEW g \in 1 .. k
      PROVE  \E l \in Nat \ {0} :
               /\ plan1[g] = [i \in 1 .. l |-> (g - 1) * M + i]
               /\ PieceStart(n, k, g) = PieceStart(n, k, g - 1) + l
  <2> DEFINE l == L(g)
  <2>1. l \in Nat \ {0} /\ PieceStart(n, k, g) = PieceStart(n, k, g - 1) + l
    BY <1>6
  <2>2. plan1[g] = [i \in 1 .. l |-> (g - 1) * M + i]
    BY <1>4
  <2> HIDE DEF l, L
  <2> QED
    BY <2>1, <2>2
<1>8. ASSUME NEW g \in 0 .. k PROVE PieceStart(n, k, g) \in 0 .. n
  <2>1. CASE g = k
    BY <1>1, <2>1 DEF PieceStart
  <2>2. CASE g # k
    <3> DEFINE x == g * M
    <3>1. g \in Int /\ g < k /\ g \in Nat
      BY <1>3, <2>2
    <3>2. x < n /\ x \in Nat
      BY <1>1, <1>2, <3>1
    <3>3. PieceStart(n, k, g) = x
      BY <2>2 DEF PieceStart, M
    <3> HIDE DEF x
    <3> QED
      BY <1>1, <3>2, <3>3
  <2> QED
    BY <2>1, <2>2
<1>9. PieceStart(n, k, 0) = 0
  BY <1>1, <1>3 DEF PieceStart, M
<1>10. ASSUME NEW g \in 1 .. k PROVE PieceStart(n, k, g - 1) = (g - 1) * M
  <2>1. g - 1 # k
    BY <1>3
  <2> QED
    BY <2>1 DEF PieceStart, M
<1> QED
  BY <1>3, <1>5, <1>7, <1>8, <1>9, <1>10 DEF k, plan1, M

(* A plan of n rows: in the order of the micro-batches each of them is there
   once, and in their own order unless the micro-batches are dynamic. *)
IsPlan(n, dynamic, micro) ==
  /\ micro \in Seq(Seq(1 .. n)) /\ Len(micro) >= 1
  /\ Len(FlattenSeq(micro)) = n /\ Permutes(FlattenSeq(micro), n)
  /\ ~dynamic => FlattenSeq(micro) = [t \in 1 .. n |-> t]

(* The pieces of data.split are all the rows in order. *)
LEMMA FixedPlanIs ==
  ASSUME NEW n \in Nat \ {0}, NEW dynamic
  PROVE  IsPlan(n, dynamic, FixedPlan(n))
<1> DEFINE k == CeilDiv(n, MicroBatchSize)
           micro == FixedPlan(n)
           all == [t \in 1 .. n |-> t]
           v == PartLengths(micro)
           at0(g) == PieceStart(n, k, g)
<1>1. /\ k \in Nat \ {0} /\ Len(micro) = k /\ micro = [g \in 1 .. k |-> micro[g]]
      /\ \A g \in 1 .. k : \E l \in Nat \ {0} :
           /\ micro[g] = [i \in 1 .. l |-> (g - 1) * MicroBatchSize + i]
           /\ at0(g) = at0(g - 1) + l
      /\ at0(0) = 0 /\ \A g \in 0 .. k : at0(g) \in 0 .. n
      /\ \A g \in 1 .. k : at0(g - 1) = (g - 1) * MicroBatchSize
  BY FixedPlanFacts
<1>2. at0(k) = n
  BY DEF PieceStart
<1> HIDE DEF k, micro, at0
<1>3. ASSUME NEW g \in 1 .. k
      PROVE  /\ micro[g] \in Seq(1 .. n) /\ Len(micro[g]) \in Nat
             /\ at0(g) = at0(g - 1) + Len(micro[g])
             /\ \A i \in 1 .. Len(micro[g]) : micro[g][i] = at0(g - 1) + i
                                              /\ at0(g - 1) + i \in 1 .. n
  <2> DEFINE first == at0(g - 1)
  <2>1. PICK l \in Nat \ {0} : /\ micro[g] = [i \in 1 .. l |-> first + i]
                               /\ at0(g) = first + l
    BY <1>1
  <2>2. first \in 0 .. n /\ at0(g) \in 0 .. n
    <3>1. g - 1 \in 0 .. k /\ g \in 0 .. k
      BY <1>1
    <3> QED
      BY <1>1, <3>1
  <2> HIDE DEF first
  <2>3. \A i \in 1 .. l : first + i \in 1 .. n
    BY <2>1, <2>2
  <2> DEFINE s == micro[g]
  <2>4. s \in [1 .. l -> 1 .. n] /\ s = [i \in 1 .. l |-> first + i]
    BY <2>1, <2>3
  <2> HIDE DEF s
  <2>5. s \in Seq(1 .. n) /\ Len(s) = l /\ \A i \in 1 .. l : s[i] = first + i
    BY <2>4
  <2> QED
    BY <2>1, <2>3, <2>5 DEF s, first
<1>4. micro \in Seq(Seq(1 .. n))
  <2> DEFINE R == Seq(1 .. n)
  <2>1. \A g \in 1 .. k : micro[g] \in R
    BY <1>3
  <2> HIDE DEF R
  <2>2. micro \in [1 .. k -> R]
    BY <1>1, <2>1
  <2>3. micro \in Seq(R)
    BY <1>1, <2>2
  <2> QED
    BY <2>3 DEF R
<1>5. Len(v) = k /\ \A g \in 1 .. k : v[g] = Len(micro[g]) /\ v[g] \in Nat
  BY <1>1, <1>3 DEF PartLengths
<1> HIDE DEF v
<1> DEFINE G == {g \in 0 .. k : Before(v, g + 1) = at0(g)}
<1>6. Before(v, 1) = 0 /\ \A g \in 1 .. k : Before(v, g + 1) = Before(v, g) + v[g]
  <2>1. Len(v) \in Nat /\ \A g \in 1 .. Len(v) : v[g] \in Nat
    BY <1>1, <1>5
  <2> QED
    BY <1>5, <2>1, BeforeDef
<1>7. 0 \in G
  BY <1>1, <1>6
<1>8. ASSUME NEW g \in 0 .. k - 1, g \in G PROVE g + 1 \in G
  <2>1. g + 1 \in 1 .. k /\ (g + 1) - 1 = g
    BY <1>1
  <2>2. Before(v, (g + 1) + 1) = Before(v, g + 1) + v[g + 1]
    BY <1>6, <2>1
  <2>3. at0(g + 1) = at0(g) + v[g + 1]
    BY <1>3, <1>5, <2>1
  <2> QED
    BY <1>8, <2>1, <2>2, <2>3
<1> HIDE DEF G
<1>9. 0 .. k \subseteq G
  <2>1. k \in Nat
    BY <1>1
  <2> QED
    BY <1>7, <1>8, <2>1, Induction
<1>10. \A g \in 0 .. k : Before(v, g + 1) = at0(g)
  BY <1>9 DEF G
<1>11. ASSUME NEW g \in 1 .. k, NEW i \in 1 .. Len(micro[g])
       PROVE  all[Before(v, g) + i] = micro[g][i]
  <2>1. g - 1 \in 0 .. k /\ (g - 1) + 1 = g
    BY <1>1
  <2>2. Before(v, g) = at0(g - 1)
    BY <1>10, <2>1
  <2>3. at0(g - 1) + i \in 1 .. n
    BY <1>3
  <2> QED
    BY <1>3, <2>2, <2>3
<1>12. all \in Seq(1 .. n) /\ Len(all) = n
  OBVIOUS
<1>13. Before(v, k + 1) = n
  <2>1. k \in 0 .. k
    BY <1>1
  <2> QED
    BY <1>2, <1>10, <2>1
<1>14. Permutes(all, n)
  BY DEF Permutes
<1>15. \A t \in 1 .. n : all[t] = t
  OBVIOUS
<1> HIDE DEF all
<1>16. Fills(all, micro)
  BY <1>1, <1>11, <1>12, <1>13 DEF Fills, v
<1>17. FlattenSeq(micro) = all
  <2> DEFINE R == 1 .. n
  <2>1. micro \in Seq(Seq(R)) /\ all \in Seq(R)
    BY <1>4, <1>12
  <2> HIDE DEF R
  <2> QED
    BY <1>16, <2>1, FlattenIs
<1>18. Len(micro) >= 1
  BY <1>1
<1> QED
  BY <1>4, <1>12, <1>14, <1>17, <1>18 DEF IsPlan, micro, all

(* rearrange_micro_batches. *)
LEMMA DynamicPlanIs ==
  ASSUME NEW w, IsWork(w), NEW num \in 1 .. Len(w)
  PROVE  IsPlan(Len(w), TRUE, MicroBatches(w, num))
<1> DEFINE n == Len(w)
           micro == MicroBatches(w, num)
<1>1. n \in Nat /\ num \in Nat /\ num >= 1
  BY DEF IsWork
<1>2. IsPartition(n, num, micro)
  BY MicroBatchesFacts
<1> HIDE DEF n, micro
<1>3. micro \in Seq(Seq(1 .. n)) /\ Len(FlattenSeq(micro)) = n /\ Permutes(FlattenSeq(micro), n)
  BY <1>1, <1>2, FlattenedPartition
<1>4. Len(micro) >= 1
  BY <1>1, <1>2 DEF IsPartition
<1> QED
  BY <1>3, <1>4 DEF IsPlan, n, micro
-----------------------------------------------------------------------------
(* Rows and their lengths.                                                 *)

AnyRow == [id : Nat, len : Lengths]

(* Rows are not empty. *)
LEMMA RowType ==
  ASSUME NEW r \in AnyRow
  PROVE  r.id \in Nat /\ r.len \in Nat /\ r.len >= 1
<1>1. r.id \in Nat /\ r.len \in Lengths
  BY DEF AnyRow
<1>2. Lengths \subseteq 1 .. MaxTokenLen /\ MaxTokenLen \in Nat
  BY DispatchAssumption
<1>3. r.len \in 1 .. MaxTokenLen
  BY <1>1, <1>2
<1> QED
  BY <1>1, <1>2, <1>3

(* Neither is the work they take. *)
LEMMA WorkOfRows ==
  ASSUME NEW s \in Seq(AnyRow)
  PROVE  IsWork(Workloads(s)) /\ Len(Workloads(s)) = Len(s)
<1>1. Len(s) \in Nat /\ DOMAIN s = 1 .. Len(s) /\ \A i \in 1 .. Len(s) : s[i] \in AnyRow
  BY InSeq
<1>2. \A l \in Nat : l >= 1 => Workload(l) \in Nat \ {0}
  BY DEF Workload
<1>3. ASSUME NEW i \in 1 .. Len(s) PROVE Workload(s[i].len) \in Nat \ {0}
  <2> DEFINE l == s[i].len
  <2>1. l \in Nat /\ l >= 1
    BY <1>1, RowType
  <2> HIDE DEF l
  <2>2. Workload(l) \in Nat \ {0}
    BY <1>2, <2>1
  <2> QED
    BY <2>2 DEF l
<1>4. Workloads(s) = [i \in 1 .. Len(s) |-> Workload(s[i].len)]
  BY <1>1 DEF Workloads
<1> QED
  BY <1>1, <1>3, <1>4 DEF IsWork

(* A rank never wants more micro-batches than it has rows, or none. *)
LEMMA CountFacts ==
  ASSUME NEW s \in Seq(AnyRow), Len(s) >= 1
  PROVE  MicroBatchCount(Lens(s), MaxTokenLen) \in 1 .. Len(s)
<1> DEFINE ls == Lens(s)
           n == Len(s)
           total == SumOf(ls, n)
           want == CeilDiv(total, MaxTokenLen)
<1>1. n \in Nat /\ DOMAIN s = 1 .. n /\ \A i \in 1 .. n : s[i] \in AnyRow
  BY InSeq
<1>2. ls = [i \in 1 .. n |-> s[i].len]
  BY <1>1 DEF Lens
<1> HIDE DEF n
<1>3. Len(ls) = n /\ \A i \in 1 .. n : ls[i] \in Nat /\ ls[i] >= 1
  <2>1. \A i \in 1 .. n : s[i].len \in Nat /\ s[i].len >= 1
    BY <1>1, RowType
  <2> QED
    BY <1>1, <1>2, <2>1
<1> HIDE DEF ls
<1>4. n >= 1
  BY DEF n
<1>5. total \in Nat /\ total >= 1
  <2>1. total \in Nat /\ \A i \in 1 .. n : ls[i] <= total
    BY <1>1, <1>3, SumNat
  <2>2. ls[1] <= total /\ ls[1] >= 1 /\ ls[1] \in Nat
    BY <1>1, <1>3, <1>4, <2>1
  <2> QED
    BY <2>1, <2>2
<1> HIDE DEF total
<1>6. want \in Int /\ 0 < want
  <2>1. MaxTokenLen \in Nat \ {0}
    BY DispatchAssumption
  <2> DEFINE M == MaxTokenLen
  <2> HIDE DEF M
  <2>2. (total + M - 1) \div M \in Int /\ (0 < (total + M - 1) \div M <=> 0 * M < total)
    <3>1. total \in Int /\ M \in Nat \ {0} /\ 0 \in Int
      BY <1>5, <2>1 DEF M
    <3> QED
      BY <3>1, CeilLess
  <2>3. want = (total + M - 1) \div M
    BY DEF CeilDiv, M
  <2>4. 0 * M < total
    BY <1>5, <2>1 DEF M
  <2> QED
    BY <2>2, <2>3, <2>4
<1> HIDE DEF want
<1>7. want \in Nat /\ n \in Nat
  BY <1>1, <1>6
<1>8. Min({n, want}) = IF n <= want THEN n ELSE want
  BY <1>7, MinOfTwo
<1>9. MicroBatchCount(ls, MaxTokenLen) = Min({n, want})
  BY <1>3 DEF MicroBatchCount, total, want
<1> QED
  BY <1>4, <1>6, <1>7, <1>8, <1>9 DEF ls, n

(* The largest of some numbers is one of them. *)
LEMMA MaxIn ==
  ASSUME NEW m \in Nat, NEW T, T \subseteq 1 .. m, T # {}
  PROVE  Max(T) \in T
<1> DEFINE U == {m - x : x \in T}
<1>0. \A x \in T : x \in Nat /\ m - x \in Nat
  OBVIOUS
<1>1. U \subseteq Nat /\ U # {}
  BY <1>0
<1>2. PICK y \in U : \A z \in U : y <= z
  <2> HIDE DEF U
  <2> QED
    BY <1>1, LeastNumber
<1>3. PICK x \in T : y = m - x
  OBVIOUS
<1>4. ASSUME NEW z \in T PROVE x >= z
  <2>1. m - x <= m - z
    BY <1>2, <1>3
  <2> QED
    BY <1>0, <2>1
<1> QED
  BY <1>4 DEF Max

(* The ranks agree on a number of micro-batches that all of them have the rows
   for. *)
LEMMA AgreedFacts ==
  ASSUME NEW m \in Nat, \A q \in Rank : count[q] \in 1 .. m, NEW r \in Rank
  PROVE  Agreed(r) \in 1 .. m
<1> DEFINE T == {count[q] : q \in Rank}
<1>1. T \subseteq 1 .. m /\ count[r] \in T
  OBVIOUS
<1>2. Agreed(r) = Max(T)
  BY DEF Agreed
<1> HIDE DEF T
<1>3. Max(T) \in T
  BY <1>1, MaxIn
<1> QED
  BY <1>1, <1>2, <1>3
-----------------------------------------------------------------------------
(***************************************************************************)
(* The call.                                                               *)
(***************************************************************************)

(* The rows of the caller's batch without the padding, if it has any. *)
Own == Len(batch) - (IF call.mode = "dp" THEN call.pad ELSE 0)

(* No two of them are the same, and the padding has copies of the last one. *)
BatchOk ==
  /\ batch \in Seq(AnyRow) /\ Own \in 1 .. Len(batch)
  /\ \A i, j \in 1 .. Own : batch[i].id = batch[j].id => i = j
  /\ \A i \in Own + 1 .. Len(batch) : batch[i] = batch[Own]

(* What is divided among the ranks: the batch, padded in a copy or in place. *)
Source ==
  IF call.mode = "dp" THEN batch
  ELSE batch \o [i \in 1 .. call.pad |-> batch[((i - 1) % Len(batch)) + 1]]

SourceOk ==
  /\ call.pad \in Nat /\ call.dynamic \in BOOLEAN /\ call.mode \in {"nd", "dp"}
  /\ Len(Source) % DpSize = 0
  /\ call.mode = "dp" => Len(Source) % World = 0

(* The rows of a data-parallel rank. *)
Rows1 == Len(Source) \div DpSize
DpData(r) == Share(Source, DpSize, DpRank(r))

(* Before the call nothing is on the ranks. *)
Unused == \A r \in Rank : at[r] = "idle" /\ plan[r] = <<>> /\ values[r] = <<>>

(* A rank has its share of the rows, its own one until the group has gathered. *)
HasData(r) ==
  IF at[r] = "gather"
  THEN /\ call.mode = "dp" /\ data[r] = Share(Source, World, r)
       /\ \A q \in SpGroup(r) : at[q] = "gather"
  ELSE data[r] = DpData(r)

(* Its micro-batches. *)
HasPlan(r) ==
  /\ call.dynamic => /\ \A q \in Rank : at[q] = "run"
                     /\ count[r] \in 1 .. Rows1 /\ count[r] = count[0]
                     /\ plan[r] = MicroBatches(Workloads(DpData(r)), count[r])
  /\ ~call.dynamic => plan[r] = FixedPlan(Rows1)

(* What those it has run returned. *)
HasValues(r) ==
  /\ Len(values[r]) \in 0 .. Len(plan[r]) /\ Len(values[r]) = Len(values[0])
  /\ values[r] = [m \in 1 .. Len(values[r]) |->
                    [i \in 1 .. Len(plan[r][m]) |-> DpData(r)[plan[r][m][i]].id]]

RankOk(r) ==
  /\ at[r] \in {"gather", "split", "reduce", "run"}
  /\ HasData(r)
  /\ at[r] # "run" => plan[r] = <<>> /\ values[r] = <<>> /\ values[0] = <<>>
  /\ at[r] = "reduce" => call.dynamic /\ count[r] \in 1 .. Rows1
  /\ at[r] = "run" => HasPlan(r) /\ HasValues(r)

DispatchInv ==
  /\ status \in {"idle", "batch", "balanced", "sent", "returned"}
  /\ DOMAIN count = Rank /\ DOMAIN plan = Rank /\ DOMAIN at = Rank
  /\ status # "idle" => BatchOk
  /\ status \in {"idle", "batch", "balanced"} => Unused /\ call = NoCall
  /\ status \in {"sent", "returned"} => SourceOk /\ \A r \in Rank : RankOk(r)
  /\ RanksBalanced
  /\ RowsReturned

(* What is divided among the ranks begins with the rows of the caller. *)
LEMMA SourceFacts ==
  ASSUME BatchOk, SourceOk
  PROVE  /\ Source \in Seq(AnyRow) /\ Own \in Nat \ {0}
         /\ Len(Source) \in Nat /\ Len(Source) = Own + call.pad
         /\ \A i \in 1 .. Own : Source[i] = batch[i]
         /\ Rows1 \in Nat \ {0} /\ Len(Source) = DpSize * Rows1
<1>1. /\ batch \in Seq(AnyRow) /\ Own \in 1 .. Len(batch) /\ call.pad \in Nat
      /\ call.mode \in {"nd", "dp"} /\ Len(Source) % DpSize = 0
  BY DEF BatchOk, SourceOk
<1>2. Len(batch) \in Nat /\ \A i \in 1 .. Len(batch) : batch[i] \in AnyRow
  BY <1>1, InSeq
<1>3. /\ Source \in Seq(AnyRow) /\ Own \in Nat \ {0} /\ Len(Source) = Own + call.pad
      /\ \A i \in 1 .. Own : Source[i] = batch[i]
  <2>1. CASE call.mode = "dp"
    BY <1>1, <1>2, <2>1 DEF Source, Own
  <2>2. CASE call.mode # "dp"
    <3> DEFINE n == call.pad
               L == Len(batch)
               more == [i \in 1 .. n |-> batch[((i - 1) % L) + 1]]
    <3>1. Own = L /\ L \in Nat \ {0}
      BY <1>1, <1>2, <2>2 DEF Own
    <3>2. \A i \in 1 .. n : ((i - 1) % L) + 1 \in 1 .. L
      <4> HIDE DEF L, n
      <4> SUFFICES ASSUME NEW i \in 1 .. n PROVE ((i - 1) % L) + 1 \in 1 .. L
        OBVIOUS
      <4>1. n \in Nat
        BY <1>1 DEF n
      <4>2. i - 1 \in Nat
        BY <4>1
      <4> QED
        BY <3>1, <4>2
    <3>3. more \in [1 .. n -> AnyRow]
      BY <1>2, <3>2
    <3>4. Source = batch \o more
      BY <2>2 DEF Source
    <3> HIDE DEF more, n
    <3>5. n \in Nat
      BY <1>1 DEF n
    <3>6. /\ batch \o more \in Seq(AnyRow) /\ Len(batch \o more) = L + n
          /\ \A i \in 1 .. L : (batch \o more)[i] = batch[i]
      BY <1>1, <3>3, <3>5, PaddedFacts
    <3> QED
      BY <3>1, <3>4, <3>6 DEF n
  <2> QED
    BY <2>1, <2>2
<1> DEFINE N == Len(Source)
           D == DpSize
<1>4. N \in Nat /\ N >= 1 /\ D \in Nat \ {0} /\ N % D = 0
  BY <1>1, <1>3, RankFacts
<1>5. Rows1 = N \div D
  BY DEF Rows1
<1> HIDE DEF N, D
<1>6. Rows1 \in Nat /\ N = D * Rows1
  BY <1>4, <1>5, DivBounds, Divides
<1>7. Rows1 # 0
  BY <1>4, <1>6
<1> QED
  BY <1>3, <1>4, <1>6, <1>7 DEF N, D

(* The share of a data-parallel rank. *)
LEMMA DataFacts ==
  ASSUME BatchOk, SourceOk, NEW r \in Rank
  PROVE  /\ DpData(r) \in Seq(AnyRow) /\ Len(DpData(r)) = Rows1
         /\ \A i \in 1 .. Rows1 : /\ DpData(r)[i] \in AnyRow
                                  /\ DpRank(r) * Rows1 + i \in 1 .. Len(Source)
                                  /\ DpData(r)[i] = Source[DpRank(r) * Rows1 + i]
<1> DEFINE c == DpRank(r)
<1>1. /\ Source \in Seq(AnyRow) /\ DpSize \in Nat \ {0} /\ c \in 0 .. DpSize - 1
      /\ Len(Source) % DpSize = 0
  BY SourceFacts, RankFacts DEF SourceOk
<1> HIDE DEF c
<1> DEFINE D == DpSize
           n == Len(Source) \div DpSize
<1>2. /\ Share(Source, DpSize, c) \in Seq(AnyRow) /\ Len(Share(Source, DpSize, c)) = n
      /\ \A i \in 1 .. n : /\ c * n + i \in 1 .. Len(Source)
                           /\ Share(Source, DpSize, c)[i] = Source[c * n + i]
  <2>1. D \in Nat \ {0} /\ Len(Source) % D = 0 /\ c \in 0 .. D - 1 /\ n = Len(Source) \div D
    BY <1>1 DEF D
  <2>2. D = DpSize
    BY DEF D
  <2> DEFINE s == Source
  <2>3. s \in Seq(AnyRow) /\ Len(s) % D = 0 /\ n = Len(s) \div D
    BY <1>1, <2>1 DEF s
  <2> HIDE DEF n, D, s
  <2>4. Share(s, D, c) \in Seq(AnyRow) /\ IsShare(Share(s, D, c), s, c, n)
    BY <2>1, <2>3, ShareFacts
  <2> QED
    BY <2>2, <2>4 DEF s, IsShare
<1>3. \A i \in 1 .. n : Share(Source, DpSize, c)[i] \in AnyRow
  BY <1>2, InSeq
<1> QED
  BY <1>2, <1>3 DEF DpData, Rows1, c

(* The micro-batches of a rank that runs them. *)
LEMMA PlanFacts ==
  ASSUME BatchOk, SourceOk, NEW r \in Rank, HasPlan(r)
  PROVE  IsPlan(Rows1, call.dynamic, plan[r])
<1>1. Rows1 \in Nat \ {0} /\ call.dynamic \in BOOLEAN
  BY SourceFacts DEF SourceOk
<1>2. CASE ~call.dynamic
  <2>1. plan[r] = FixedPlan(Rows1)
    BY <1>2 DEF HasPlan
  <2> QED
    BY <1>1, <2>1, FixedPlanIs
<1>3. CASE call.dynamic
  <2> DEFINE w == Workloads(DpData(r))
             num == count[r]
  <2>1. IsWork(w) /\ Len(w) = Rows1
    BY DataFacts, WorkOfRows
  <2>2. num \in 1 .. Rows1 /\ plan[r] = MicroBatches(w, num)
    BY <1>3 DEF HasPlan
  <2> HIDE DEF w, num
  <2>3. IsPlan(Len(w), TRUE, MicroBatches(w, num))
    BY <2>1, <2>2, DynamicPlanIs
  <2>4. call.dynamic = TRUE
    BY <1>1, <1>3
  <2> QED
    BY <2>1, <2>2, <2>3, <2>4
<1> QED
  BY <1>2, <1>3

-----------------------------------------------------------------------------
(* Before the call.                                                        *)

(* The rollouts. *)
LEMMA NewBatchStep ==
  ASSUME DispatchInv, NEW n \in Sizes, NEW lens \in [1 .. n -> Lengths], NewBatch(lens)
  PROVE  DispatchInv'
<1>1. n \in Nat \ {0}
  BY DispatchAssumption
<1>2. /\ status = "idle" /\ status' = "batch" /\ call' = call /\ result' = result
      /\ data' = data /\ at' = at /\ count' = count /\ plan' = plan /\ values' = values
      /\ batch' = [i \in 1 .. n |-> [id |-> i, len |-> lens[i]]]
  BY DEF NewBatch, rankVars
<1>3. batch' \in [1 .. n -> AnyRow] /\ \A i \in 1 .. n : batch'[i].id = i
  <2>1. \A i \in 1 .. n : [id |-> i, len |-> lens[i]] \in AnyRow
    BY <1>1 DEF AnyRow
  <2> QED
    BY <1>2, <2>1
<1>4. batch' \in Seq(AnyRow) /\ Len(batch') = n
  BY <1>1, <1>3
<1>5. call = NoCall /\ call.mode # "dp"
  BY <1>2 DEF DispatchInv, NoCall
<1>6. Own' = n
  <2>1. Own' = Len(batch') - (IF call'.mode = "dp" THEN call'.pad ELSE 0)
    BY DEF Own
  <2>2. Own' = Len(batch') - 0
    BY <1>2, <1>5, <2>1
  <2> QED
    BY <1>1, <1>4, <2>2
<1>7. BatchOk'
  BY <1>1, <1>3, <1>4, <1>6 DEF BatchOk
<1>8. Unused' /\ call' = NoCall
  BY <1>2 DEF DispatchInv, Unused
<1>9. RanksBalanced' /\ RowsReturned'
  BY <1>2 DEF RanksBalanced, RowsReturned
<1> QED
  BY <1>2, <1>7, <1>8, <1>9 DEF DispatchInv

(* Row i at place i. *)
Counts(all, n) == all \in Seq(1 .. n) /\ Len(all) = n /\ \A i \in 1 .. n : all[i] = i

SharesBalanced(u, all, k) ==
  \A d, e \in 0 .. k - 1 : \E g \in 0 .. Len(all) \div k - 1 :
    Total(u, Share(all, k, d)) - Total(u, Share(all, k, e))
      <= u[Ascending(u)[(g + 1) * k]] - u[Ascending(u)[g * k + 1]]

(* The rows in the order of BalancedOrder: the shares of the ranks are the parts
   of a partition of the workloads, and sorting them again gives the same
   workloads in the same order. *)
LEMMA ReorderedBalance ==
  ASSUME NEW w, IsWork(w), NEW k, NEW equal_size, equal_size = TRUE, MayPart(w, k, equal_size),
         NEW u, IsWork(u), Len(u) = Len(w),
         Reordered(u, w, BalancedOrder(w, k)), NEW all, Counts(all, Len(w))
  PROVE  SharesBalanced(u, all, k)
<1> DEFINE n == Len(w)
           m == Len(w) \div k
           order == BalancedOrder(w, k)
<1>1. n \in Nat /\ n >= 1 /\ k \in Nat \ {0} /\ n % k = 0 /\ k <= n
  BY DEF IsWork, MayPart
<1>2. Permutes(order, n) /\ Reordered(u, w, order)
  BY BalancedOrderFacts
<1>3. all \in Seq(1 .. n) /\ Len(all) = n /\ \A i \in 1 .. n : all[i] = i
  BY DEF Counts
<1>4. ASSUME NEW d \in 0 .. k - 1
      PROVE  Total(u, Share(all, k, d)) = ShareWork(w, order, m, d)
  <2> DEFINE s == Share(all, k, d)
             S == 1 .. n
  <2>1. all \in Seq(S) /\ Len(all) % k = 0 /\ m = Len(all) \div k
    BY <1>1, <1>3
  <2> HIDE DEF S, m, order, n
  <2>2. m \in Nat /\ Len(all) = k * m /\ IsShare(s, all, d, m)
    BY <1>1, <2>1, ShareFacts
  <2> HIDE DEF s
  <2>3. Len(s) = m /\ DOMAIN s = 1 .. m
    BY <2>2 DEF IsShare
  <2>4. \A i \in 1 .. m : d * m + i \in 1 .. n /\ s[i] = d * m + i
    BY <1>3, <2>2 DEF IsShare
  <2>5. \A i \in 1 .. m : u[s[i]] = w[order[d * m + i]]
    BY <1>2, <2>4 DEF Reordered, n
  <2>6. [j \in DOMAIN s |-> u[s[j]]] = [i \in 1 .. m |-> w[order[d * m + i]]]
    BY <2>3, <2>5
  <2> QED
    BY <2>3, <2>6 DEF Total, ShareWork, s
<1>5. PICK b \in SumBounds(w, k, equal_size) : \A d, e \in 0 .. k - 1 :
        ShareWork(w, order, m, d) - ShareWork(w, order, m, e) <= b
  BY BalancedOrderFacts
<1>6. PICK g \in 0 .. m - 1 : b = w[Ascending(w)[g * k + k]] - w[Ascending(w)[g * k + 1]]
  BY <1>5 DEF SumBounds
<1>7. m \in Nat /\ n = k * m
  <2> HIDE DEF n
  <2> QED
    BY <1>1, DivBounds, Divides DEF n
<1> HIDE DEF m, order
<1>8. (g + 1) * k = g * k + k /\ g * k + k \in 1 .. n /\ g * k + 1 \in 1 .. n
  <2>1. g \in Nat /\ g < m
    BY <1>7
  <2>2. g * k + k <= m * k /\ g * k \in Nat /\ m * k = k * m
    BY <1>1, <1>7, <2>1, MulMono
  <2>3. (g + 1) * k = g * k + k
    BY <1>1, <2>1
  <2> HIDE DEF n
  <2> QED
    BY <1>1, <1>7, <2>2, <2>3
<1>9. /\ u[Ascending(u)[g * k + k]] = w[Ascending(w)[g * k + k]]
      /\ u[Ascending(u)[g * k + 1]] = w[Ascending(w)[g * k + 1]]
  <2>1. SameOrder(u, w)
    BY <1>2, AscendingSame
  <2> QED
    BY <1>8, <2>1 DEF SameOrder
<1>10. b = u[Ascending(u)[(g + 1) * k]] - u[Ascending(u)[g * k + 1]]
  BY <1>6, <1>8, <1>9
<1> QED
  BY <1>3, <1>4, <1>5, <1>10 DEF m, SharesBalanced

(* _balance_batch. *)
LEMMA BalanceStep ==
  ASSUME DispatchInv, BalanceBatch
  PROVE  DispatchInv'
<1> DEFINE n == Len(batch)
           w == Workloads(batch)
           k == DpSize
           order == BalancedOrder(w, k)
<1>1. /\ status = "batch" /\ status' = "balanced" /\ call' = call /\ result' = result
      /\ data' = data /\ at' = at /\ count' = count /\ plan' = plan /\ values' = values
  BY DEF BalanceBatch, rankVars
<1>2. BatchOk /\ Unused /\ call = NoCall
  BY <1>1 DEF DispatchInv
<1>3. /\ batch \in Seq(AnyRow) /\ n \in Nat /\ n >= 1 /\ Own = n
      /\ \A i, j \in 1 .. n : batch[i].id = batch[j].id => i = j
  <2>1. batch \in Seq(AnyRow) /\ n \in Nat /\ Own \in 1 .. n
    BY <1>2 DEF BatchOk
  <2>2. Own = n - 0
    BY <1>2 DEF Own, NoCall
  <2>3. Own = n
    BY <2>1, <2>2
  <2> QED
    BY <1>2, <2>1, <2>3 DEF BatchOk
<1>4. IsWork(w) /\ Len(w) = n
  BY <1>3, WorkOfRows
<1>5. k \in Nat \ {0} /\ n % k = 0
  BY RankFacts DEF BalanceBatch
<1> DEFINE equal_size == TRUE
<1>6. MayPart(w, k, equal_size) /\ equal_size = TRUE
  <2> HIDE DEF n, k
  <2>1. n = k * (n \div k) /\ n \div k \in Nat
    BY <1>3, <1>5, DivBounds, Divides
  <2>2. n \div k >= 1
    BY <1>3, <1>5, <2>1
  <2>3. k <= n
    <3> DEFINE q == n \div k
    <3> HIDE DEF q
    <3>1. q \in Nat /\ q >= 1 /\ n = k * q
      BY <2>1, <2>2 DEF q
    <3> QED
      BY <1>5, <3>1
  <2> QED
    BY <1>4, <1>5, <2>3 DEF MayPart
<1>7. batch' = [i \in DOMAIN order |-> batch[order[i]]]
  BY DEF BalanceBatch, Once
<1> HIDE DEF equal_size, w, k, n
<1>8. Len(order) = n /\ Permutes(order, n)
  BY <1>4, <1>6, BalancedOrderFacts
<1> HIDE DEF order
<1>9. batch' = [i \in 1 .. n |-> batch[order[i]]] /\ order \in [1 .. n -> 1 .. n]
  BY <1>7, <1>8 DEF Permutes
<1>10. batch' \in Seq(AnyRow) /\ Len(batch') = n
  <2>1. \A i \in 1 .. n : batch[i] \in AnyRow
    BY <1>3, InSeq DEF n
  <2>2. batch' \in [1 .. n -> AnyRow]
    BY <1>9, <2>1
  <2> QED
    BY <1>3, <1>9, <2>2
<1>11. Own' = n
  <2>1. Own' = Len(batch') - (IF call'.mode = "dp" THEN call'.pad ELSE 0)
    BY DEF Own
  <2>2. Own' = Len(batch') - 0
    BY <1>1, <1>2, <2>1 DEF NoCall
  <2> QED
    BY <1>3, <1>10, <2>2
<1>12. BatchOk'
  <2>1. ASSUME NEW i \in 1 .. n, NEW j \in 1 .. n, batch'[i].id = batch'[j].id
        PROVE  i = j
    <3>1. order[i] \in 1 .. n /\ order[j] \in 1 .. n
      BY <1>9
    <3>2. batch[order[i]].id = batch[order[j]].id
      BY <1>9, <2>1
    <3>3. order[i] = order[j]
      BY <1>3, <3>1, <3>2
    <3> QED
      BY <1>8, <3>3 DEF Permutes
  <2>2. \A i \in Own' + 1 .. Len(batch') : batch'[i] = batch'[Own']
    BY <1>3, <1>10, <1>11
  <2>3. Own' \in 1 .. Len(batch')
    BY <1>3, <1>10, <1>11
  <2> QED
    BY <1>10, <1>11, <2>1, <2>2, <2>3 DEF BatchOk
<1>13. RanksBalanced'
  <2> DEFINE u == Workloads(batch')
             all == [i \in 1 .. n |-> i]
  <2>1. IsWork(u) /\ Len(u) = n
    BY <1>10, WorkOfRows
  <2>2. ASSUME NEW i \in 1 .. n PROVE u[i] = w[order[i]]
    <3>1. order[i] \in 1 .. n /\ batch'[i] = batch[order[i]]
      BY <1>9
    <3>2. DOMAIN batch = 1 .. n /\ DOMAIN batch' = 1 .. n
      BY <1>3, <1>9, InSeq DEF n
    <3> QED
      BY <3>1, <3>2 DEF Workloads, w
  <2>3. Counts(all, n)
    BY <1>3, <1>10 DEF Counts, all
  <2>4. [i \in DOMAIN batch' |-> i] = all /\ Len(all) = n /\ Len(batch') = n
    <3>1. DOMAIN batch' = 1 .. n
      BY <1>9
    <3> QED
      BY <1>10, <2>3, <3>1 DEF all, Counts
  <2>5. Reordered(u, w, order)
    BY <1>4, <2>2 DEF Reordered
  <2> HIDE DEF u, all
  <2>6. SharesBalanced(u, all, k)
    BY <1>4, <1>6, <2>1, <2>3, <2>5, ReorderedBalance DEF order
  <2> QED
    BY <2>4, <2>6 DEF RanksBalanced, SharesBalanced, u, k
<1>14. RowsReturned'
  BY <1>1 DEF RowsReturned
<1>15. Unused' /\ call' = NoCall
  BY <1>1, <1>2 DEF Unused
<1> QED
  BY <1>1, <1>12, <1>13, <1>14, <1>15 DEF DispatchInv
-----------------------------------------------------------------------------
(* The dispatch.                                                           *)

(* What a call that is sent has to establish. *)
LEMMA SentStep ==
  ASSUME DispatchInv, Ready, NEW mode, NEW dynamic \in BOOLEAN, NEW pad, NEW share,
         Send(mode, dynamic, pad, share), BatchOk', SourceOk', \A r \in Rank : HasData(r)'
  PROVE  DispatchInv'
<1>1. /\ status' = "sent" /\ count' = count /\ plan' = plan /\ values' = values
      /\ at' = [r \in Rank |-> IF mode = "dp" THEN "gather" ELSE "split"]
  BY DEF Send
<1>2. Unused
  BY DEF DispatchInv, Ready
<1>3. 0 \in Rank
  BY RankFacts DEF Rank
<1>4. ASSUME NEW r \in Rank PROVE RankOk(r)'
  <2>1. at'[r] \in {"gather", "split"}
    BY <1>1
  <2>2. plan'[r] = <<>> /\ values'[r] = <<>> /\ values'[0] = <<>>
    BY <1>1, <1>2, <1>3 DEF Unused
  <2> QED
    BY <2>1, <2>2 DEF RankOk
<1>5. DOMAIN at' = Rank /\ DOMAIN count' = Rank /\ DOMAIN plan' = Rank
  BY <1>1 DEF DispatchInv
<1>6. RanksBalanced' /\ RowsReturned'
  BY <1>1 DEF RanksBalanced, RowsReturned
<1> QED
  BY <1>1, <1>4, <1>5, <1>6 DEF DispatchInv

(* The rows before a call. *)
LEMMA ReadyFacts ==
  ASSUME DispatchInv, Ready
  PROVE  /\ batch \in Seq(AnyRow) /\ Len(batch) \in Nat \ {0}
         /\ \A i, j \in 1 .. Len(batch) : batch[i].id = batch[j].id => i = j
<1>1. BatchOk /\ call = NoCall
  BY DEF DispatchInv, Ready
<1>2. batch \in Seq(AnyRow) /\ Own \in 1 .. Len(batch) /\ Len(batch) \in Nat
  BY <1>1 DEF BatchOk
<1>3. Own = Len(batch) - 0
  BY <1>1 DEF Own, NoCall
<1>4. Own = Len(batch)
  BY <1>2, <1>3
<1> QED
  BY <1>1, <1>2, <1>4 DEF BatchOk

(* A batch that is not padded in place. *)
LEMMA SameBatch ==
  ASSUME DispatchInv, Ready, batch' = batch, call'.mode = "nd"
  PROVE  BatchOk'
<1>1. /\ batch \in Seq(AnyRow) /\ Len(batch) \in Nat \ {0}
      /\ \A i, j \in 1 .. Len(batch) : batch[i].id = batch[j].id => i = j
  BY ReadyFacts
<1>2. Own' = Len(batch') - (IF call'.mode = "dp" THEN call'.pad ELSE 0)
  BY DEF Own
<1>3. Own' = Len(batch)
  BY <1>1, <1>2
<1>4. Own' \in 1 .. Len(batch)
  BY <1>1, <1>3
<1>5. \A i \in Own' + 1 .. Len(batch) : batch[i] = batch[Own']
  BY <1>1, <1>3
<1> QED
  BY <1>1, <1>3, <1>4, <1>5 DEF BatchOk

(* dispatch_lazy_compute_data_proto. *)
LEMMA NdStep ==
  ASSUME DispatchInv, NEW dynamic \in BOOLEAN, DispatchNd(dynamic)
  PROVE  DispatchInv'
<1> DEFINE share == [r \in Rank |-> Share(batch, DpSize, DpRank(r))]
<1>1. Ready /\ batch' = batch /\ Len(batch) % DpSize = 0 /\ Send("nd", dynamic, 0, share)
  BY DEF DispatchNd
<1>2. call' = [mode |-> "nd", dynamic |-> dynamic, pad |-> 0] /\ data' = share
      /\ at' = [r \in Rank |-> "split"]
  BY <1>1 DEF Send
<1>3. BatchOk'
  BY <1>1, <1>2, SameBatch
<1>4. Source' = batch
  <2>1. batch \in Seq(AnyRow)
    BY <1>1, ReadyFacts
  <2>2. Source' = batch \o [i \in 1 .. 0 |-> batch[((i - 1) % Len(batch)) + 1]]
    BY <1>1, <1>2 DEF Source
  <2>3. [i \in 1 .. 0 |-> batch[((i - 1) % Len(batch)) + 1]] = <<>>
    OBVIOUS
  <2> QED
    BY <2>1, <2>2, <2>3
<1>5. SourceOk'
  BY <1>1, <1>2, <1>4 DEF SourceOk
<1>6. \A r \in Rank : HasData(r)'
  BY <1>2, <1>4 DEF HasData, DpData
<1> QED
  BY <1>1, <1>3, <1>5, <1>6, SentStep

(* The number of rows with the padding. *)
LEMMA PadDivides ==
  ASSUME NEW n \in Nat, NEW m, m = n + PadSize(n, World)
  PROVE  PadSize(n, World) \in Nat /\ m \in Nat /\ m % World = 0 /\ m % DpSize = 0
<1>1. PadSize(n, World) \in Nat /\ m % World = 0
  BY PadFacts
<1>2. m \in Nat
  BY <1>1
<1> QED
  BY <1>1, <1>2, DpDivides

(* generate_sequences of a padded copy. *)
LEMMA PaddedStep ==
  ASSUME DispatchInv, DispatchPadded
  PROVE  DispatchInv'
<1> DEFINE share == [r \in Rank |-> Share(Padded(batch), DpSize, DpRank(r))]
           n == Len(batch)
           pad == PadSize(n, World)
           more == [i \in 1 .. pad |-> batch[((i - 1) % n) + 1]]
<1>1. Ready /\ batch' = batch /\ Send("nd", FALSE, pad, share)
  BY DEF DispatchPadded, Ready
<1>2. call' = [mode |-> "nd", dynamic |-> FALSE, pad |-> pad] /\ data' = share
      /\ at' = [r \in Rank |-> "split"]
  BY <1>1 DEF Send
<1>3. BatchOk'
  BY <1>1, <1>2, SameBatch
<1>4. Source' = Padded(batch)
  BY <1>1, <1>2 DEF Source, Padded
<1>5. batch \in Seq(AnyRow) /\ n \in Nat \ {0} /\ \A i \in 1 .. n : batch[i] \in AnyRow
  BY <1>1, ReadyFacts, InSeq
<1>6. Padded(batch) = batch \o more
  BY DEF Padded
<1>7. pad \in Nat
  BY <1>5, PadFacts
<1>8. SourceOk'
  <2> HIDE DEF pad
  <2>1. more \in [1 .. pad -> AnyRow]
    <3> HIDE DEF n
    <3> SUFFICES ASSUME NEW i \in 1 .. pad PROVE ((i - 1) % n) + 1 \in 1 .. n
      BY <1>5
    <3>1. i - 1 \in Nat
      BY <1>7
    <3> QED
      BY <1>5, <3>1
  <2> HIDE DEF more
  <2>2. Len(batch \o more) = n + pad
    BY <1>5, <1>7, <2>1, PaddedFacts
  <2> DEFINE m == n + pad
  <2>3. m % DpSize = 0
    <3> HIDE DEF n
    <3>1. n \in Nat /\ m = n + PadSize(n, World)
      BY <1>5 DEF pad
    <3> HIDE DEF m
    <3> QED
      BY <3>1, PadDivides
  <2> QED
    BY <1>2, <1>4, <1>6, <1>7, <2>2, <2>3 DEF SourceOk
<1>9. \A r \in Rank : HasData(r)'
  BY <1>2, <1>4 DEF HasData, DpData
<1> HIDE DEF pad, share
<1> QED
  BY <1>1, <1>3, <1>8, <1>9, SentStep

(* dispatch_dp_compute_data_proto with auto padding. *)
LEMMA AutoPaddedStep ==
  ASSUME DispatchInv, NEW dynamic \in BOOLEAN, DispatchAutoPadded(dynamic)
  PROVE  DispatchInv'
<1> DEFINE share == [r \in Rank |-> Share(batch', World, r)]
           n == Len(batch)
           pad == PadSize(n, World)
           more == [i \in 1 .. pad |-> batch[n]]
<1>1. Ready /\ batch' = batch \o more /\ Send("dp", dynamic, pad, share)
  BY DEF DispatchAutoPadded, AutoPadded
<1>2. call' = [mode |-> "dp", dynamic |-> dynamic, pad |-> pad] /\ data' = share
      /\ at' = [r \in Rank |-> "gather"]
  BY <1>1 DEF Send
<1>3. /\ batch \in Seq(AnyRow) /\ n \in Nat \ {0} /\ \A i \in 1 .. n : batch[i] \in AnyRow
      /\ \A i, j \in 1 .. n : batch[i].id = batch[j].id => i = j
  BY <1>1, ReadyFacts, InSeq
<1> DEFINE m == n + pad
<1>4. pad \in Nat /\ m \in Nat /\ m % World = 0 /\ m % DpSize = 0
  <2> HIDE DEF n
  <2>1. n \in Nat /\ m = n + PadSize(n, World)
    BY <1>3 DEF pad
  <2> HIDE DEF m
  <2> QED
    BY <2>1, PadDivides DEF pad
<1> HIDE DEF pad
<1>5. /\ batch' \in Seq(AnyRow) /\ Len(batch') = m
      /\ \A i \in 1 .. n : batch'[i] = batch[i]
      /\ \A i \in 1 .. pad : batch'[n + i] = batch[n]
  <2>1. more \in [1 .. pad -> AnyRow]
    BY <1>3
  <2>2. \A i \in 1 .. pad : more[i] = batch[n]
    OBVIOUS
  <2> HIDE DEF more
  <2>3. /\ batch \o more \in Seq(AnyRow) /\ Len(batch \o more) = Len(batch) + pad
        /\ \A i \in 1 .. Len(batch) : (batch \o more)[i] = batch[i]
        /\ \A i \in 1 .. pad : (batch \o more)[Len(batch) + i] = more[i]
    BY <1>3, <1>4, <2>1, PaddedFacts
  <2> QED
    BY <1>1, <2>2, <2>3
<1> HIDE DEF n
<1>6. Own' = n
  <2>1. Own' = Len(batch') - (IF call'.mode = "dp" THEN call'.pad ELSE 0)
    BY DEF Own
  <2>2. Own' = m - pad
    BY <1>2, <1>5, <2>1
  <2> QED
    BY <1>3, <1>4, <2>2
<1>7. BatchOk'
  <2>1. Own' \in 1 .. Len(batch')
    BY <1>3, <1>4, <1>5, <1>6
  <2>2. \A i, j \in 1 .. Own' : batch'[i].id = batch'[j].id => i = j
    BY <1>3, <1>5, <1>6
  <2>3. ASSUME NEW i \in Own' + 1 .. Len(batch') PROVE batch'[i] = batch'[Own']
    <3>1. i - n \in 1 .. pad /\ n + (i - n) = i
      BY <1>3, <1>4, <1>5, <1>6
    <3>2. batch'[n + (i - n)] = batch[n]
      BY <1>5, <3>1
    <3>3. batch'[n] = batch[n]
      BY <1>3, <1>5
    <3> QED
      BY <1>6, <3>1, <3>2, <3>3
  <2> QED
    BY <1>5, <2>1, <2>2, <2>3 DEF BatchOk
<1>8. Source' = batch'
  BY <1>2 DEF Source
<1>9. SourceOk'
  BY <1>2, <1>4, <1>5, <1>8 DEF SourceOk
<1>10. \A r \in Rank : HasData(r)'
  <2>1. \A r \in Rank : at'[r] = "gather"
    BY <1>2
  <2>2. \A r \in Rank : SpGroup(r) \subseteq Rank
    BY DEF SpGroup
  <2>3. \A r \in Rank : \A q \in SpGroup(r) : at'[q] = "gather"
    BY <2>1, <2>2
  <2> QED
    BY <1>2, <1>8, <2>1, <2>3 DEF HasData
<1> HIDE DEF share
<1> QED
  BY <1>1, <1>7, <1>9, <1>10, SentStep
-----------------------------------------------------------------------------
(* The ranks.                                                              *)

(* A step of the ranks that leaves each of them well. *)
LEMMA RankStep ==
  ASSUME DispatchInv, status \in {"sent", "returned"},
         UNCHANGED <<batch, call, status, result>>,
         DOMAIN at' = Rank, DOMAIN count' = Rank, DOMAIN plan' = Rank,
         \A r \in Rank : RankOk(r)'
  PROVE  DispatchInv'
<1>1. BatchOk' /\ SourceOk'
  BY DEF DispatchInv, BatchOk, Own, SourceOk, Source
<1>2. RanksBalanced' /\ RowsReturned'
  BY DEF DispatchInv, RanksBalanced, RowsReturned
<1> QED
  BY <1>1, <1>2 DEF DispatchInv

(* The ranks of a call. *)
LEMMA InCall ==
  ASSUME DispatchInv, NEW r \in Rank, at[r] # "idle"
  PROVE  status \in {"sent", "returned"} /\ BatchOk /\ SourceOk /\ \A q \in Rank : RankOk(q)
<1>1. ~Unused
  BY DEF Unused
<1> QED
  BY <1>1 DEF DispatchInv

(* The shares of a group, one after another. *)
LEMMA GroupShares ==
  ASSUME BatchOk, SourceOk, call.mode = "dp", NEW r \in Rank, r % SP = 0,
         NEW ss, ss = [s \in 1 .. SP |-> Share(Source, World, r + s - 1)]
  PROVE  FlattenSeq(ss) = DpData(r)
<1> DEFINE S == Source
           c == Len(S) \div World
           d == DpRank(r)
           t == DpData(r)
<1>1. /\ World \in Nat \ {0} /\ SP \in Nat \ {0} /\ DpSize \in Nat \ {0}
      /\ World = SP * DpSize /\ d \in 0 .. DpSize - 1
  BY RankFacts
<1>2. r = SP * d /\ r \in Nat
  <2>1. SpRank(r) = 0
    BY DEF SpRank
  <2> QED
    BY <1>1, <2>1, RankFacts
<1>3. /\ S \in Seq(AnyRow) /\ Len(S) \in Nat /\ Len(S) % World = 0 /\ Rows1 \in Nat \ {0}
  BY SourceFacts DEF SourceOk
<1>4. c \in Nat /\ Rows1 = SP * c
  BY <1>3, DpDivides DEF Rows1
<1>5. /\ t \in Seq(AnyRow) /\ Len(t) = Rows1
      /\ \A i \in 1 .. Rows1 : t[i] = S[d * Rows1 + i]
  BY DataFacts
<1> HIDE DEF S, c, d, t
<1>6. ASSUME NEW s \in 1 .. SP
      PROVE  /\ ss[s] \in Seq(AnyRow) /\ Len(ss[s]) = c
             /\ \A i \in 1 .. c : ss[s][i] = S[(r + s - 1) * c + i]
  <2> DEFINE p == r + s - 1
             W == World
  <2>1. p \in 0 .. W - 1
    <3>1. SP * d + SP <= SP * DpSize
      <4>1. d \in Nat /\ DpSize \in Nat /\ d < DpSize
        BY <1>1
      <4>2. d * SP + SP <= DpSize * SP
        BY <1>1, <4>1, MulMono
      <4> QED
        BY <1>1, <4>1, <4>2
    <3> QED
      BY <1>1, <1>2, <3>1
  <2>2. W \in Nat \ {0} /\ Len(S) % W = 0 /\ c = Len(S) \div W
    BY <1>1, <1>3 DEF c, W
  <2>3. ss[s] = Share(S, W, p)
    BY DEF S
  <2> HIDE DEF p, W
  <2>4. Share(S, W, p) \in Seq(AnyRow) /\ IsShare(Share(S, W, p), S, p, c)
    BY <1>3, <2>1, <2>2, ShareFacts
  <2> QED
    BY <2>3, <2>4 DEF IsShare, p
<1>7. Len(ss) = SP /\ DOMAIN ss = 1 .. SP
  BY <1>1
<1>8. ss \in Seq(Seq(AnyRow))
  <2> DEFINE Q == Seq(AnyRow)
  <2> HIDE DEF Q
  <2>1. \A s \in 1 .. SP : ss[s] \in Q
    BY <1>6 DEF Q
  <2>2. ss \in [1 .. SP -> Q]
    BY <2>1
  <2>3. ss \in Seq(Q)
    BY <1>1, <2>2
  <2> QED
    BY <2>3 DEF Q
<1>9. Fills(t, ss)
  <2> DEFINE v == PartLengths(ss)
  <2>1. Len(v) = SP /\ \A g \in 1 .. SP : v[g] = c
    BY <1>1, <1>6, <1>7 DEF PartLengths
  <2> HIDE DEF v
  <2>2. \A g \in 0 .. SP : Before(v, g + 1) = g * c
    BY <1>1, <1>4, <2>1, BeforeEqual
  <2>3. Len(t) = Before(v, Len(ss) + 1)
    BY <1>1, <1>4, <1>5, <1>7, <2>2
  <2>4. ASSUME NEW g \in 1 .. Len(ss), NEW i \in 1 .. Len(ss[g])
        PROVE  t[Before(v, g) + i] = ss[g][i]
    <3>1. g \in 1 .. SP /\ i \in 1 .. c /\ g - 1 \in 0 .. SP /\ g - 1 \in Nat /\ (g - 1) + 1 = g
      BY <1>1, <1>6, <1>7
    <3>2. Before(v, g) = (g - 1) * c
      BY <2>2, <3>1
    <3>3. (g - 1) * c + c <= SP * c /\ (g - 1) * c \in Nat
      <4>1. g - 1 < SP /\ SP \in Nat
        BY <1>1, <3>1
      <4> QED
        BY <1>4, <3>1, <4>1, MulMono
    <3>4. (g - 1) * c + i \in 1 .. Rows1
      BY <1>3, <1>4, <3>1, <3>3
    <3>5. t[(g - 1) * c + i] = S[d * Rows1 + ((g - 1) * c + i)]
      BY <1>5, <3>4
    <3>6. d * Rows1 + ((g - 1) * c + i) = (r + g - 1) * c + i
      <4> DEFINE h == g - 1
      <4>1. h \in Nat /\ d \in Nat /\ SP \in Nat /\ c \in Nat /\ i \in Nat
        BY <1>1, <1>4, <3>1
      <4>2. r + g - 1 = SP * d + h
        BY <1>2, <3>1
      <4> HIDE DEF h
      <4>3. (SP * d + h) * c = d * (SP * c) + h * c
        BY <4>1
      <4>4. d * (SP * c) \in Nat /\ h * c \in Nat
        BY <4>1
      <4> QED
        BY <1>4, <4>1, <4>2, <4>3, <4>4 DEF h
    <3>7. ss[g][i] = S[(r + g - 1) * c + i]
      BY <1>6, <3>1
    <3> QED
      BY <3>2, <3>5, <3>6, <3>7
  <2> QED
    BY <2>3, <2>4 DEF Fills, v
<1> QED
  BY <1>5, <1>8, <1>9, FlattenIs DEF t

(* The ranks of a group are next to each other. *)
LEMMA GroupRanks ==
  ASSUME NEW r \in Rank, r % SP = 0, NEW s \in 1 .. SP
  PROVE  r + s - 1 \in SpGroup(r)
<1> DEFINE d == DpRank(r)
           p == r + s - 1
<1>1. SP \in Nat \ {0} /\ DpSize \in Nat \ {0} /\ World = SP * DpSize /\ d \in 0 .. DpSize - 1
  BY RankFacts
<1>2. r = SP * d /\ r \in Nat
  <2>1. SpRank(r) = 0
    BY DEF SpRank
  <2> QED
    BY <1>1, <2>1, RankFacts
<1>3. SP * d + SP <= SP * DpSize
  <2>1. d \in Nat /\ DpSize \in Nat /\ d < DpSize
    BY <1>1
  <2>2. d * SP + SP <= DpSize * SP
    BY <1>1, <2>1, MulMono
  <2> QED
    BY <1>1, <2>1, <2>2
<1> HIDE DEF d
<1>4. p \in Rank
  BY <1>1, <1>2, <1>3 DEF Rank
<1>5. p \div SP = d /\ r \div SP = d
  <2>1. d \in Nat /\ s - 1 \in 0 .. SP - 1 /\ 0 \in 0 .. SP - 1 /\ d * SP = SP * d
    BY <1>1
  <2>2. (d * SP + (s - 1)) \div SP = d /\ (d * SP + 0) \div SP = d
    BY <1>1, <2>1, DivOfSum
  <2>3. p = d * SP + (s - 1) /\ r = d * SP + 0
    BY <1>1, <1>2, <2>1
  <2> QED
    BY <2>2, <2>3
<1> QED
  BY <1>4, <1>5 DEF SpGroup

(* preprocess_data. *)
LEMMA GatherStep ==
  ASSUME DispatchInv, NEW r \in Rank, Gather(r)
  PROVE  DispatchInv'
<1> DEFINE G == SpGroup(r)
           all == FlattenSeq([s \in 1 .. SP |-> data[r + s - 1]])
<1>1. /\ status = "sent" /\ r % SP = 0 /\ \A q \in G : at[q] = "gather"
      /\ batch' = batch /\ call' = call /\ status' = status /\ result' = result
      /\ count' = count /\ plan' = plan /\ values' = values
      /\ data' = [q \in Rank |-> IF q \in G THEN all ELSE data[q]]
      /\ at' = [q \in Rank |-> IF q \in G THEN "split" ELSE at[q]]
  BY DEF Gather
<1>2. BatchOk /\ SourceOk /\ \A q \in Rank : RankOk(q)
  BY <1>1 DEF DispatchInv
<1>3. /\ \A q \in G : q \in Rank /\ DpRank(q) = DpRank(r)
      /\ \A q \in Rank : \A p \in SpGroup(q) : p \in Rank /\ (p \in G => q \in G)
  BY RankFacts
<1>4. \A s \in 1 .. SP : r + s - 1 \in G
  BY <1>1, GroupRanks
<1>5. all = DpData(r)
  <2> DEFINE ss == [s \in 1 .. SP |-> Share(Source, World, r + s - 1)]
  <2>1. \A q \in G : data[q] = Share(Source, World, q)
    BY <1>1, <1>2, <1>3 DEF RankOk, HasData
  <2>2. \A s \in 1 .. SP : data[r + s - 1] = Share(Source, World, r + s - 1)
    BY <1>4, <2>1
  <2>3. [s \in 1 .. SP |-> data[r + s - 1]] = ss
    BY <2>2
  <2>4. 1 \in 1 .. SP
    BY RankFacts
  <2>5. call.mode = "dp"
    <3>1. r + 1 - 1 \in G
      BY <1>4, <2>4
    <3> QED
      BY <1>1, <1>2, <1>3, <3>1 DEF RankOk, HasData
  <2> HIDE DEF ss
  <2>6. FlattenSeq(ss) = DpData(r)
    BY <1>1, <1>2, <2>5, GroupShares DEF ss
  <2> QED
    BY <2>3, <2>6
<1> HIDE DEF all, G
<1>6. Source' = Source
  BY <1>1 DEF Source
<1>7. ASSUME NEW q \in Rank PROVE RankOk(q)'
  <2>1. CASE q \in G
    <3>1. at[q] = "gather" /\ at'[q] = "split" /\ data'[q] = all
      BY <1>1, <2>1
    <3>2. DpData(q)' = DpData(r)
      BY <1>3, <1>6, <2>1 DEF DpData
    <3>3. plan'[q] = <<>> /\ values'[q] = <<>> /\ values'[0] = <<>>
      BY <1>1, <1>2, <3>1 DEF RankOk
    <3> QED
      BY <1>5, <3>1, <3>2, <3>3 DEF RankOk, HasData
  <2>2. CASE q \notin G
    <3>1. at'[q] = at[q] /\ data'[q] = data[q]
      BY <1>1, <2>2
    <3>2. \A p \in SpGroup(q) : at'[p] = at[p]
      BY <1>1, <1>3, <2>2
    <3>3. RankOk(q)
      BY <1>2
    <3>4. DpData(q)' = DpData(q) /\ Rows1' = Rows1
      BY <1>6 DEF DpData, Rows1
    <3>5. HasData(q)'
      BY <1>1, <1>6, <3>1, <3>2, <3>3, <3>4 DEF RankOk, HasData
    <3>6. HasPlan(q) => HasPlan(q)'
      <4>1. r \in G
        BY RankFacts DEF G
      <4>2. HasPlan(q) => ~call.dynamic
        BY <1>1, <4>1 DEF HasPlan
      <4> QED
        BY <1>1, <3>4, <4>2 DEF HasPlan
    <3>7. HasValues(q) => HasValues(q)'
      BY <1>1, <3>4 DEF HasValues
    <3> QED
      BY <1>1, <3>1, <3>3, <3>4, <3>5, <3>6, <3>7 DEF RankOk
  <2> QED
    BY <2>1, <2>2
<1>8. DOMAIN at' = Rank /\ DOMAIN count' = Rank /\ DOMAIN plan' = Rank
  BY <1>1 DEF DispatchInv
<1> QED
  BY <1>1, <1>7, <1>8, RankStep

(* The rows a rank has once its group has gathered. *)
LEMMA RowsOfRank ==
  ASSUME BatchOk, SourceOk, NEW r \in Rank, RankOk(r), at[r] # "gather"
  PROVE  /\ data[r] = DpData(r) /\ data[r] \in Seq(AnyRow) /\ Len(data[r]) = Rows1
         /\ Rows1 \in Nat \ {0}
<1>1. data[r] = DpData(r)
  BY DEF RankOk, HasData
<1> QED
  BY <1>1, DataFacts, SourceFacts

(* data.split, or the number of micro-batches of a rank. *)
LEMMA SplitStep ==
  ASSUME DispatchInv, NEW r \in Rank, Split(r)
  PROVE  DispatchInv'
<1>1. /\ at[r] = "split" /\ batch' = batch /\ call' = call /\ status' = status
      /\ data' = data /\ values' = values /\ result' = result
  BY DEF Split
<1>2. /\ status \in {"sent", "returned"} /\ BatchOk /\ SourceOk /\ \A q \in Rank : RankOk(q)
  BY <1>1, InCall
<1>3. /\ data[r] = DpData(r) /\ data[r] \in Seq(AnyRow) /\ Len(data[r]) = Rows1
      /\ Rows1 \in Nat \ {0}
  BY <1>1, <1>2, RowsOfRank
<1>4. Source' = Source /\ Rows1' = Rows1 /\ \A q \in Rank : DpData(q)' = DpData(q)
  BY <1>1 DEF Source, Rows1, DpData
<1>5. DOMAIN at = Rank /\ DOMAIN count = Rank /\ DOMAIN plan = Rank
  BY DEF DispatchInv
<1>6. values[r] = <<>> /\ values[0] = <<>> /\ 0 \in Rank
  BY <1>1, <1>2, RankFacts DEF RankOk, Rank
<1>7. at' = [at EXCEPT ![r] = IF call.dynamic THEN "reduce" ELSE "run"]
  BY DEF Split
<1>8. ASSUME NEW q \in Rank, q # r PROVE RankOk(q)'
  <2>1. at'[q] = at[q] /\ plan'[q] = plan[q] /\ count'[q] = count[q]
    BY <1>5, <1>8 DEF Split
  <2>2. RankOk(q)
    BY <1>2
  <2>3. HasData(q)'
    <3>1. CASE at[q] = "gather"
      <4>1. \A p \in SpGroup(q) : at[p] = "gather" /\ p \in Rank
        BY <2>2, <3>1 DEF RankOk, HasData, SpGroup
      <4>2. \A p \in SpGroup(q) : at'[p] = "gather"
        BY <1>1, <1>5, <1>7, <4>1
      <4> QED
        BY <1>1, <1>4, <2>1, <2>2, <3>1, <4>2 DEF RankOk, HasData
    <3>2. CASE at[q] # "gather"
      BY <1>1, <1>4, <2>1, <2>2, <3>2 DEF RankOk, HasData
    <3> QED
      BY <3>1, <3>2
  <2>4. HasPlan(q) => HasPlan(q)'
    <3>1. HasPlan(q) => ~call.dynamic
      BY <1>1 DEF HasPlan
    <3> QED
      BY <1>1, <1>4, <2>1, <3>1 DEF HasPlan
  <2>5. HasValues(q) => HasValues(q)'
    BY <1>1, <1>4, <2>1 DEF HasValues
  <2> QED
    BY <1>1, <1>4, <2>1, <2>2, <2>3, <2>4, <2>5 DEF RankOk
<1>9. RankOk(r)'
  <2>1. CASE call.dynamic
    <3>1. at'[r] = "reduce" /\ plan'[r] = plan[r]
          /\ count'[r] = MicroBatchCount(Lens(data[r]), MaxTokenLen)
      BY <1>5, <2>1 DEF Split
    <3>2. count'[r] \in 1 .. Rows1
      BY <1>3, <3>1, CountFacts
    <3>3. plan[r] = <<>>
      BY <1>1, <1>2 DEF RankOk
    <3> QED
      BY <1>1, <1>3, <1>4, <1>6, <2>1, <3>1, <3>2, <3>3 DEF RankOk, HasData
  <2>2. CASE ~call.dynamic
    <3>1. at'[r] = "run" /\ plan'[r] = FixedPlan(Rows1)
      BY <1>3, <1>5, <2>2 DEF Split
    <3>2. HasPlan(r)'
      BY <1>1, <1>4, <2>2, <3>1 DEF HasPlan
    <3>3. HasValues(r)'
      <4>1. FixedPlan(Rows1) \in Seq(Seq(1 .. Rows1)) /\ Len(FixedPlan(Rows1)) \in Nat
        <5>1. IsPlan(Rows1, FALSE, FixedPlan(Rows1))
          BY <1>3, FixedPlanIs
        <5> DEFINE S == Seq(1 .. Rows1)
        <5>2. FixedPlan(Rows1) \in Seq(S)
          BY <5>1 DEF IsPlan
        <5> HIDE DEF S
        <5>3. Len(FixedPlan(Rows1)) \in Nat
          BY <5>2
        <5> QED
          BY <5>2, <5>3 DEF S
      <4>2. Len(values'[r]) = 0 /\ Len(values'[0]) = 0
        BY <1>1, <1>6
      <4>3. values'[r] = [m \in 1 .. 0 |->
              [i \in 1 .. Len(plan'[r][m]) |-> DpData(r)[plan'[r][m][i]].id]]
        BY <1>1, <1>6
      <4> QED
        BY <1>4, <3>1, <4>1, <4>2, <4>3 DEF HasValues
    <3> QED
      BY <1>1, <1>3, <1>4, <3>1, <3>2, <3>3 DEF RankOk, HasData
  <2> QED
    BY <2>1, <2>2
<1>10. DOMAIN at' = Rank /\ DOMAIN count' = Rank /\ DOMAIN plan' = Rank
  BY <1>5 DEF Split
<1> QED
  BY <1>1, <1>2, <1>8, <1>9, <1>10, RankStep

(* The number of micro-batches the ranks agree on, and the partition. *)
LEMMA AllReduceStep ==
  ASSUME DispatchInv, AllReduce
  PROVE  DispatchInv'
<1>1. /\ \A r \in Rank : at[r] = "reduce"
      /\ batch' = batch /\ call' = call /\ status' = status
      /\ data' = data /\ values' = values /\ result' = result
      /\ count' = [r \in Rank |-> Agreed(r)]
      /\ plan' = [r \in Rank |-> MicroBatchesOf(r, Agreed(r))]
      /\ at' = [r \in Rank |-> IF plan'[r] = <<>> THEN "raised" ELSE "run"]
  BY DEF AllReduce, Once
<1>2. 0 \in Rank
  BY RankFacts DEF Rank
<1>3. /\ status \in {"sent", "returned"} /\ BatchOk /\ SourceOk /\ \A q \in Rank : RankOk(q)
  BY <1>1, <1>2, InCall
<1>4. Source' = Source /\ Rows1' = Rows1 /\ \A q \in Rank : DpData(q)' = DpData(q)
  BY <1>1 DEF Source, Rows1, DpData
<1>5. call.dynamic /\ \A q \in Rank : count[q] \in 1 .. Rows1 /\ Rows1 \in Nat
  BY <1>1, <1>2, <1>3, SourceFacts DEF RankOk
<1>6. \A r \in Rank : Agreed(r) \in 1 .. Rows1 /\ Agreed(r) = Agreed(0)
  <2>1. \A r \in Rank : Agreed(r) = Agreed(0)
    BY DEF Agreed
  <2>2. \A r \in Rank : Agreed(r) \in 1 .. Rows1
    BY <1>5, AgreedFacts
  <2> QED
    BY <2>1, <2>2
<1>7. ASSUME NEW r \in Rank
      PROVE  /\ plan'[r] = MicroBatches(Workloads(DpData(r)), Agreed(r))
             /\ plan'[r] # <<>> /\ Len(plan'[r]) \in Nat
  <2> DEFINE w == Workloads(data[r])
             num == Agreed(r)
             raises == FALSE
  <2>1. data[r] = DpData(r) /\ data[r] \in Seq(AnyRow) /\ Len(data[r]) = Rows1
    BY <1>1, <1>3, RowsOfRank
  <2>2. IsWork(w) /\ Len(w) = Rows1
    BY <2>1, WorkOfRows
  <2>3. plan'[r] = IF PartitionAsserts(w, num, FALSE) THEN MicroBatches(w, num) ELSE <<>>
    BY <1>1 DEF MicroBatchesOf, Once
  <2>4. num \in 1 .. Rows1 /\ Rows1 \in Nat
    BY <1>5, <1>6
  <2> HIDE DEF w, num
  <2> DEFINE equal_size == FALSE
  <2>5. equal_size = FALSE /\ MayPart(w, num, equal_size)
    BY <2>2, <2>4 DEF MayPart
  <2> HIDE DEF equal_size
  <2>6. PartitionAsserts(w, num, equal_size)
    BY <2>2, <2>5, AssertsHold
  <2>7. plan'[r] = MicroBatches(w, num)
    BY <2>3, <2>5, <2>6
  <2>8. IsPartition(Len(w), num, MicroBatches(w, num))
    BY <2>2, <2>4, MicroBatchesFacts
  <2>9. Len(plan'[r]) = num
    BY <2>7, <2>8 DEF IsPartition
  <2>10. plan'[r] # <<>>
    BY <2>4, <2>9
  <2> QED
    BY <2>1, <2>4, <2>7, <2>9, <2>10 DEF w, num
<1>8. \A r \in Rank : at'[r] = "run" /\ count'[r] = Agreed(r)
  BY <1>1, <1>7
<1>9. ASSUME NEW r \in Rank PROVE RankOk(r)'
  <2>1. values'[r] = <<>> /\ values'[0] = <<>>
    BY <1>1, <1>2, <1>3 DEF RankOk
  <2>2. HasData(r)'
    <3>1. data'[r] = DpData(r)
      BY <1>1, <1>3, RowsOfRank
    <3> QED
      BY <1>4, <1>8, <3>1 DEF HasData
  <2>3. HasPlan(r)'
    <3>1. call'.dynamic /\ \A q \in Rank : at'[q] = "run"
      BY <1>1, <1>5, <1>8
    <3>2. count'[r] \in 1 .. Rows1 /\ count'[r] = count'[0]
      BY <1>2, <1>6, <1>8
    <3>3. plan'[r] = MicroBatches(Workloads(DpData(r)), count'[r])
      BY <1>7, <1>8
    <3> QED
      BY <1>4, <3>1, <3>2, <3>3 DEF HasPlan
  <2>4. HasValues(r)'
    <3>1. Len(values'[r]) = 0 /\ Len(values'[0]) = 0 /\ Len(plan'[r]) \in Nat
      BY <1>7, <2>1
    <3>2. values'[r] = [m \in 1 .. 0 |->
            [i \in 1 .. Len(plan'[r][m]) |-> DpData(r)'[plan'[r][m][i]].id]]
      BY <2>1
    <3> QED
      BY <3>1, <3>2 DEF HasValues
  <2> QED
    BY <1>8, <2>2, <2>3, <2>4 DEF RankOk
<1>10. DOMAIN at' = Rank /\ DOMAIN count' = Rank /\ DOMAIN plan' = Rank
  BY <1>1
<1> QED
  BY <1>1, <1>3, <1>9, <1>10, RankStep

(* One more value of a function. *)
LEMMA AppendMapped ==
  ASSUME NEW n \in Nat, NEW s, NEW f, s = [m \in 1 .. n |-> f[m]]
  PROVE  /\ Append(s, f[n + 1]) = [m \in 1 .. n + 1 |-> f[m]]
         /\ Len(Append(s, f[n + 1])) = n + 1
<1> DEFINE S == {f[m] : m \in 1 .. n + 1}
           e == f[n + 1]
<1>1. s \in [1 .. n -> S] /\ e \in S
  OBVIOUS
<1>2. \A m \in 1 .. n : s[m] = f[m]
  OBVIOUS
<1> HIDE DEF S
<1>3. s \in Seq(S) /\ Len(s) = n
  BY <1>1
<1>4. /\ Append(s, e) \in Seq(S) /\ Len(Append(s, e)) = n + 1
      /\ \A m \in 1 .. n : Append(s, e)[m] = s[m]
      /\ Append(s, e)[n + 1] = e
  <2> HIDE DEF e
  <2> QED
    BY <1>1, <1>3
<1>5. ASSUME NEW m \in 1 .. n + 1 PROVE Append(s, e)[m] = f[m]
  <2>1. CASE m = n + 1
    BY <1>4, <2>1
  <2>2. CASE m \in 1 .. n
    BY <1>2, <1>4, <2>2
  <2> QED
    BY <2>1, <2>2
<1>6. Append(s, e) = [m \in 1 .. n + 1 |-> Append(s, e)[m]]
  BY <1>4
<1> QED
  BY <1>4, <1>5, <1>6

(* The ranks of a group run the same micro-batches on the same rows. *)
LEMMA SameMicroBatches ==
  ASSUME NEW r \in Rank, NEW q \in SpGroup(r), HasPlan(r), HasPlan(q)
  PROVE  DpData(q) = DpData(r) /\ plan[q] = plan[r]
<1>1. q \in Rank /\ DpRank(q) = DpRank(r)
  BY RankFacts
<1>2. DpData(q) = DpData(r)
  BY <1>1 DEF DpData
<1>3. CASE call.dynamic
  BY <1>2, <1>3 DEF HasPlan
<1>4. CASE ~call.dynamic
  BY <1>2, <1>4 DEF HasPlan
<1> QED
  BY <1>2, <1>3, <1>4

(* The rows of the micro-batches of a rank are rows it has. *)
LEMMA PlanTypes ==
  ASSUME NEW n, NEW dynamic, NEW micro, IsPlan(n, dynamic, micro)
  PROVE  /\ micro \in Seq(Seq(1 .. n)) /\ Len(micro) \in Nat \ {0}
         /\ \A m \in 1 .. Len(micro) :
              /\ micro[m] \in Seq(1 .. n) /\ Len(micro[m]) \in Nat
              /\ DOMAIN micro[m] = 1 .. Len(micro[m])
              /\ \A i \in 1 .. Len(micro[m]) : micro[m][i] \in 1 .. n
<1> DEFINE S == Seq(1 .. n)
<1>1. micro \in Seq(S) /\ Len(micro) >= 1
  BY DEF IsPlan
<1>2. \A t \in S : /\ Len(t) \in Nat /\ DOMAIN t = 1 .. Len(t)
                   /\ \A i \in 1 .. Len(t) : t[i] \in 1 .. n
  BY InSeq
<1>3. Len(micro) \in Nat /\ \A m \in 1 .. Len(micro) : micro[m] \in S
  <2> HIDE DEF S
  <2> QED
    BY <1>1, InSeq
<1> QED
  BY <1>1, <1>2, <1>3

(* The next micro-batch on all ranks. *)
LEMMA ForwardStep ==
  ASSUME DispatchInv, Forward
  PROVE  DispatchInv'
<1>1. /\ \A r \in Rank : at[r] = "run" /\ Ran(r) < Len(plan[r])
      /\ batch' = batch /\ call' = call /\ status' = status /\ result' = result
      /\ data' = data /\ at' = at /\ count' = count /\ plan' = plan
  BY DEF Forward
<1>2. 0 \in Rank
  BY RankFacts DEF Rank
<1>3. /\ status \in {"sent", "returned"} /\ BatchOk /\ SourceOk /\ \A q \in Rank : RankOk(q)
  BY <1>1, <1>2, InCall
<1>4. Source' = Source /\ Rows1' = Rows1 /\ \A q \in Rank : DpData(q)' = DpData(q)
  BY <1>1 DEF Source, Rows1, DpData
<1>5. \A r \in Rank : HasPlan(r) /\ HasValues(r) /\ data[r] = DpData(r)
  BY <1>1, <1>3 DEF RankOk, HasData
<1> DEFINE L == Len(values[0])
<1>6. \A r \in Rank : Ran(r) = L
  BY <1>5 DEF HasValues, Ran
<1> DEFINE Ids(r) == [m \in 1 .. Len(plan[r]) |->
                        [i \in 1 .. Len(plan[r][m]) |-> DpData(r)[plan[r][m][i]].id]]
<1>7. ASSUME NEW r \in Rank
      PROVE  /\ Len(plan[r]) \in Nat /\ L \in Nat /\ L + 1 \in 1 .. Len(plan[r])
             /\ values'[r] = [m \in 1 .. L + 1 |-> Ids(r)[m]] /\ Len(values'[r]) = L + 1
  <2>1. IsPlan(Rows1, call.dynamic, plan[r])
    BY <1>3, <1>5, PlanFacts
  <2>2. /\ Len(plan[r]) \in Nat
        /\ \A m \in 1 .. Len(plan[r]) : DOMAIN plan[r][m] = 1 .. Len(plan[r][m])
    BY <2>1, PlanTypes
  <2>3. L \in Nat /\ L < Len(plan[r])
    <3>1. Len(values[r]) \in 0 .. Len(plan[r]) /\ Len(values[r]) = L
      BY <1>5 DEF HasValues
    <3> QED
      BY <1>1, <1>6, <2>2, <3>1
  <2>4. L + 1 \in 1 .. Len(plan[r])
    BY <2>2, <2>3
  <2>5. \A q \in SpGroup(r) : MicroRows(q) = MicroRows(r)
    <3> SUFFICES ASSUME NEW q \in SpGroup(r) PROVE MicroRows(q) = MicroRows(r)
      OBVIOUS
    <3>1. q \in Rank
      BY DEF SpGroup
    <3>2. plan[q] = plan[r] /\ data[q] = data[r] /\ Ran(q) = Ran(r)
      BY <1>5, <1>6, <3>1, SameMicroBatches
    <3> QED
      BY <3>2 DEF MicroRows
  <2>6. DOMAIN MicroRows(r) = 1 .. Len(plan[r][L + 1])
        /\ \A i \in 1 .. Len(plan[r][L + 1]) : MicroRows(r)[i] = DpData(r)[plan[r][L + 1][i]]
    BY <1>5, <1>6, <2>2, <2>4 DEF MicroRows
  <2>7. values'[r] = Append(values[r], [i \in DOMAIN MicroRows(r) |-> MicroRows(r)[i].id])
    BY <2>5 DEF Forward
  <2>8. [i \in DOMAIN MicroRows(r) |-> MicroRows(r)[i].id] = Ids(r)[L + 1]
    BY <2>4, <2>6
  <2>9. values[r] = [m \in 1 .. L |-> Ids(r)[m]]
    <3>1. Len(values[r]) = L
      BY <1>5 DEF HasValues
    <3>2. values[r] = [m \in 1 .. L |->
                        [i \in 1 .. Len(plan[r][m]) |-> DpData(r)[plan[r][m][i]].id]]
      BY <1>5, <3>1 DEF HasValues
    <3>3. \A m \in 1 .. L : m \in 1 .. Len(plan[r])
      BY <2>2, <2>3
    <3> HIDE DEF L
    <3> QED
      BY <3>2, <3>3
  <2> DEFINE f == Ids(r)
             s == values[r]
  <2>10. s = [m \in 1 .. L |-> f[m]] /\ values'[r] = Append(s, f[L + 1])
    BY <2>7, <2>8, <2>9
  <2> HIDE DEF f, s, L
  <2>11. /\ Append(s, f[L + 1]) = [m \in 1 .. L + 1 |-> f[m]]
         /\ Len(Append(s, f[L + 1])) = L + 1
    BY <2>3, <2>10, AppendMapped
  <2> QED
    BY <2>2, <2>3, <2>4, <2>10, <2>11 DEF f
<1>8. ASSUME NEW r \in Rank PROVE RankOk(r)'
  <2>1. RankOk(r) /\ at[r] = "run"
    BY <1>1, <1>3
  <2>2. HasData(r)'
    BY <1>1, <1>4, <2>1 DEF RankOk, HasData
  <2>3. HasPlan(r)'
    BY <1>1, <1>4, <1>5 DEF HasPlan
  <2>4. HasValues(r)'
    <3>1. Len(values'[r]) = L + 1 /\ Len(values'[0]) = L + 1
      BY <1>2, <1>7
    <3>2. L \in Nat /\ Len(plan[r]) \in Nat /\ L + 1 \in 1 .. Len(plan[r])
      BY <1>7
    <3>3. L + 1 \in 0 .. Len(plan[r])
      <4> HIDE DEF L
      <4> QED
        BY <3>2
    <3>4. values'[r] = [m \in 1 .. L + 1 |->
                         [i \in 1 .. Len(plan[r][m]) |-> DpData(r)[plan[r][m][i]].id]]
      <4>1. values'[r] = [m \in 1 .. L + 1 |-> Ids(r)[m]]
        BY <1>7
      <4>2. \A m \in 1 .. L + 1 : m \in 1 .. Len(plan[r])
        <5> HIDE DEF L
        <5> QED
          BY <3>2
      <4> HIDE DEF L
      <4> QED
        BY <4>1, <4>2
    <3> HIDE DEF L
    <3> QED
      BY <1>1, <1>4, <3>1, <3>3, <3>4 DEF HasValues
  <2> QED
    BY <1>1, <2>1, <2>2, <2>3, <2>4 DEF RankOk
<1>9. DOMAIN at' = Rank /\ DOMAIN count' = Rank /\ DOMAIN plan' = Rank
  BY <1>1 DEF DispatchInv
<1> QED
  BY <1>1, <1>3, <1>8, <1>9, RankStep
-----------------------------------------------------------------------------
(* The return.                                                             *)

(* Different things are as many as their places. *)
LEMMA CountOfDifferent ==
  ASSUME NEW n \in Nat, NEW f, \A i, j \in 1 .. n : f[i] = f[j] => i = j,
         NEW T, T = {f[i] : i \in 1 .. n}
  PROVE  Cardinality(T) = n
<1> DEFINE S == 1 .. n
           h == [i \in S |-> f[i]]
<1>1. IsFiniteSet(S) /\ Cardinality(S) = n
  <2>1. 1 \in Int /\ n \in Int
    OBVIOUS
  <2>2. IsFiniteSet(1 .. n) /\ Cardinality(1 .. n) = IF 1 > n THEN 0 ELSE n - 1 + 1
    BY <2>1, FS_Interval
  <2> QED
    BY <2>2
<1>2. h \in Bijection(S, T)
  BY DEF Bijection, Injection, Surjection, IsInjective
<1> HIDE DEF S, h
<1> QED
  BY <1>1, <1>2, FS_Bijection DEF ExistsBijection

(* A function on places is a sequence. *)
LEMMA OfLength ==
  ASSUME NEW n \in Nat, NEW S, NEW s \in [1 .. n -> S]
  PROVE  s \in Seq(S) /\ Len(s) = n /\ DOMAIN s = 1 .. n /\ \A i \in 1 .. n : s[i] \in S
OBVIOUS

(* The ids of the rows of a data-parallel rank. *)
IdsOf(r) == [i \in 1 .. Rows1 |-> DpData(r)[i].id]

OutputOk(r) ==
  Output(r) = IF call.mode = "dp" THEN Share(IdsOf(r), SP, SpRank(r)) ELSE IdsOf(r)

(* They are those of the rows from its place on. *)
LEMMA IdsFacts ==
  ASSUME BatchOk, SourceOk, NEW r \in Rank
  PROVE  /\ IdsOf(r) \in Seq(Nat) /\ Len(IdsOf(r)) = Rows1
         /\ \A i \in 1 .. Rows1 : IdsOf(r)[i] = Source[DpRank(r) * Rows1 + i].id
<1>1. \A i \in 1 .. Rows1 : DpData(r)[i] \in AnyRow /\ DpData(r)[i] = Source[DpRank(r) * Rows1 + i]
  BY DataFacts
<1>2. Rows1 \in Nat
  BY SourceFacts
<1>3. \A i \in 1 .. Rows1 : DpData(r)[i].id \in Nat
  BY <1>1, RowType
<1>4. IdsOf(r) \in [1 .. Rows1 -> Nat]
  BY <1>3 DEF IdsOf
<1>5. \A i \in 1 .. Rows1 : IdsOf(r)[i] = Source[DpRank(r) * Rows1 + i].id
  BY <1>1 DEF IdsOf
<1> QED
  BY <1>2, <1>4, <1>5, OfLength

(* What a rank returns: the ids of its rows, in order, of which it keeps its
   share if the rows are those of its group. *)
LEMMA OutputFacts ==
  ASSUME BatchOk, SourceOk, NEW r \in Rank, HasPlan(r), HasValues(r),
         Len(values[r]) = Len(plan[r])
  PROVE  OutputOk(r)
<1> DEFINE n == Rows1
           f == IdsOf(r)
           micro == plan[r]
           vs == values[r]
           flat == FlattenSeq(micro)
           S == 1 .. n
<1>1. IsPlan(n, call.dynamic, micro) /\ n \in Nat
  BY PlanFacts, SourceFacts
<1>2. Len(flat) = n /\ Permutes(flat, n) /\ (~call.dynamic => flat = [t \in 1 .. n |-> t])
  BY <1>1 DEF IsPlan
<1>3. /\ micro \in Seq(Seq(S))
      /\ \A m \in 1 .. Len(micro) : \A i \in 1 .. Len(micro[m]) : micro[m][i] \in 1 .. n
  BY <1>1, PlanTypes
<1>4. Maps(vs, f, micro)
  <2>1. vs = [m \in 1 .. Len(micro) |->
               [i \in 1 .. Len(micro[m]) |-> DpData(r)[micro[m][i]].id]]
    BY DEF HasValues
  <2>2. \A m \in 1 .. Len(micro) :
          vs[m] = [i \in 1 .. Len(micro[m]) |-> DpData(r)[micro[m][i]].id]
    BY <2>1
  <2>3. ASSUME NEW m \in 1 .. Len(micro)
        PROVE  vs[m] = [i \in 1 .. Len(micro[m]) |-> f[micro[m][i]]]
    <3>1. \A i \in 1 .. Len(micro[m]) : f[micro[m][i]] = DpData(r)[micro[m][i]].id
      BY <1>3 DEF IdsOf
    <3> QED
      BY <2>2, <3>1
  <2>4. vs = [m \in 1 .. Len(micro) |-> vs[m]]
    BY <2>1
  <2> QED
    BY <2>3, <2>4 DEF Maps
<1> HIDE DEF n, micro, vs, S
<1>5. Selects(FlattenSeq(vs), f, flat)
  BY <1>3, <1>4, FlattenMapped
<1> DEFINE all == FlattenSeq(vs)
<1>6. all = [t \in 1 .. n |-> f[flat[t]]]
  BY <1>2, <1>5 DEF Selects
<1> HIDE DEF all
<1>7. f = [i \in 1 .. n |-> f[i]]
  BY DEF n, IdsOf
<1> HIDE DEF f
<1>8. call.dynamic => Restored(all, micro) = f
  <2>1. Restored(all, micro) = [i \in 1 .. n |-> f[i]]
    BY <1>1, <1>2, <1>5, RestoredRows DEF all
  <2> QED
    BY <1>7, <2>1
<1>9. ~call.dynamic => all = f
  <2> SUFFICES ASSUME ~call.dynamic PROVE all = f
    OBVIOUS
  <2>1. \A t \in 1 .. n : flat[t] = t
    BY <1>2
  <2>2. all = [t \in 1 .. n |-> f[t]]
    BY <1>6, <2>1
  <2> QED
    BY <1>7, <2>2
<1> QED
  BY <1>8, <1>9 DEF OutputOk, Output, all, micro, vs, f

(* The ids of what was divided. *)
SourceIds == [i \in 1 .. Len(Source) |-> Source[i].id]

(* There are as many. *)
LEMMA SourceIdsFacts ==
  ASSUME BatchOk, SourceOk
  PROVE  SourceIds \in Seq(Nat) /\ Len(SourceIds) = Len(Source) /\ Len(Source) \in Nat
<1>1. Source \in Seq(AnyRow) /\ Len(Source) \in Nat
  BY SourceFacts
<1>2. \A i \in 1 .. Len(Source) : Source[i].id \in Nat
  BY <1>1, InSeq, RowType
<1> QED
  BY <1>1, <1>2 DEF SourceIds

(* What the controller puts together. *)
Outputs ==
  [i \in 1 .. World |-> IF call.mode = "dp" \/ IsCollect(i - 1) THEN Output(i - 1) ELSE <<>>]

(* The outputs of all the ranks, each its own rows. *)
LEMMA AllOutputs ==
  ASSUME BatchOk, SourceOk, call.mode = "dp",
         \A r \in Rank : OutputOk(r)
  PROVE  FlattenSeq(Outputs) = SourceIds
<1> DEFINE outs == Outputs
           N == Len(Source)
           c == N \div World
           W == World
           ids == SourceIds
<1>1. /\ W \in Nat \ {0} /\ SP \in Nat \ {0} /\ DpSize \in Nat \ {0}
  BY RankFacts
<1>2. ids \in Seq(Nat) /\ Len(ids) = N /\ N \in Nat /\ \A i \in 1 .. N : ids[i] = Source[i].id
  BY SourceIdsFacts DEF SourceIds
<1>3. N % W = 0 /\ Rows1 \in Nat \ {0}
  BY SourceFacts DEF SourceOk
<1>4. c \in Nat /\ N = W * c /\ Rows1 = SP * c
  <2> HIDE DEF N
  <2>1. c \in Nat /\ N = W * c /\ N \div DpSize = SP * c
    BY <1>2, <1>3, DpDivides
  <2> QED
    BY <2>1 DEF Rows1, N
<1> HIDE DEF N, c, W, ids
<1>5. ASSUME NEW r \in Rank
      PROVE  /\ Output(r) \in Seq(Nat) /\ Len(Output(r)) = c
             /\ \A i \in 1 .. c : Output(r)[i] = Source[r * c + i].id
  <2> DEFINE f == IdsOf(r)
             j == SpRank(r)
             d == DpRank(r)
             M == Rows1
  <2>1. d \in Nat /\ j \in 0 .. SP - 1 /\ r = SP * d + j /\ r \in Nat
    BY RankFacts
  <2>3. M \in Nat /\ M = SP * c
    BY <1>3, <1>4
  <2>4. Output(r) = Share(f, SP, j)
    BY DEF OutputOk
  <2>6. f \in Seq(Nat) /\ Len(f) = M /\ \A i \in 1 .. M : f[i] = Source[d * M + i].id
    BY IdsFacts
  <2> HIDE DEF f, j, d, M
  <2>7. f \in Seq(Nat) /\ Len(f) = M
    BY <2>6
  <2>8. Len(f) % SP = 0 /\ c = Len(f) \div SP
    BY <1>1, <1>4, <2>3, <2>7, Multiple
  <2> DEFINE T == Nat
  <2>9. f \in Seq(T)
    BY <2>7
  <2> HIDE DEF T
  <2>10. Share(f, SP, j) \in Seq(T) /\ IsShare(Share(f, SP, j), f, j, c)
    BY <1>1, <2>1, <2>8, <2>9, ShareFacts
  <2>11. ASSUME NEW i \in 1 .. c PROVE Output(r)[i] = Source[r * c + i].id
    <3>1. Output(r)[i] = f[j * c + i] /\ j * c + i \in 1 .. M
      BY <2>4, <2>7, <2>10 DEF IsShare
    <3>2. f[j * c + i] = Source[d * M + (j * c + i)].id
      BY <2>6, <3>1
    <3>3. d * M + (j * c + i) = r * c + i
      <4>1. d \in Nat /\ j \in Nat /\ SP \in Nat /\ c \in Nat /\ i \in Nat
        BY <1>1, <1>4, <2>1
      <4>2. (SP * d + j) * c = d * (SP * c) + j * c
        BY <4>1
      <4>3. d * (SP * c) \in Nat /\ j * c \in Nat
        BY <4>1
      <4> QED
        BY <2>1, <2>3, <4>1, <4>2, <4>3
    <3> QED
      BY <3>1, <3>2, <3>3
  <2>12. Output(r) \in Seq(Nat) /\ Len(Output(r)) = c
    BY <2>4, <2>10 DEF IsShare, T
  <2> QED
    BY <2>11, <2>12
<1>6. /\ Len(outs) = W /\ \A g \in 1 .. W : g - 1 \in Rank /\ outs[g] = Output(g - 1)
      /\ outs = [g \in 1 .. W |-> outs[g]]
  BY <1>1 DEF W, Rank, Outputs
<1> HIDE DEF outs
<1>7. outs \in Seq(Seq(Nat))
  <2> DEFINE Q == Seq(Nat)
  <2> HIDE DEF Q
  <2>1. \A g \in 1 .. W : outs[g] \in Q
    BY <1>5, <1>6 DEF Q
  <2>2. outs \in [1 .. W -> Q]
    BY <1>6, <2>1
  <2>3. outs \in Seq(Q)
    BY <1>1, <2>2, OfLength
  <2> QED
    BY <2>3 DEF Q
<1>8. Fills(ids, outs)
  <2> DEFINE v == PartLengths(outs)
  <2>1. Len(v) = W /\ \A g \in 1 .. W : v[g] = c
    <3>1. \A g \in 1 .. W : Len(outs[g]) = c
      BY <1>5, <1>6
    <3> QED
      BY <1>1, <1>6, <3>1 DEF PartLengths
  <2> HIDE DEF v
  <2>2. \A g \in 0 .. W : Before(v, g + 1) = g * c
    BY <1>1, <1>4, <2>1, BeforeEqual
  <2>3. Len(ids) = Before(v, Len(outs) + 1)
    BY <1>1, <1>2, <1>4, <1>6, <2>2
  <2>4. ASSUME NEW g \in 1 .. Len(outs), NEW i \in 1 .. Len(outs[g])
        PROVE  ids[Before(v, g) + i] = outs[g][i]
    <3>1. g \in 1 .. W /\ g - 1 \in 0 .. W /\ g - 1 \in Nat /\ (g - 1) + 1 = g
      BY <1>1, <1>6
    <3>2. i \in 1 .. c /\ outs[g][i] = Source[(g - 1) * c + i].id
      BY <1>5, <1>6, <3>1
    <3>3. Before(v, g) = (g - 1) * c
      BY <2>2, <3>1
    <3>4. (g - 1) * c + c <= W * c /\ (g - 1) * c \in Nat
      <4>1. g - 1 < W /\ W \in Nat
        BY <1>1, <3>1
      <4> QED
        BY <1>4, <3>1, <4>1, MulMono
    <3>5. (g - 1) * c + i \in 1 .. N
      BY <1>2, <1>4, <3>2, <3>4
    <3> QED
      BY <1>2, <3>2, <3>3, <3>5
  <2> QED
    BY <2>3, <2>4 DEF Fills, v
<1> QED
  BY <1>2, <1>7, <1>8, FlattenIs DEF ids, outs

(* How many ranks before rank r are the first of their group. *)
FirstsBefore(r) == IF r % SP = 0 THEN r \div SP ELSE r \div SP + 1

(* Every SP-th rank is the first of a group. *)
LEMMA FirstsFacts ==
  /\ FirstsBefore(0) = 0 /\ FirstsBefore(World) = DpSize
  /\ \A r \in Rank :
       /\ FirstsBefore(r) \in Nat
       /\ r % SP = 0 => FirstsBefore(r) = DpRank(r)
       /\ FirstsBefore(r + 1) = FirstsBefore(r) + (IF r % SP = 0 THEN 1 ELSE 0)
<1>1. SP \in Nat \ {0} /\ DpSize \in Nat \ {0} /\ World = SP * DpSize
  BY RankFacts
<1> DEFINE P == SP
<1>2. P \in Nat \ {0}
  BY <1>1
<1> HIDE DEF P
<1>3. ASSUME NEW d \in Nat, NEW j \in 0 .. P - 1
      PROVE  (d * P + j) \div P = d /\ (d * P + j) % P = j
  <2> DEFINE a == d * P + j
  <2>1. a \in Nat
    BY <1>2
  <2>2. a \div P = d
    BY <1>2, DivOfSum
  <2>3. a = P * (a \div P) + (a % P)
    <3> HIDE DEF a
    <3> QED
      BY <1>2, <2>1
  <2>4. a % P \in Nat
    <3> HIDE DEF a
    <3> QED
      BY <1>2, <2>1
  <2>5. P * d = d * P /\ d * P \in Nat
    BY <1>2
  <2> QED
    BY <2>2, <2>3, <2>4, <2>5
<1>4. FirstsBefore(0) = 0
  <2>1. (0 * P + 0) \div P = 0 /\ (0 * P + 0) % P = 0
    BY <1>2, <1>3
  <2>2. 0 * P + 0 = 0
    BY <1>2
  <2> QED
    BY <2>1, <2>2 DEF FirstsBefore, P
<1>5. FirstsBefore(World) = DpSize
  <2>1. (DpSize * P + 0) \div P = DpSize /\ (DpSize * P + 0) % P = 0
    BY <1>1, <1>2, <1>3
  <2>2. DpSize * P + 0 = World
    BY <1>1 DEF P
  <2> QED
    BY <2>1, <2>2 DEF FirstsBefore, P
<1>6. ASSUME NEW r \in Rank
      PROVE  /\ FirstsBefore(r) \in Nat
             /\ r % SP = 0 => FirstsBefore(r) = DpRank(r)
             /\ FirstsBefore(r + 1) = FirstsBefore(r) + (IF r % SP = 0 THEN 1 ELSE 0)
  <2> DEFINE d == DpRank(r)
             j == SpRank(r)
  <2>1. d \in Nat /\ j \in 0 .. P - 1 /\ r = P * d + j /\ P * d = d * P /\ d * P \in Nat
    BY <1>2, RankFacts DEF P
  <2>2. d = r \div P /\ j = r % P
    BY DEF DpRank, SpRank, P
  <2> HIDE DEF d, j
  <2>3. FirstsBefore(r) = IF j = 0 THEN d ELSE d + 1
    BY <2>2 DEF FirstsBefore, P
  <2>4. CASE j + 1 < P
    <3>1. r + 1 = d * P + (j + 1) /\ j + 1 \in 0 .. P - 1
      BY <1>2, <2>1, <2>4
    <3>2. (r + 1) \div P = d /\ (r + 1) % P = j + 1
      BY <1>3, <2>1, <3>1
    <3>3. FirstsBefore(r + 1) = d + 1
      BY <2>1, <3>2 DEF FirstsBefore, P
    <3> QED
      BY <2>1, <2>2, <2>3, <3>3 DEF P, d
  <2>5. CASE j + 1 = P
    <3>1. (d + 1) * P = d * P + P
      BY <1>2, <2>1
    <3>2. r + 1 = (d + 1) * P + 0 /\ 0 \in 0 .. P - 1 /\ d + 1 \in Nat
      <4> DEFINE x == d * P
                 y == (d + 1) * P
      <4>1. x \in Nat /\ y = x + P /\ r = x + j
        BY <2>1, <3>1
      <4> HIDE DEF x, y
      <4>2. r + 1 = y + 0
        BY <1>2, <2>1, <2>5, <4>1
      <4> QED
        BY <1>2, <2>1, <4>2 DEF y
    <3>3. (r + 1) \div P = d + 1 /\ (r + 1) % P = 0
      BY <1>3, <3>2
    <3>4. FirstsBefore(r + 1) = d + 1
      BY <3>3 DEF FirstsBefore, P
    <3> QED
      BY <2>1, <2>2, <2>3, <3>4 DEF P, d
  <2>6. j + 1 < P \/ j + 1 = P
    BY <1>2, <2>1
  <2> QED
    BY <2>4, <2>5, <2>6
<1> QED
  BY <1>4, <1>5, <1>6

(* The outputs of one rank of each group, all the rows of the group. *)
LEMMA CollectedOutputs ==
  ASSUME BatchOk, SourceOk, call.mode # "dp", \A r \in Rank : OutputOk(r)
  PROVE  FlattenSeq(Outputs) = SourceIds
<1> DEFINE outs == Outputs
           N == Len(Source)
           W == World
           ids == SourceIds
           m == Rows1
<1>1. W \in Nat \ {0} /\ SP \in Nat \ {0} /\ DpSize \in Nat \ {0}
  BY RankFacts
<1>2. ids \in Seq(Nat) /\ Len(ids) = N /\ N \in Nat /\ \A i \in 1 .. N : ids[i] = Source[i].id
  BY SourceIdsFacts DEF SourceIds
<1>3. m \in Nat \ {0} /\ N = DpSize * m
  BY SourceFacts
<1> DEFINE Kept(r) == IF r % SP = 0 THEN m ELSE 0
<1>4. /\ Len(outs) = W /\ outs = [g \in 1 .. W |-> outs[g]]
      /\ \A g \in 1 .. W : /\ g - 1 \in Rank
                           /\ outs[g] = IF (g - 1) % SP = 0 THEN Output(g - 1) ELSE <<>>
  BY <1>1 DEF W, Rank, Outputs, IsCollect, SpRank
<1> HIDE DEF N, W, ids, m, outs
<1>5. ASSUME NEW g \in 1 .. W
      PROVE  /\ outs[g] \in Seq(Nat) /\ Len(outs[g]) = Kept(g - 1)
             /\ \A i \in 1 .. Kept(g - 1) : outs[g][i] = Source[DpRank(g - 1) * m + i].id
  <2>1. g - 1 \in Rank
    BY <1>4
  <2>2. CASE (g - 1) % SP = 0
    <3> DEFINE r == g - 1
    <3>1. outs[g] = IdsOf(r) /\ r \in Rank
      BY <1>4, <2>1, <2>2 DEF OutputOk
    <3>2. Kept(g - 1) = m
      BY <2>2
    <3> HIDE DEF r
    <3>3. /\ IdsOf(r) \in Seq(Nat) /\ Len(IdsOf(r)) = m
          /\ \A i \in 1 .. m : IdsOf(r)[i] = Source[DpRank(r) * m + i].id
      BY <3>1, IdsFacts DEF m
    <3> QED
      BY <3>1, <3>2, <3>3 DEF r
  <2>3. CASE (g - 1) % SP # 0
    <3>1. outs[g] = <<>> /\ Kept(g - 1) = 0
      BY <1>4, <2>3
    <3> QED
      BY <3>1
  <2> QED
    BY <2>2, <2>3
<1>6. outs \in Seq(Seq(Nat))
  <2> DEFINE Q == Seq(Nat)
  <2>1. \A g \in 1 .. W : outs[g] \in Q
    BY <1>5
  <2> HIDE DEF Q
  <2>2. outs \in [1 .. W -> Q]
    BY <1>4, <2>1
  <2>3. outs \in Seq(Q)
    BY <1>1, <2>2, OfLength
  <2> QED
    BY <2>3 DEF Q
<1>7. Fills(ids, outs)
  <2> DEFINE v == PartLengths(outs)
             G == {g \in 0 .. W : Before(v, g + 1) = FirstsBefore(g) * m}
  <2>1. Len(v) = W /\ \A g \in 1 .. W : v[g] = Kept(g - 1)
    BY <1>1, <1>4, <1>5 DEF PartLengths
  <2> HIDE DEF v
  <2>2. \A g \in 1 .. W : v[g] \in Nat
    BY <1>3, <2>1
  <2>3. Before(v, 1) = 0 /\ \A g \in 1 .. W : Before(v, g + 1) = Before(v, g) + v[g]
    BY <1>1, <2>1, <2>2, BeforeDef
  <2>4. 0 \in G
    <3>1. FirstsBefore(0) = 0
      BY FirstsFacts
    <3> QED
      BY <1>1, <1>3, <2>3, <3>1
  <2>5. ASSUME NEW g \in 0 .. W - 1, g \in G PROVE g + 1 \in G
    <3>1. g + 1 \in 1 .. W /\ (g + 1) - 1 = g /\ g \in Rank /\ g + 1 \in 0 .. W
      BY <1>1 DEF Rank, W
    <3>2. Before(v, (g + 1) + 1) = FirstsBefore(g) * m + Kept(g)
      BY <2>1, <2>3, <2>5, <3>1
    <3>3. /\ FirstsBefore(g) \in Nat
          /\ FirstsBefore(g + 1) = FirstsBefore(g) + (IF g % SP = 0 THEN 1 ELSE 0)
      BY <3>1, FirstsFacts
    <3> DEFINE a == FirstsBefore(g)
               b == FirstsBefore(g + 1)
    <3>4. b * m = a * m + Kept(g)
      <4>1. a \in Nat /\ b = a + (IF g % SP = 0 THEN 1 ELSE 0)
        BY <3>3
      <4> HIDE DEF a, b
      <4>2. CASE g % SP = 0
        <5>1. b = a + 1 /\ Kept(g) = m
          BY <4>1, <4>2
        <5>2. (a + 1) * m = a * m + m
          BY <1>3, <4>1
        <5> QED
          BY <5>1, <5>2
      <4>3. CASE g % SP # 0
        <5>1. b = a /\ Kept(g) = 0 /\ a * m \in Nat
          BY <1>3, <4>1, <4>3
        <5> QED
          BY <5>1
      <4> QED
        BY <4>2, <4>3
    <3> QED
      BY <3>1, <3>2, <3>4
  <2>6. \A g \in 0 .. W : g \in G
    <3> HIDE DEF G
    <3>1. W \in Nat /\ 0 \in Nat
      BY <1>1
    <3>2. 0 .. W \subseteq G
      BY <2>4, <2>5, <3>1, Induction
    <3> QED
      BY <3>2
  <2>7. Len(ids) = Before(v, Len(outs) + 1)
    <3>1. Before(v, W + 1) = FirstsBefore(W) * m
      <4>1. W \in 0 .. W
        BY <1>1
      <4> QED
        BY <2>6, <4>1
    <3>2. FirstsBefore(W) = DpSize
      BY FirstsFacts DEF W
    <3> QED
      BY <1>2, <1>3, <1>4, <3>1, <3>2
  <2>8. ASSUME NEW g \in 1 .. Len(outs), NEW i \in 1 .. Len(outs[g])
        PROVE  ids[Before(v, g) + i] = outs[g][i]
    <3> DEFINE r == g - 1
               d == DpRank(g - 1)
    <3>1. g \in 1 .. W /\ r \in 0 .. W /\ r + 1 = g /\ r \in Rank
      BY <1>1, <1>4
    <3>2. i \in 1 .. Kept(r) /\ outs[g][i] = Source[d * m + i].id
      BY <1>5, <3>1
    <3>3. r % SP = 0 /\ i \in 1 .. m
      BY <3>2
    <3>4. Before(v, g) = d * m
      <4> HIDE DEF r
      <4>1. Before(v, r + 1) = FirstsBefore(r) * m
        BY <2>6, <3>1
      <4>2. FirstsBefore(r) = DpRank(r)
        BY <3>1, <3>3, FirstsFacts
      <4> QED
        BY <3>1, <4>1, <4>2 DEF r
    <3>5. d * m + i \in 1 .. N
      <4> HIDE DEF r
      <4>1. DpRank(r) * m + i \in 1 .. N
        BY <3>1, <3>3, DataFacts DEF m, N
      <4> QED
        BY <4>1 DEF r
    <3> HIDE DEF d, r
    <3> QED
      BY <1>2, <3>2, <3>4, <3>5
  <2> QED
    BY <2>7, <2>8 DEF Fills, v
<1> QED
  BY <1>2, <1>6, <1>7, FlattenIs DEF ids, outs

(* The controller has the rows of the caller without the padding. *)
LEMMA CollectStep ==
  ASSUME DispatchInv, Collect
  PROVE  DispatchInv'
<1>1. /\ status = "sent" /\ status' = "returned"
      /\ \A r \in Rank : at[r] = "run" /\ Ran(r) = Len(plan[r])
      /\ batch' = batch /\ call' = call /\ data' = data /\ at' = at /\ count' = count
      /\ plan' = plan /\ values' = values
      /\ result' = Unpadded(FlattenSeq(Outputs))
  BY DEF Collect, rankVars, Outputs
<1>2. BatchOk /\ SourceOk /\ \A q \in Rank : RankOk(q)
  BY <1>1 DEF DispatchInv
<1>3. \A r \in Rank : OutputOk(r)
  <2> SUFFICES ASSUME NEW r \in Rank PROVE OutputOk(r)
    OBVIOUS
  <2>1. HasPlan(r) /\ HasValues(r)
    BY <1>1, <1>2 DEF RankOk
  <2>2. Len(values[r]) = Len(plan[r])
    BY <1>1 DEF Ran
  <2> QED
    BY <1>2, <2>1, <2>2, OutputFacts
<1>4. FlattenSeq(Outputs) = SourceIds
  <2>1. CASE call.mode = "dp"
    BY <1>2, <1>3, <2>1, AllOutputs
  <2>2. CASE call.mode # "dp"
    BY <1>2, <1>3, <2>2, CollectedOutputs
  <2> QED
    BY <2>1, <2>2
<1> DEFINE n == Own
           ids == SourceIds
           N == Len(Source)
<1>5. /\ ids \in Seq(Nat) /\ Len(ids) = N /\ N \in Nat
      /\ \A i \in 1 .. N : ids[i] = Source[i].id
  BY <1>2, SourceIdsFacts DEF SourceIds
<1>6. /\ n \in Nat \ {0} /\ N = n + call.pad /\ call.pad \in Nat
      /\ \A i \in 1 .. n : Source[i] = batch[i]
  BY <1>2, SourceFacts DEF SourceOk
<1>7. result' = SubSeq(ids, 1, n)
  <2>1. result' = SubSeq(ids, 1, Len(ids) - call.pad)
    BY <1>1, <1>4 DEF Unpadded
  <2> HIDE DEF ids, N, n
  <2>2. Len(ids) - call.pad = n
    BY <1>5, <1>6
  <2> QED
    BY <2>1, <2>2
<1> HIDE DEF ids, N, n
<1>8. Len(result') = n /\ \A i \in 1 .. n : result'[i] = batch[i].id
  <2> DEFINE lo == 1
  <2>1. lo \in 1 .. Len(ids) + 1 /\ n \in lo - 1 .. Len(ids) /\ lo = 1
    BY <1>5, <1>6
  <2> DEFINE T == Nat
  <2>2. ids \in Seq(T)
    BY <1>5
  <2> HIDE DEF lo, T
  <2>3. /\ SubSeq(ids, lo, n) \in Seq(T) /\ Len(SubSeq(ids, lo, n)) = n - lo + 1
        /\ \A k \in 1 .. n - lo + 1 : SubSeq(ids, lo, n)[k] = ids[lo + k - 1]
    BY <2>1, <2>2, SubSeqFacts
  <2>4. Len(result') = n
    BY <1>6, <1>7, <2>1, <2>3
  <2>5. ASSUME NEW i \in 1 .. n PROVE result'[i] = batch[i].id
    <3>1. i \in 1 .. n - lo + 1 /\ lo + i - 1 = i /\ i \in 1 .. N
      BY <1>6, <2>1
    <3>2. result'[i] = ids[i]
      BY <1>7, <2>1, <2>3, <3>1
    <3> QED
      BY <1>5, <1>6, <3>1, <3>2
  <2> QED
    BY <2>4, <2>5
<1>9. Cardinality({batch[i].id : i \in DOMAIN batch}) = n
  <2> DEFINE T == {batch[i].id : i \in DOMAIN batch}
             f == [i \in 1 .. n |-> batch[i].id]
  <2>1. /\ batch \in Seq(AnyRow) /\ n \in 1 .. Len(batch) /\ Len(batch) \in Nat
        /\ \A i, j \in 1 .. n : batch[i].id = batch[j].id => i = j
        /\ \A i \in n + 1 .. Len(batch) : batch[i] = batch[n]
    BY <1>2 DEF BatchOk, n
  <2>2. DOMAIN batch = 1 .. Len(batch)
    BY <2>1, InSeq
  <2>3. T = {f[i] : i \in 1 .. n}
    <3>1. \A i \in 1 .. n : i \in DOMAIN batch /\ f[i] = batch[i].id
      BY <2>1, <2>2
    <3>2. ASSUME NEW i \in DOMAIN batch PROVE \E j \in 1 .. n : f[j] = batch[i].id
      <4>1. CASE i \in 1 .. n
        BY <4>1
      <4>2. CASE i \in n + 1 .. Len(batch)
        BY <2>1, <4>2
      <4>3. i \in 1 .. n \/ i \in n + 1 .. Len(batch)
        BY <2>1, <2>2
      <4> QED
        BY <4>1, <4>2, <4>3
    <3> HIDE DEF f
    <3> QED
      BY <3>1, <3>2
  <2>4. n \in Nat /\ \A i, j \in 1 .. n : f[i] = f[j] => i = j
    BY <1>6, <2>1
  <2> HIDE DEF f, T
  <2>5. Cardinality(T) = n
    BY <2>3, <2>4, CountOfDifferent
  <2> QED
    BY <2>5 DEF T
<1>10. RowsReturned'
  <2>1. result' \in Seq(Nat) \/ DOMAIN result' = 1 .. n
    BY <1>5, <1>6, <1>7
  <2>2. DOMAIN result' = 1 .. n
    BY <1>8, <2>1, InSeq
  <2> QED
    BY <1>1, <1>8, <1>9, <2>2 DEF RowsReturned
<1>11. RanksBalanced'
  BY <1>1 DEF RanksBalanced
<1>12. BatchOk' /\ SourceOk'
  BY <1>1, <1>2 DEF BatchOk, Own, SourceOk, Source
<1>13. ASSUME NEW r \in Rank PROVE RankOk(r)'
  <2>1. Source' = Source
    BY <1>1 DEF Source
  <2>2. Rows1' = Rows1 /\ DpData(r)' = DpData(r)
    BY <2>1 DEF Rows1, DpData
  <2>3. HasData(r)' <=> HasData(r)
    BY <1>1, <2>1, <2>2 DEF HasData
  <2>4. HasPlan(r)' <=> HasPlan(r)
    BY <1>1, <2>2 DEF HasPlan
  <2>5. HasValues(r)' <=> HasValues(r)
    BY <1>1, <2>2 DEF HasValues
  <2> QED
    BY <1>1, <1>2, <2>2, <2>3, <2>4, <2>5 DEF RankOk
<1>14. DOMAIN at' = Rank /\ DOMAIN count' = Rank /\ DOMAIN plan' = Rank
  BY <1>1 DEF DispatchInv
<1> QED
  BY <1>1, <1>10, <1>11, <1>12, <1>13, <1>14 DEF DispatchInv
-----------------------------------------------------------------------------
(* All the steps.                                                          *)

(* A row that is added to a micro-batch of the other part changes nothing. *)
LEMMA DispatchStill ==
  ASSUME DispatchInv, UNCHANGED dispatchVars
  PROVE  DispatchInv'
<1>1. /\ batch' = batch /\ call' = call /\ status' = status /\ data' = data /\ at' = at
      /\ count' = count /\ plan' = plan /\ values' = values /\ result' = result
  BY DEF dispatchVars
<1>2. Source' = Source /\ Own' = Own
  BY <1>1 DEF Source, Own
<1>3. Rows1' = Rows1 /\ \A r \in Rank : DpData(r)' = DpData(r)
  BY <1>2 DEF Rows1, DpData
<1>4. (BatchOk' <=> BatchOk) /\ (SourceOk' <=> SourceOk) /\ (Unused' <=> Unused)
  BY <1>1, <1>2 DEF BatchOk, SourceOk, Unused
<1>5. ASSUME NEW r \in Rank PROVE RankOk(r)' <=> RankOk(r)
  <2>1. HasData(r)' <=> HasData(r)
    BY <1>1, <1>2, <1>3 DEF HasData
  <2>2. HasPlan(r)' <=> HasPlan(r)
    BY <1>1, <1>3 DEF HasPlan
  <2>3. HasValues(r)' <=> HasValues(r)
    BY <1>1, <1>3 DEF HasValues
  <2> QED
    BY <1>1, <1>3, <2>1, <2>2, <2>3 DEF RankOk
<1>6. RanksBalanced' /\ RowsReturned'
  BY <1>1 DEF DispatchInv, RanksBalanced, RowsReturned
<1> QED
  BY <1>1, <1>4, <1>5, <1>6 DEF DispatchInv

(* One case per action of DispatchNext. *)
LEMMA DispatchSteps ==
  ASSUME DispatchInv, DispatchNext
  PROVE  DispatchInv'
<1>1. ASSUME NEW n \in Sizes, NEW lens \in [1 .. n -> Lengths], NewBatch(lens)
      PROVE  DispatchInv'
  BY <1>1, NewBatchStep
<1>2. CASE BalanceBatch
  BY <1>2, BalanceStep
<1>3. CASE DispatchPadded
  BY <1>3, PaddedStep
<1>4. ASSUME NEW dynamic \in BOOLEAN, DispatchNd(dynamic) PROVE DispatchInv'
  BY <1>4, NdStep
<1>5. ASSUME NEW dynamic \in BOOLEAN, DispatchAutoPadded(dynamic) PROVE DispatchInv'
  BY <1>5, AutoPaddedStep
<1>6. CASE AllReduce
  BY <1>6, AllReduceStep
<1>7. CASE Forward
  BY <1>7, ForwardStep
<1>8. CASE Collect
  BY <1>8, CollectStep
<1>9. ASSUME NEW r \in Rank, Gather(r) PROVE DispatchInv'
  BY <1>9, GatherStep
<1>10. ASSUME NEW r \in Rank, Split(r) PROVE DispatchInv'
  BY <1>10, SplitStep
<1> QED
  BY <1>1, <1>2, <1>3, <1>4, <1>5, <1>6, <1>7, <1>8, <1>9, <1>10 DEF DispatchNext, CallStep

(* In every state of a call the ranks have what DispatchInv says. *)
LEMMA DispatchInvariant == Spec => []DispatchInv
<1>1. Init => DispatchInv
  <2> SUFFICES ASSUME DispatchInit PROVE DispatchInv
    BY DEF Init
  <2>1. Unused /\ call = NoCall /\ status = "idle"
    BY DEF DispatchInit, Unused
  <2> QED
    BY <2>1 DEF DispatchInit, DispatchInv, RanksBalanced, RowsReturned
<1>2. DispatchInv /\ [Next]_vars => DispatchInv'
  <2> SUFFICES ASSUME DispatchInv, [Next]_vars PROVE DispatchInv'
    OBVIOUS
  <2>1. CASE DispatchNext
    BY <2>1, DispatchSteps
  <2>2. CASE UNCHANGED dispatchVars
    BY <2>2, DispatchStill
  <2>3. DispatchNext \/ UNCHANGED dispatchVars
    BY DEF Next, AddRow, vars
  <2> QED
    BY <2>1, <2>2, <2>3
<1> QED
  BY <1>1, <1>2, PTL DEF Spec

(***************************************************************************)
(* The value of each row of a batch, and of no other, comes back in its    *)
(* place, however the rows were ordered, padded, shared out over any       *)
(* number of ranks and groups, and cut into micro-batches.                 *)
(***************************************************************************)
THEOREM RowsComeBack == Spec => []RowsReturned
<1>1. DispatchInv => RowsReturned
  BY DEF DispatchInv
<1> QED
  BY <1>1, DispatchInvariant, PTL

(***************************************************************************)
(* The partitions into micro-batches never fail an assertion.              *)
(***************************************************************************)
THEOREM NoRankEverRaises == Spec => []NoRankRaises
<1>1. DispatchInv => NoRankRaises
  <2> SUFFICES ASSUME DispatchInv, NEW r \in Rank PROVE at[r] # "raised"
    BY DEF NoRankRaises
  <2>1. CASE Unused
    BY <2>1 DEF Unused
  <2>2. CASE RankOk(r)
    BY <2>2 DEF RankOk
  <2> QED
    BY <2>1, <2>2 DEF DispatchInv
<1> QED
  BY <1>1, DispatchInvariant, PTL

(***************************************************************************)
(* After _balance_batch the work of the data-parallel ranks is as close as *)
(* the workloads next to each other in order are.                          *)
(***************************************************************************)
THEOREM RanksAreBalanced == Spec => []RanksBalanced
<1>1. DispatchInv => RanksBalanced
  BY DEF DispatchInv
<1> QED
  BY <1>1, DispatchInvariant, PTL

(***************************************************************************)
(* The micro-batches of a rank are as close in work as its longest row.    *)
(***************************************************************************)
THEOREM MicroBatchesAreBalanced == Spec => []MicroBatchesBalanced
<1>1. DispatchInv => MicroBatchesBalanced
  <2> SUFFICES ASSUME DispatchInv, NEW r \in Rank, call.dynamic, plan[r] # <<>>
               PROVE  LET w == Workloads(data[r])
                      IN  \A p, q \in DOMAIN plan[r] :
                            Total(w, plan[r][p]) - Total(w, plan[r][q]) <= Max(Range(w))
    BY DEF MicroBatchesBalanced
  <2>1. ~Unused
    BY DEF Unused
  <2>2. BatchOk /\ SourceOk /\ RankOk(r)
    BY <2>1 DEF DispatchInv
  <2>3. at[r] = "run" /\ HasPlan(r)
    BY <2>2 DEF RankOk
  <2>4. data[r] = DpData(r) /\ data[r] \in Seq(AnyRow) /\ Len(data[r]) = Rows1
    BY <2>2, <2>3, RowsOfRank
  <2> DEFINE w == Workloads(data[r])
             num == count[r]
  <2>5. IsWork(w) /\ Len(w) = Rows1
    BY <2>4, WorkOfRows
  <2>6. num \in 1 .. Rows1 /\ plan[r] = MicroBatches(w, num)
    BY <2>3, <2>4 DEF HasPlan
  <2> HIDE DEF w, num
  <2>7. /\ IsPartition(Len(w), num, MicroBatches(w, num))
        /\ \A p, q \in 1 .. num :
             Total(w, MicroBatches(w, num)[p]) - Total(w, MicroBatches(w, num)[q])
               <= Max(Range(w))
    BY <2>5, <2>6, MicroBatchesFacts
  <2>8. DOMAIN plan[r] = 1 .. num
    <3>1. MicroBatches(w, num) = [p \in 1 .. num |-> MicroBatches(w, num)[p]]
      BY <2>7 DEF IsPartition
    <3> QED
      BY <2>6, <3>1
  <2> QED
    BY <2>6, <2>7, <2>8 DEF w
<1> QED
  BY <1>1, DispatchInvariant, PTL

=============================================================================
