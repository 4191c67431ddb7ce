-------------------------- MODULE DualKVPackProofs --------------------------
(***************************************************************************)
(* Packing shared prompts does not change the log-probs: the DualKV path   *)
(* (repack_batch, the kernel's attention, _dualkv_extract_logprobs) gives  *)
(* the rows what the standard path gives them, for any number of rows, any *)
(* lengths and any groups of rows that have one prompt, and                *)
(* _compute_prompt_group_sizes finds such groups.                          *)
(*                                                                         *)
(* The argument: Before(sizes, g) is where the rows of group g begin and   *)
(* SegmentAt(sizes, g, i) where its segments do; so the logits at the      *)
(* offset of a segment are those of its tokens, the context of each is the *)
(* prompt of its group and the response of its row, and the label of each  *)
(* is the row's next token.                                                *)
(***************************************************************************)
EXTENDS DualKVPack, Division

-----------------------------------------------------------------------------
(* Sequences, and where the parts of a flattened one are.                  *)

(* The elements of s \o t. *)
LEMMA Concatenation ==
  ASSUME NEW S, NEW s \in Seq(S), NEW t \in Seq(S)
  PROVE  /\ s \o t \in Seq(S)
         /\ Len(s \o t) = Len(s) + Len(t)
         /\ \A k \in 1 .. Len(s) : (s \o t)[k] = s[k]
         /\ \A k \in 1 .. Len(t) : (s \o t)[Len(s) + k] = t[k]
OBVIOUS

(* Before(v, g), which the code computes by running sums, adds up v[1] .. v[g
   - 1]. *)
LEMMA BeforeDef ==
  ASSUME NEW v, Len(v) \in Nat, \A k \in 1 .. Len(v) : v[k] \in Nat
  PROVE  /\ Before(v, 1) = 0
         /\ \A g \in 1 .. Len(v) : Before(v, g + 1) = Before(v, g) + v[g]
         /\ \A g \in 1 .. Len(v) + 1 : Before(v, g) \in Nat
<1> DEFINE n == Len(v)
<1>0. n \in Nat /\ n = Len(v) /\ \A k \in 1 .. n : v[k] \in Nat
  OBVIOUS
<1> HIDE DEF n
<1> DEFINE Op == [k \in 1 .. n |-> [x \in Nat |-> x + v[k]]]
           IsSum(f) == f = [k \in 0 .. n |-> IF k = 0 THEN 0 ELSE f[k - 1] + v[k]]
           sum == CHOOSE f : IsSum(f)
<1>1. Op \in [1 .. n -> [Nat -> Nat]]
  BY <1>0
<1>2. ASSUME NEW k \in 1 .. n, NEW y \in Nat PROVE Op[k][y] = y + v[k]
  BY <1>0
<1> HIDE DEF Op
<1>3. PICK f \in [0 .. n -> Nat] : f[0] = 0 /\ \A i \in 1 .. n : f[i] = Op[i][f[i - 1]]
  <2>1. Computed(n, Nat, 0, Op)
    BY <1>0, <1>1, Recursion
  <2> QED
    BY <2>1 DEF Computed
<1>4. ASSUME NEW k \in 1 .. n PROVE f[k] = f[k - 1] + v[k]
  <2>1. k - 1 \in 0 .. n
    BY <1>0
  <2>2. f[k - 1] \in Nat
    BY <1>3, <2>1
  <2>3. Op[k][f[k - 1]] = f[k - 1] + v[k]
    BY <1>2, <2>2
  <2> QED
    BY <1>3, <2>3
<1>5. IsSum(f)
  BY <1>3, <1>4
<1>6. IsSum(sum)
  <2> HIDE DEF IsSum
  <2> QED
    BY <1>5
<1>7. \A g : Before(v, g) = sum[g - 1]
  BY DEF Before, n
<1> HIDE DEF sum
<1>8. sum[0] = 0 /\ \A k \in 1 .. n : sum[k] = sum[k - 1] + v[k]
  <2>1. 0 \in 0 .. n
    BY <1>0
  <2>2. ASSUME NEW k \in 1 .. n PROVE sum[k] = sum[k - 1] + v[k]
    <3>1. k \in 0 .. n /\ k # 0
      BY <1>0
    <3> QED
      BY <1>6, <3>1
  <2> QED
    BY <1>6, <2>1, <2>2
<1>9. \A k \in 0 .. n : sum[k] \in Nat
  <2> DEFINE G == {k \in 0 .. n : sum[k] \in Nat}
  <2>1. 0 \in G
    BY <1>0, <1>8
  <2>2. ASSUME NEW k \in 0 .. n - 1, k \in G PROVE k + 1 \in G
    <3>1. k + 1 \in 1 .. n /\ (k + 1) - 1 = k
      BY <1>0
    <3>2. sum[k + 1] = sum[k] + v[k + 1]
      BY <1>8, <3>1
    <3> QED
      BY <1>0, <2>2, <3>1, <3>2
  <2> HIDE DEF G
  <2>3. 0 .. n \subseteq G
    BY <1>0, <2>1, <2>2, Induction
  <2> QED
    BY <2>3 DEF G
<1>10. Before(v, 1) = 0
  BY <1>7, <1>8
<1>11. ASSUME NEW g \in 1 .. n PROVE Before(v, g + 1) = Before(v, g) + v[g]
  <2>1. Before(v, g + 1) = sum[g]
    <3>1. (g + 1) - 1 = g
      BY <1>0
    <3> QED
      BY <1>7, <3>1
  <2> QED
    BY <1>7, <1>8, <2>1
<1>12. ASSUME NEW g \in 1 .. n + 1 PROVE Before(v, g) \in Nat
  <2>1. g - 1 \in 0 .. n
    BY <1>0
  <2> QED
    BY <1>7, <1>9, <2>1
<1> QED
  BY <1>0, <1>10, <1>11, <1>12

(* The sums do not decrease. *)
LEMMA BeforeMono ==
  ASSUME NEW v, Len(v) \in Nat, \A k \in 1 .. Len(v) : v[k] \in Nat,
         NEW g \in 1 .. Len(v) + 1, NEW h \in g .. Len(v) + 1
  PROVE  Before(v, g) <= Before(v, h)
<1> DEFINE n == Len(v)
           B(k) == Before(v, k)
<1>1. n \in Nat /\ g \in 1 .. n + 1 /\ h \in g .. n + 1
  OBVIOUS
<1>2. /\ \A k \in 1 .. n : B(k + 1) = B(k) + v[k] /\ v[k] \in Nat
      /\ \A k \in 1 .. n + 1 : B(k) \in Nat
  BY BeforeDef
<1> HIDE DEF B, n
<1> DEFINE G == {k \in g .. n + 1 : B(g) <= B(k)}
<1>3. g \in G
  BY <1>1, <1>2
<1>4. ASSUME NEW k \in g .. (n + 1) - 1, k \in G PROVE k + 1 \in G
  <2>1. k \in 1 .. n /\ k \in 1 .. n + 1 /\ k + 1 \in g .. n + 1
    BY <1>1
  <2>2. B(k + 1) = B(k) + v[k] /\ v[k] \in Nat /\ B(k) \in Nat /\ B(g) \in Nat
    BY <1>1, <1>2, <2>1
  <2>3. B(g) <= B(k)
    BY <1>4
  <2>4. B(g) <= B(k + 1)
    BY <2>2, <2>3
  <2> QED
    BY <2>1, <2>4
<1> HIDE DEF G
<1>5. g .. n + 1 \subseteq G
  <2>1. n + 1 \in Nat /\ g \in Nat
    BY <1>1
  <2> QED
    BY <1>3, <1>4, <2>1, Induction
<1> QED
  BY <1>1, <1>5 DEF G, B

PartLengths(ss) == [g \in 1 .. Len(ss) |-> Len(ss[g])]

(* Part g of a flattened sequence of sequences begins after the parts before
   it. *)
LEMMA Flatten ==
  ASSUME NEW S, NEW ss \in Seq(Seq(S))
  PROVE  /\ FlattenSeq(ss) \in Seq(S)
         /\ Len(FlattenSeq(ss)) = Before(PartLengths(ss), Len(ss) + 1)
         /\ \A g \in 1 .. Len(ss) : \A k \in 1 .. Len(ss[g]) :
              FlattenSeq(ss)[Before(PartLengths(ss), g) + k] = ss[g][k]
<1> DEFINE n == Len(ss)
<1>0. n = Len(ss) /\ ss \in [1 .. n -> Seq(S)]
  OBVIOUS
<1>20. n \in Nat
  OBVIOUS
<1> HIDE DEF n
<1> USE <1>20
<1> DEFINE lens == PartLengths(ss)
           IsFlat(f) == f = [i \in 1 .. n |-> IF i = 1 THEN ss[i] ELSE f[i - 1] \o ss[i]]
           flat == CHOOSE f : IsFlat(f)
           Op == [k \in 1 .. n |-> [x \in Seq(S) |-> x \o ss[k]]]
<1>1. Len(ss) = n /\ \A g \in 1 .. n : ss[g] \in Seq(S) /\ Len(ss[g]) \in Nat
  BY <1>0
<1>2. Op \in [1 .. n -> [Seq(S) -> Seq(S)]]
  BY <1>0
<1>3. ASSUME NEW k \in 1 .. n, NEW y \in Seq(S) PROVE Op[k][y] = y \o ss[k]
  BY <1>0
<1> HIDE DEF Op
<1>4. PICK f \in [0 .. n -> Seq(S)] : f[0] = <<>> /\ \A i \in 1 .. n : f[i] = Op[i][f[i - 1]]
  <2>1. <<>> \in Seq(S)
    OBVIOUS
  <2>2. Computed(n, Seq(S), <<>>, Op)
    BY <1>2, <2>1, Recursion
  <2> QED
    BY <2>2 DEF Computed
<1>5. ASSUME NEW k \in 1 .. n PROVE f[k] = f[k - 1] \o ss[k]
  <2>1. k - 1 \in 0 .. n
    OBVIOUS
  <2>2. f[k - 1] \in Seq(S)
    BY <1>4, <2>1
  <2>3. Op[k][f[k - 1]] = f[k - 1] \o ss[k]
    BY <1>3, <2>2
  <2> QED
    BY <1>4, <2>3
<1>6. ASSUME n > 0 PROVE f[1] = ss[1]
  <2>1. 1 \in 1 .. n /\ 1 - 1 = 0
    BY <1>6
  <2>2. f[1] = f[0] \o ss[1] /\ f[0] = <<>> /\ ss[1] \in Seq(S)
    BY <1>1, <1>4, <1>5, <2>1
  <2> QED
    BY <2>2
<1> DEFINE f1 == [i \in 1 .. n |-> f[i]]
<1>7. IsFlat(f1)
  <2>1. ASSUME NEW i \in 1 .. n
        PROVE  f[i] = IF i = 1 THEN ss[i] ELSE f1[i - 1] \o ss[i]
    <3>1. CASE i = 1
      BY <1>6, <3>1
    <3>2. CASE i # 1
      <4>1. i - 1 \in 1 .. n
        BY <3>2
      <4>2. f1[i - 1] = f[i - 1]
        BY <4>1
      <4> HIDE DEF f1
      <4> QED
        BY <1>5, <3>2, <4>2
    <3> QED
      BY <3>1, <3>2
  <2> QED
    BY <2>1, Zenon
<1>8. IsFlat(flat)
  <2> HIDE DEF IsFlat, f1
  <2> QED
    BY <1>7
<1>9. FlattenSeq(ss) = IF n = 0 THEN ss ELSE flat[n]
  BY <1>1 DEF FlattenSeq
<1> HIDE DEF flat
<1>10. ASSUME NEW i \in 1 .. n - 1 PROVE flat[i + 1] = flat[i] \o ss[i + 1]
  <2>1. i + 1 \in 1 .. n /\ i + 1 # 1 /\ (i + 1) - 1 = i
    OBVIOUS
  <2> QED
    BY <1>8, <2>1
<1>11. n > 0 => flat[1] = ss[1]
  BY <1>8
<1> HIDE DEF IsFlat
<1> DEFINE B(g) == Before(lens, g)
           Good(i) == /\ flat[i] \in Seq(S)
                      /\ Len(flat[i]) = B(i + 1)
                      /\ \A g \in 1 .. i : \A k \in 1 .. Len(ss[g]) :
                           flat[i][B(g) + k] = ss[g][k]
<1>12. /\ B(1) = 0
       /\ \A g \in 1 .. n : B(g + 1) = B(g) + Len(ss[g])
       /\ \A g \in 1 .. n + 1 : B(g) \in Nat
  <2>1. Len(lens) = n /\ \A g \in 1 .. n : lens[g] = Len(ss[g]) /\ lens[g] \in Nat
    BY <1>1 DEF PartLengths
  <2> HIDE DEF lens
  <2> QED
    BY <2>1, BeforeDef
<1>18. \A g \in 1 .. n + 1 : \A h \in g .. n + 1 : B(g) <= B(h)
  <2>1. Len(lens) = n /\ \A g \in 1 .. n : lens[g] \in Nat
    BY <1>1 DEF PartLengths
  <2> HIDE DEF lens
  <2> QED
    BY <2>1, BeforeMono
<1> HIDE DEF B
<1>13. ASSUME n > 0 PROVE Good(1)
  <2>1. flat[1] = ss[1] /\ 1 \in 1 .. n /\ B(1 + 1) = B(1) + Len(ss[1]) /\ B(1) = 0
    BY <1>11, <1>12, <1>13
  <2> QED
    BY <1>1, <2>1
<1>14. ASSUME NEW i \in 1 .. n - 1, Good(i) PROVE Good(i + 1)
  <2>0. i \in 1 .. n /\ i + 1 \in 1 .. n /\ i + 1 \in 1 .. n + 1
    OBVIOUS
  <2>1. flat[i + 1] = flat[i] \o ss[i + 1]
    BY <1>10
  <2>2. flat[i] \in Seq(S) /\ ss[i + 1] \in Seq(S) /\ Len(flat[i]) = B(i + 1)
    BY <1>1, <1>14, <2>0
  <2> DEFINE s == flat[i]
             t == ss[i + 1]
  <2>6. s \in Seq(S) /\ t \in Seq(S) /\ Len(s) \in Nat /\ Len(t) \in Nat
    BY <2>2
  <2>7. /\ s \o t \in Seq(S)
        /\ Len(s \o t) = Len(s) + Len(t)
        /\ \A k \in 1 .. Len(s) : (s \o t)[k] = s[k]
        /\ \A k \in 1 .. Len(t) : (s \o t)[Len(s) + k] = t[k]
    <3> HIDE DEF s, t
    <3> QED
      BY <2>6, Concatenation
  <2>8. flat[i + 1] = s \o t /\ Len(s) = B(i + 1) /\ t = ss[i + 1] /\ s = flat[i]
    BY <2>1, <2>2
  <2> HIDE DEF s, t
  <2>3. flat[i + 1] \in Seq(S)
    BY <2>7, <2>8
  <2>4. Len(flat[i + 1]) = B(i + 1 + 1)
    <3>1. B((i + 1) + 1) = B(i + 1) + Len(ss[i + 1])
      BY <1>12, <2>0
    <3> QED
      BY <2>7, <2>8, <3>1
  <2>5. ASSUME NEW g \in 1 .. i + 1, NEW k \in 1 .. Len(ss[g])
        PROVE  flat[i + 1][B(g) + k] = ss[g][k]
    <3>1. CASE g = i + 1
      <4>1. k \in 1 .. Len(ss[i + 1]) /\ B(i + 1) \in Nat
        BY <1>12, <2>0, <3>1
      <4> HIDE DEF Good
      <4> QED
        BY <2>7, <2>8, <3>1, <4>1
    <3>2. CASE g \in 1 .. i
      <4>1. flat[i][B(g) + k] = ss[g][k]
        BY <1>14, <3>2
      <4>2. B(g) + k \in 1 .. Len(flat[i])
        <5>1. g \in 1 .. n + 1 /\ i + 1 \in 1 .. n + 1 /\ g \in 1 .. n /\ g + 1 <= i + 1
          BY <3>2
        <5>2. B(g) + Len(ss[g]) = B(g + 1) /\ B(g) \in Nat
          BY <1>12, <5>1
        <5>3. B(g + 1) <= B(i + 1)
          BY <1>18, <5>1
        <5>4. g + 1 \in 1 .. n + 1
          BY <5>1
        <5>6. Len(ss[g]) \in Nat /\ B(g + 1) \in Nat /\ B(i + 1) \in Nat
          BY <1>1, <1>12, <5>1, <5>4
        <5>7. k \in Nat /\ 1 <= k /\ k <= Len(ss[g])
          BY <5>6
        <5>8. B(g) + k <= B(g) + Len(ss[g])
          BY <5>2, <5>6, <5>7
        <5>9. B(g) + k <= B(i + 1)
          BY <5>2, <5>3, <5>6, <5>7, <5>8
        <5>10. B(g) + k >= 1
          BY <5>2, <5>7
        <5>5. B(g) + k \in 1 .. B(i + 1)
          BY <5>2, <5>6, <5>7, <5>9, <5>10
        <5> QED
          BY <2>8, <5>5
      <4> QED
        BY <2>7, <2>8, <4>1, <4>2
    <3> QED
      BY <3>1, <3>2
  <2> QED
    BY <2>3, <2>4, <2>5
<1> HIDE DEF Good
<1>15. ASSUME n > 0 PROVE Good(n)
  <2> DEFINE G == {k \in 1 .. n : Good(k)}
  <2>1. 1 \in G
    BY <1>13, <1>15
  <2>2. ASSUME NEW k \in 1 .. n - 1, k \in G PROVE k + 1 \in G
    BY <1>14, <2>2
  <2> HIDE DEF G
  <2>3. 1 .. n \subseteq G
    BY <2>1, <2>2, Induction
  <2>4. n \in G
    BY <1>15, <2>3
  <2> QED
    BY <2>4 DEF G
<1>16. CASE n = 0
  BY <1>0, <1>1, <1>9, <1>12, <1>16 DEF B
<1>17. CASE n > 0
  BY <1>0, <1>9, <1>15, <1>17 DEF B, Good
<1>19. n = 0 \/ n > 0
  BY <1>0
<1> QED
  BY <1>0, <1>16, <1>17, <1>19, Zenon

(* Every position of a flattened sequence is in one of the parts ... *)
LEMMA PartOf ==
  ASSUME NEW v, Len(v) \in Nat, \A k \in 1 .. Len(v) : v[k] \in Nat,
         NEW t \in 1 .. Before(v, Len(v) + 1)
  PROVE  \E g \in 1 .. Len(v) : \E k \in 1 .. v[g] : t = Before(v, g) + k
<1> DEFINE n == Len(v)
           B(k) == Before(v, k)
           At(g) == \E k \in 1 .. v[g] : t = B(g) + k
<1>1. n \in Nat /\ t \in 1 .. B(n + 1)
  OBVIOUS
<1>2. /\ B(1) = 0
      /\ \A k \in 1 .. n : B(k + 1) = B(k) + v[k] /\ v[k] \in Nat
      /\ \A k \in 1 .. n + 1 : B(k) \in Nat
  BY BeforeDef
<1> SUFFICES ASSUME \A g \in 1 .. n : ~At(g) PROVE FALSE
  OBVIOUS
<1> HIDE DEF B, n
<1> DEFINE G == {k \in 1 .. n + 1 : B(k) < t}
<1>3. t \in Nat /\ t <= B(n + 1) /\ t >= 1
  BY <1>1, <1>2
<1>4. 1 \in G
  BY <1>1, <1>2, <1>3
<1>5. ASSUME NEW k \in 1 .. (n + 1) - 1, k \in G PROVE k + 1 \in G
  <2>1. k \in 1 .. n /\ k \in 1 .. n + 1 /\ k + 1 \in 1 .. n + 1
    BY <1>1
  <2>2. B(k + 1) = B(k) + v[k] /\ v[k] \in Nat /\ B(k) \in Nat /\ B(k) < t
    BY <1>2, <1>5, <2>1
  <2>3. ~(t - B(k) \in 1 .. v[k])
    <3> SUFFICES ASSUME t - B(k) \in 1 .. v[k] PROVE FALSE
      OBVIOUS
    <3>1. t = B(k) + (t - B(k))
      BY <1>3, <2>2
    <3>2. At(k)
      BY <3>1
    <3> QED
      BY <2>1, <3>2
  <2>4. B(k + 1) < t
    BY <1>3, <2>2, <2>3
  <2> QED
    BY <2>1, <2>4
<1> HIDE DEF G
<1>6. 1 .. n + 1 \subseteq G
  <2>1. n + 1 \in Nat
    BY <1>1
  <2> QED
    BY <1>4, <1>5, <2>1, Induction
<1>7. n + 1 \in G
  BY <1>1, <1>6
<1>8. B(n + 1) < t
  BY <1>7 DEF G
<1> QED
  BY <1>1, <1>2, <1>3, <1>8

(* ... and in one only. *)
LEMMA PartOnce ==
  ASSUME NEW v, Len(v) \in Nat, \A k \in 1 .. Len(v) : v[k] \in Nat,
         NEW g \in 1 .. Len(v), NEW k \in 1 .. v[g]
  PROVE  /\ Before(v, g) + k \in 1 .. Before(v, Len(v) + 1)
         /\ \A h \in 1 .. Len(v) : \A l \in 1 .. v[h] :
              Before(v, g) + k = Before(v, h) + l => g = h /\ k = l
<1> DEFINE n == Len(v)
           B(i) == Before(v, i)
<1>1. n \in Nat /\ g \in 1 .. n /\ v[g] \in Nat
  OBVIOUS
<1>2. /\ \A i \in 1 .. n : B(i + 1) = B(i) + v[i] /\ v[i] \in Nat
      /\ \A i \in 1 .. n + 1 : B(i) \in Nat
  BY BeforeDef
<1>3. \A i \in 1 .. n + 1 : \A j \in i .. n + 1 : B(i) <= B(j)
  BY BeforeMono
<1> HIDE DEF B, n
<1>4. B(g) + k \in 1 .. B(n + 1)
  <2>1. g + 1 \in 1 .. n + 1 /\ n + 1 \in g + 1 .. n + 1 /\ n + 1 \in 1 .. n + 1 /\ g \in 1 .. n + 1
    BY <1>1
  <2>2. B(g + 1) <= B(n + 1)
    BY <1>3, <2>1
  <2>3. B(g + 1) = B(g) + v[g] /\ B(g) \in Nat /\ B(n + 1) \in Nat
    BY <1>1, <1>2, <2>1
  <2> QED
    BY <1>1, <2>2, <2>3
<1>5. ASSUME NEW h \in 1 .. n, NEW l \in 1 .. v[h], B(g) + k = B(h) + l
      PROVE  g = h /\ k = l
  <2>1. /\ v[h] \in Nat /\ B(g) \in Nat /\ B(h) \in Nat
        /\ B(g + 1) = B(g) + v[g] /\ B(h + 1) = B(h) + v[h]
    <3>1. g \in 1 .. n + 1 /\ h \in 1 .. n + 1
      BY <1>1
    <3> QED
      BY <1>1, <1>2, <3>1
  <2>2. ~(g < h)
    <3> SUFFICES ASSUME g < h PROVE FALSE
      OBVIOUS
    <3>1. g + 1 \in 1 .. n + 1 /\ h \in g + 1 .. n + 1
      BY <1>1
    <3>2. B(g + 1) <= B(h)
      BY <1>3, <3>1
    <3> QED
      BY <1>1, <1>5, <2>1, <3>2
  <2>3. ~(h < g)
    <3> SUFFICES ASSUME h < g PROVE FALSE
      OBVIOUS
    <3>1. h + 1 \in 1 .. n + 1 /\ g \in h + 1 .. n + 1
      BY <1>1
    <3>2. B(h + 1) <= B(g)
      BY <1>3, <3>1
    <3> QED
      BY <1>1, <1>5, <2>1, <3>2
  <2>4. g = h
    BY <1>1, <2>2, <2>3
  <2> QED
    BY <1>1, <1>5, <2>1, <2>4
<1> QED
  BY <1>4, <1>5 DEF B, n

(* Sequences of any elements are sequences over one set. *)
LEMMA SeqsOverOneSet ==
  ASSUME NEW ss, Len(ss) \in Nat, ss = [g \in 1 .. Len(ss) |-> ss[g]],
         \A g \in 1 .. Len(ss) : \E T : ss[g] \in Seq(T)
  PROVE  \E S : ss \in Seq(Seq(S))
<1> DEFINE n == Len(ss)
           S == UNION {{ss[g][k] : k \in 1 .. Len(ss[g])} : g \in 1 .. n}
<1>1. n \in Nat
  OBVIOUS
<1>2. ASSUME NEW g \in 1 .. n PROVE ss[g] \in Seq(S)
  <2>1. PICK T : ss[g] \in Seq(T)
    OBVIOUS
  <2> DEFINE s == ss[g]
  <2>2. s \in Seq(T) /\ \A k \in 1 .. Len(s) : s[k] \in S
    BY <2>1
  <2> HIDE DEF s, S
  <2>3. s \in Seq(S)
    BY <2>2
  <2> QED
    BY <2>3 DEF s
<1>3. ss \in [1 .. n -> Seq(S)]
  <2> HIDE DEF S
  <2>1. ss = [g \in 1 .. n |-> ss[g]]
    OBVIOUS
  <2> HIDE DEF n
  <2> QED
    BY <1>2, <2>1
<1>4. ss \in Seq(Seq(S))
  BY <1>1, <1>3
<1> QED
  BY <1>4

(* Flatten, for a sequence whose elements are known one by one. *)
LEMMA FlattenSeqs ==
  ASSUME NEW ss, Len(ss) \in Nat, ss = [g \in 1 .. Len(ss) |-> ss[g]],
         \A g \in 1 .. Len(ss) : \E T : ss[g] \in Seq(T)
  PROVE  /\ Len(FlattenSeq(ss)) = Before(PartLengths(ss), Len(ss) + 1)
         /\ \A g \in 1 .. Len(ss) : \A k \in 1 .. Len(ss[g]) :
              FlattenSeq(ss)[Before(PartLengths(ss), g) + k] = ss[g][k]
<1>1. PICK S : ss \in Seq(Seq(S))
  BY SeqsOverOneSet
<1> QED
  BY <1>1, Flatten

(* The elements of a slice. *)
LEMMA SubSeqFacts ==
  ASSUME NEW S, NEW s \in Seq(S), NEW m \in 1 .. Len(s) + 1, NEW n \in m - 1 .. Len(s)
  PROVE  /\ SubSeq(s, m, n) \in Seq(S)
         /\ Len(SubSeq(s, m, n)) = n - m + 1
         /\ \A k \in 1 .. n - m + 1 : SubSeq(s, m, n)[k] = s[m + k - 1]
<1>1. Len(s) \in Nat /\ m \in Nat /\ n \in Int
  OBVIOUS
<1>2. SubSeq(s, m, n) = [i \in 1 .. (1 + n - m) |-> s[i + m - 1]]
  OBVIOUS
<1>3. ASSUME NEW i \in 1 .. n - m + 1 PROVE s[i + m - 1] \in S /\ s[i + m - 1] = s[m + i - 1]
  OBVIOUS
<1> DEFINE l == n - m + 1
           u == SubSeq(s, m, n)
<1>4. l \in Nat /\ 1 + n - m = l
  BY <1>1
<1>5. u = [i \in 1 .. l |-> s[i + m - 1]]
  BY <1>2, <1>4
<1>6. \A i \in 1 .. l : s[i + m - 1] \in S /\ s[i + m - 1] = s[m + i - 1]
  BY <1>3
<1> HIDE DEF l, u
<1>7. u \in Seq(S) /\ Len(u) = l /\ \A k \in 1 .. l : u[k] = s[m + k - 1]
  BY <1>4, <1>5, <1>6
<1> QED
  BY <1>7 DEF l, u

-----------------------------------------------------------------------------
(* The segments of a packed micro-batch.                                   *)

(* Rows as unpadding gives them: a prompt of at least one token. *)
IsBatch(rows) ==
  /\ Len(rows) \in Nat
  /\ \A i \in 1 .. Len(rows) : rows[i].plen \in Nat \ {0} /\ rows[i].rlen \in Nat

(* The rows of a group have the prompt of its first. *)
Grouped(rows, sizes) ==
  /\ sizes \in Seq(Nat \ {0})
  /\ Before(sizes, Len(sizes) + 1) = Len(rows)
  /\ \A g \in 1 .. Len(sizes) : \A i \in 1 .. sizes[g] :
       LET first == rows[Before(sizes, g) + 1]
           row   == rows[Before(sizes, g) + i]
       IN  row.prompt = first.prompt /\ row.plen = first.plen

AllTokens(rows) ==
  UNION {{Tokens(rows[i])[k] : k \in 1 .. rows[i].plen + rows[i].rlen} : i \in 1 .. Len(rows)}

(* A row is its prompt and its response. *)
LEMMA TokensOfRow ==
  ASSUME NEW rows, IsBatch(rows), NEW i \in 1 .. Len(rows)
  PROVE  /\ Tokens(rows[i]) \in Seq(AllTokens(rows))
         /\ Len(Tokens(rows[i])) = rows[i].plen + rows[i].rlen
<1> DEFINE m == rows[i].plen + rows[i].rlen
           t == Tokens(rows[i])
<1>1. m \in Nat
  BY DEF IsBatch
<1>2. t = [k \in 1 .. m |-> t[k]]
  BY DEF Tokens
<1>3. \A k \in 1 .. m : t[k] \in AllTokens(rows)
  BY DEF AllTokens
<1> HIDE DEF m, t
<1>4. t \in Seq(AllTokens(rows)) /\ Len(t) = m
  BY <1>1, <1>2, <1>3
<1> QED
  BY <1>4 DEF m, t

(* The sizes of groups are positive. *)
LEMMA SizesFacts ==
  ASSUME NEW sizes \in Seq(Nat \ {0})
  PROVE  Len(sizes) \in Nat /\ \A g \in 1 .. Len(sizes) : sizes[g] \in Nat /\ sizes[g] >= 1
OBVIOUS

(* Row i of group g. *)
LEMMA RowOfGroup ==
  ASSUME NEW rows, NEW sizes, Grouped(rows, sizes),
         NEW g \in 1 .. Len(sizes), NEW i \in 1 .. sizes[g]
  PROVE  /\ Before(sizes, g) \in Nat
         /\ Before(sizes, g) + i \in 1 .. Len(rows)
<1>1. sizes \in Seq(Nat \ {0}) /\ Before(sizes, Len(sizes) + 1) = Len(rows)
  BY DEF Grouped
<1>2. Len(sizes) \in Nat /\ \A h \in 1 .. Len(sizes) : sizes[h] \in Nat
  BY <1>1, SizesFacts
<1>3. Before(sizes, g) + i \in 1 .. Before(sizes, Len(sizes) + 1)
  BY <1>2, PartOnce
<1>4. g \in 1 .. Len(sizes) + 1
  BY <1>2
<1> QED
  BY <1>1, <1>2, <1>3, <1>4, BeforeDef

(* The tokens of segment i of group g. *)
SegmentTokens(rows, sizes, g, i) ==
  LET P == rows[Before(sizes, g) + 1].plen
      t == Tokens(rows[Before(sizes, g) + i])
  IN  IF i = 0 THEN SubSeq(Tokens(rows[Before(sizes, g) + 1]), 1, P)
      ELSE SubSeq(t, P + 1, Len(t))

(* A group packs its prompt, once, and then the response of each of its rows. *)
LEMMA SegmentsOfGroup ==
  ASSUME NEW rows, NEW sizes, Grouped(rows, sizes), NEW g \in 1 .. Len(sizes)
  PROVE  LET ss == GroupSegments(rows, sizes, PromptLens(rows, sizes)[g], g)
         IN  /\ \E T : ss \in Seq(T)
             /\ Len(ss) = sizes[g] + 1
             /\ \A i \in 0 .. sizes[g] :
                  /\ ss[i + 1].grp = g
                  /\ ss[i + 1].seg = i
                  /\ i # 0 => ss[i + 1].row = Before(sizes, g) + i
                  /\ ss[i + 1].toks = SegmentTokens(rows, sizes, g, i)
<1> DEFINE n == sizes[g]
           B == Before(sizes, g)
           P == rows[B + 1].plen
           t(i) == Tokens(rows[B + 1 + i - 1])
           prompt == [grp |-> g, seg |-> 0, row |-> B + 1,
                      toks |-> SubSeq(Tokens(rows[B + 1]), 1, P)]
           resp(i) == [grp |-> g, seg |-> i, row |-> B + 1 + i - 1,
                       toks |-> SubSeq(t(i), P + 1, Len(t(i)))]
           a == <<prompt>>
           b == [i \in 1 .. n |-> resp(i)]
           T == {prompt} \cup {resp(i) : i \in 1 .. n}
           ss == GroupSegments(rows, sizes, PromptLens(rows, sizes)[g], g)
<1>1. n \in Nat /\ n >= 1 /\ Len(sizes) \in Nat
  BY SizesFacts DEF Grouped
<1>2. 1 \in 1 .. n
  BY <1>1
<1>3. B \in Nat
  BY <1>2, RowOfGroup
<1>4. ss = a \o b
  <2>1. PromptLens(rows, sizes)[g] = P
    BY DEF PromptLens
  <2> QED
    BY <2>1 DEF GroupSegments
<1>5. /\ a \in Seq(T) /\ Len(a) = 1 /\ a[1] = prompt
      /\ b \in Seq(T) /\ Len(b) = n /\ \A i \in 1 .. n : b[i] = resp(i)
  <2> HIDE DEF prompt, resp, n
  <2> QED
    BY <1>1
<1>6. \A i \in 1 .. n : B + 1 + i - 1 = B + i
  BY <1>3
<1> HIDE DEF a, b, T, ss
<1>7. ss \in Seq(T) /\ Len(ss) = n + 1 /\ ss[1] = prompt /\ \A i \in 1 .. n : ss[i + 1] = resp(i)
  <2> HIDE DEF prompt, resp, n
  <2>1. /\ a \o b \in Seq(T)
        /\ Len(a \o b) = Len(a) + Len(b)
        /\ \A k \in 1 .. Len(a) : (a \o b)[k] = a[k]
        /\ \A k \in 1 .. Len(b) : (a \o b)[Len(a) + k] = b[k]
    <3>1. a \in Seq(T) /\ b \in Seq(T)
      BY <1>5
    <3> QED
      BY <3>1, Concatenation
  <2>2. 1 \in 1 .. Len(a)
    BY <1>5
  <2>3. ASSUME NEW i \in 1 .. n PROVE ss[i + 1] = resp(i)
    <3>1. i + 1 = Len(a) + i /\ i \in 1 .. Len(b)
      BY <1>1, <1>5
    <3> QED
      BY <1>4, <1>5, <2>1, <3>1
  <2>4. Len(ss) = n + 1
    BY <1>1, <1>4, <1>5, <2>1
  <2> QED
    BY <1>4, <1>5, <2>1, <2>2, <2>3, <2>4
<1>8. ASSUME NEW i \in 0 .. n
      PROVE  /\ ss[i + 1].grp = g
             /\ ss[i + 1].seg = i
             /\ i # 0 => ss[i + 1].row = B + i
             /\ ss[i + 1].toks = SegmentTokens(rows, sizes, g, i)
  <2>1. CASE i = 0
    <3>1. prompt.grp = g /\ prompt.seg = 0 /\ prompt.toks = SubSeq(Tokens(rows[B + 1]), 1, P)
      OBVIOUS
    <3>2. SegmentTokens(rows, sizes, g, i) = SubSeq(Tokens(rows[B + 1]), 1, P)
      BY <2>1 DEF SegmentTokens
    <3>3. ss[i + 1] = prompt
      BY <1>7, <2>1
    <3> HIDE DEF prompt, B, P
    <3> QED
      BY <2>1, <3>1, <3>2, <3>3
  <2>2. CASE i # 0
    <3>1. i \in 1 .. n
      BY <1>1, <2>2
    <3>2. ss[i + 1] = resp(i) /\ B + 1 + i - 1 = B + i
      BY <1>6, <1>7, <3>1
    <3>3. resp(i).grp = g /\ resp(i).seg = i
      OBVIOUS
    <3>4. resp(i).row = B + 1 + i - 1
      OBVIOUS
    <3>5. resp(i).toks = SubSeq(t(i), P + 1, Len(t(i)))
      OBVIOUS
    <3>6. t(i) = Tokens(rows[B + i])
      BY <3>2
    <3>7. SegmentTokens(rows, sizes, g, i) =
            SubSeq(Tokens(rows[B + i]), P + 1, Len(Tokens(rows[B + i])))
      BY <2>2 DEF SegmentTokens
    <3> HIDE DEF resp, B, P, t
    <3> QED
      BY <3>2, <3>3, <3>4, <3>5, <3>6, <3>7
  <2> QED
    BY <2>1, <2>2
<1>9. \E U : ss \in Seq(U)
  BY <1>7
<1> QED
  BY <1>7, <1>8, <1>9 DEF ss, n, B

(* Where segment i of group g is in the packed tensor. *)
GroupLengths(sizes) == [g \in 1 .. Len(sizes) |-> sizes[g] + 1]
SegmentAt(sizes, g, i) == Before(GroupLengths(sizes), g) + i + 1

IsRepack(rows, sizes, segs) ==
  /\ Len(segs) \in Nat
  /\ \A s \in 1 .. Len(segs) :
       \E g \in 1 .. Len(sizes) : \E i \in 0 .. sizes[g] : s = SegmentAt(sizes, g, i)
  /\ \A g \in 1 .. Len(sizes) : \A i \in 0 .. sizes[g] :
       LET s == SegmentAt(sizes, g, i)
       IN  /\ s \in 1 .. Len(segs)
           /\ segs[s].grp = g
           /\ segs[s].seg = i
           /\ i # 0 => segs[s].row = Before(sizes, g) + i
           /\ segs[s].toks = SegmentTokens(rows, sizes, g, i)

(* repack_batch packs the groups one after the other, each in the order of
   its rows. *)
LEMMA RepackIsRepack ==
  ASSUME NEW rows, NEW sizes, Grouped(rows, sizes)
  PROVE  IsRepack(rows, sizes, Repack(rows, sizes))
<1> DEFINE n == Len(sizes)
           G(g) == GroupSegments(rows, sizes, PromptLens(rows, sizes)[g], g)
           ss == [g \in 1 .. n |-> G(g)]
           segs == Repack(rows, sizes)
           v == GroupLengths(sizes)
<1>1. n \in Nat /\ \A g \in 1 .. n : sizes[g] \in Nat
  BY SizesFacts DEF Grouped
<1>2. /\ \A g \in 1 .. n : \E T : G(g) \in Seq(T)
      /\ \A g \in 1 .. n : Len(G(g)) = sizes[g] + 1
      /\ \A g \in 1 .. n : \A i \in 0 .. sizes[g] :
           /\ G(g)[i + 1].grp = g
           /\ G(g)[i + 1].seg = i
           /\ i # 0 => G(g)[i + 1].row = Before(sizes, g) + i
           /\ G(g)[i + 1].toks = SegmentTokens(rows, sizes, g, i)
  BY SegmentsOfGroup
<1>3. segs = FlattenSeq(ss)
  BY DEF Repack
<1> HIDE DEF G, segs
<1>4. Len(ss) = n /\ ss = [g \in 1 .. Len(ss) |-> ss[g]] /\ \A g \in 1 .. n : ss[g] = G(g)
  BY <1>1
<1>5. PartLengths(ss) = v
  BY <1>1, <1>2, <1>4 DEF PartLengths, GroupLengths
<1>6. /\ Len(segs) = Before(v, n + 1)
      /\ \A g \in 1 .. n : \A k \in 1 .. Len(ss[g]) : segs[Before(v, g) + k] = ss[g][k]
  <2>1. \A g \in 1 .. Len(ss) : \E T : ss[g] \in Seq(T)
    BY <1>2, <1>4
  <2>2. Len(ss) \in Nat
    BY <1>1, <1>4
  <2> HIDE DEF ss, v, n
  <2>3. /\ Len(FlattenSeq(ss)) = Before(PartLengths(ss), Len(ss) + 1)
        /\ \A g \in 1 .. Len(ss) : \A k \in 1 .. Len(ss[g]) :
             FlattenSeq(ss)[Before(PartLengths(ss), g) + k] = ss[g][k]
    BY <1>4, <2>1, <2>2, FlattenSeqs
  <2> QED
    BY <1>3, <1>4, <1>5, <2>3
<1> HIDE DEF ss
<1>7. Len(v) = n /\ \A g \in 1 .. n : v[g] = sizes[g] + 1 /\ v[g] \in Nat
  BY <1>1 DEF GroupLengths
<1> HIDE DEF v
<1>8. Before(v, n + 1) \in Nat /\ \A g \in 1 .. n : Before(v, g) \in Nat
  BY <1>1, <1>7, BeforeDef
<1> HIDE DEF n
<1>9. ASSUME NEW s \in 1 .. Len(segs)
      PROVE  \E g \in 1 .. n : \E i \in 0 .. sizes[g] : s = Before(v, g) + i + 1
  <2>1. PICK g \in 1 .. n : \E k \in 1 .. v[g] : s = Before(v, g) + k
    BY <1>1, <1>6, <1>7, PartOf
  <2>2. PICK k \in 1 .. v[g] : s = Before(v, g) + k
    BY <2>1
  <2>3. sizes[g] \in Nat /\ v[g] = sizes[g] + 1 /\ Before(v, g) \in Nat /\ k \in Nat
    BY <1>1, <1>7, <1>8
  <2>4. k - 1 \in 0 .. sizes[g]
    BY <2>3
  <2>5. Before(v, g) + (k - 1) + 1 = Before(v, g) + k
    BY <2>3
  <2> QED
    BY <2>2, <2>4, <2>5
<1>10. ASSUME NEW g \in 1 .. n, NEW i \in 0 .. sizes[g]
       PROVE  /\ Before(v, g) + i + 1 \in 1 .. Len(segs)
              /\ segs[Before(v, g) + i + 1] = G(g)[i + 1]
  <2>1. i + 1 \in 1 .. v[g] /\ i + 1 \in 1 .. Len(G(g)) /\ Before(v, g) + i + 1 = Before(v, g) + (i + 1)
    <3>1. sizes[g] \in Nat /\ v[g] = sizes[g] + 1 /\ Before(v, g) \in Nat
      BY <1>1, <1>7, <1>8
    <3>2. Len(G(g)) = sizes[g] + 1
      BY <1>2
    <3> QED
      BY <3>1, <3>2
  <2>2. Before(v, g) + (i + 1) \in 1 .. Before(v, n + 1)
    BY <1>1, <1>7, <2>1, PartOnce
  <2> QED
    BY <1>4, <1>6, <2>1, <2>2
<1>11. Len(segs) \in Nat
  BY <1>6, <1>8
<1>12. \A g, i : SegmentAt(sizes, g, i) = Before(v, g) + i + 1
  BY DEF SegmentAt, v
<1>13. \A s \in 1 .. Len(segs) :
          \E g \in 1 .. n : \E i \in 0 .. sizes[g] : s = SegmentAt(sizes, g, i)
  BY <1>9, <1>12
<1>14. ASSUME NEW g \in 1 .. n, NEW i \in 0 .. sizes[g]
       PROVE  LET s == SegmentAt(sizes, g, i)
              IN  /\ s \in 1 .. Len(segs)
                  /\ segs[s].grp = g
                  /\ segs[s].seg = i
                  /\ i # 0 => segs[s].row = Before(sizes, g) + i
                  /\ segs[s].toks = SegmentTokens(rows, sizes, g, i)
  <2>1. /\ SegmentAt(sizes, g, i) \in 1 .. Len(segs)
        /\ segs[SegmentAt(sizes, g, i)] = G(g)[i + 1]
    BY <1>10, <1>12
  <2>2. /\ G(g)[i + 1].grp = g
        /\ G(g)[i + 1].seg = i
        /\ i # 0 => G(g)[i + 1].row = Before(sizes, g) + i
        /\ G(g)[i + 1].toks = SegmentTokens(rows, sizes, g, i)
    BY <1>2
  <2> QED
    BY <2>1, <2>2
<1>15. n = Len(sizes) /\ segs = Repack(rows, sizes)
  BY DEF n, segs
<1> QED
  BY <1>11, <1>13, <1>14, <1>15, Zenon DEF IsRepack

(* The prompt of a group is the prompt of every row of it. *)
LEMMA TokensOfPrompt ==
  ASSUME NEW rows, NEW sizes, IsBatch(rows), Grouped(rows, sizes),
         NEW g \in 1 .. Len(sizes)
  PROVE  LET P == rows[Before(sizes, g) + 1].plen
         IN  /\ P \in Nat \ {0}
             /\ SegmentTokens(rows, sizes, g, 0) \in Seq(AllTokens(rows))
             /\ Len(SegmentTokens(rows, sizes, g, 0)) = P
             /\ \A j \in 1 .. sizes[g] : \A k \in 1 .. P :
                  SegmentTokens(rows, sizes, g, 0)[k] = Tokens(rows[Before(sizes, g) + j])[k]
<1> DEFINE first == Before(sizes, g) + 1
           P == rows[first].plen
           t == Tokens(rows[first])
<1>1. first \in 1 .. Len(rows)
  <2>1. 1 \in 1 .. sizes[g]
    BY SizesFacts DEF Grouped
  <2> QED
    BY <2>1, RowOfGroup
<1>2. P \in Nat \ {0} /\ rows[first].rlen \in Nat
  BY <1>1 DEF IsBatch
<1>3. t \in Seq(AllTokens(rows)) /\ Len(t) = P + rows[first].rlen
  BY <1>1, TokensOfRow
<1>4. SegmentTokens(rows, sizes, g, 0) = SubSeq(t, 1, P)
  BY DEF SegmentTokens
<1>5. ASSUME NEW j \in 1 .. sizes[g], NEW k \in 1 .. P
      PROVE  t[k] = Tokens(rows[Before(sizes, g) + j])[k]
  <2> DEFINE row == rows[Before(sizes, g) + j]
  <2>1. row.prompt = rows[first].prompt /\ row.plen = P
    BY DEF Grouped
  <2>2. row.rlen \in Nat
    <3>1. Before(sizes, g) + j \in 1 .. Len(rows)
      BY RowOfGroup
    <3> QED
      BY <3>1 DEF IsBatch
  <2>3. t[k] = <<rows[first].prompt, k>>
    <3>1. k \in 1 .. rows[first].plen + rows[first].rlen /\ k <= rows[first].plen
      BY <1>2
    <3> QED
      BY <3>1 DEF Tokens
  <2>4. Tokens(row)[k] = <<row.prompt, k>>
    <3> HIDE DEF row, first
    <3>1. k \in 1 .. row.plen + row.rlen /\ k <= row.plen
      BY <1>2, <2>1, <2>2
    <3> QED
      BY <3>1 DEF Tokens
  <2> HIDE DEF t, first
  <2> QED
    BY <2>1, <2>3, <2>4
<1> HIDE DEF t
<1>6. /\ SubSeq(t, 1, P) \in Seq(AllTokens(rows))
      /\ Len(SubSeq(t, 1, P)) = P
      /\ \A k \in 1 .. P : SubSeq(t, 1, P)[k] = t[k]
  <2> HIDE DEF P
  <2>1. 1 \in 1 .. Len(t) + 1 /\ P \in 1 - 1 .. Len(t)
    BY <1>2, <1>3
  <2>2. /\ SubSeq(t, 1, P) \in Seq(AllTokens(rows))
        /\ Len(SubSeq(t, 1, P)) = P - 1 + 1
        /\ \A k \in 1 .. P - 1 + 1 : SubSeq(t, 1, P)[k] = t[1 + k - 1]
    BY <1>3, <2>1, SubSeqFacts
  <2>3. P - 1 + 1 = P /\ \A k \in 1 .. P : 1 + k - 1 = k
    BY <1>2
  <2> QED
    BY <2>2, <2>3
<1> QED
  BY <1>2, <1>4, <1>5, <1>6

(* The response of a row begins where the prompt of its group ends. *)
LEMMA TokensOfResponse ==
  ASSUME NEW rows, NEW sizes, IsBatch(rows), Grouped(rows, sizes),
         NEW g \in 1 .. Len(sizes), NEW i \in 1 .. sizes[g]
  PROVE  LET row == rows[Before(sizes, g) + i]
         IN  /\ row.plen = rows[Before(sizes, g) + 1].plen
             /\ row.rlen \in Nat
             /\ SegmentTokens(rows, sizes, g, i) \in Seq(AllTokens(rows))
             /\ Len(SegmentTokens(rows, sizes, g, i)) = row.rlen
             /\ \A k \in 1 .. row.rlen :
                  SegmentTokens(rows, sizes, g, i)[k] = Tokens(row)[row.plen + k]
<1> DEFINE r == Before(sizes, g) + i
           P == rows[r].plen
           R == rows[r].rlen
           t == Tokens(rows[r])
<1>1. r \in 1 .. Len(rows)
  BY RowOfGroup
<1>2. P \in Nat \ {0} /\ R \in Nat
  BY <1>1 DEF IsBatch
<1>3. t \in Seq(AllTokens(rows)) /\ Len(t) = P + R
  BY <1>1, TokensOfRow
<1>4. P = rows[Before(sizes, g) + 1].plen
  BY DEF Grouped
<1>5. SegmentTokens(rows, sizes, g, i) = SubSeq(t, P + 1, P + R)
  <2>1. i # 0
    OBVIOUS
  <2>2. SegmentTokens(rows, sizes, g, i) =
          SubSeq(t, rows[Before(sizes, g) + 1].plen + 1, Len(t))
    BY <2>1 DEF SegmentTokens
  <2> HIDE DEF t, P, R
  <2> QED
    BY <1>3, <1>4, <2>2
<1> HIDE DEF t
<1>6. /\ SubSeq(t, P + 1, P + R) \in Seq(AllTokens(rows))
      /\ Len(SubSeq(t, P + 1, P + R)) = R
      /\ \A k \in 1 .. R : SubSeq(t, P + 1, P + R)[k] = t[P + k]
  <2> HIDE DEF P, R
  <2> DEFINE m == P + 1
             n == P + R
  <2>1. m \in 1 .. Len(t) + 1 /\ n \in m - 1 .. Len(t)
    BY <1>2, <1>3
  <2>2. n - m + 1 = R /\ \A k \in 1 .. R : m + k - 1 = P + k
    BY <1>2
  <2> HIDE DEF m, n
  <2>3. /\ SubSeq(t, m, n) \in Seq(AllTokens(rows))
        /\ Len(SubSeq(t, m, n)) = n - m + 1
        /\ \A k \in 1 .. n - m + 1 : SubSeq(t, m, n)[k] = t[m + k - 1]
    BY <1>3, <2>1, SubSeqFacts
  <2>4. /\ SubSeq(t, m, n) \in Seq(AllTokens(rows))
        /\ Len(SubSeq(t, m, n)) = R
        /\ \A k \in 1 .. R : SubSeq(t, m, n)[k] = t[P + k]
    BY <2>2, <2>3
  <2> QED
    BY <2>4 DEF m, n
<1> QED
  BY <1>2, <1>4, <1>5, <1>6 DEF t

(* A group has one prompt segment, its first one. *)
LEMMA PromptSegmentIs ==
  ASSUME NEW rows, NEW sizes, NEW segs, Grouped(rows, sizes), IsRepack(rows, sizes, segs),
         NEW g \in 1 .. Len(sizes)
  PROVE  PromptSegment(segs, g) = SegmentAt(sizes, g, 0)
<1> DEFINE p == SegmentAt(sizes, g, 0)
<1>1. \A h \in 1 .. Len(sizes) : sizes[h] \in Nat
  BY SizesFacts DEF Grouped
<1>2. p \in 1 .. Len(segs) /\ segs[p].grp = g /\ segs[p].seg = 0
  <2>1. 0 \in 0 .. sizes[g]
    BY <1>1
  <2> QED
    BY <2>1 DEF IsRepack
<1>3. ASSUME NEW s \in 1 .. Len(segs), segs[s].grp = g, segs[s].seg = 0 PROVE s = p
  <2>1. PICK h \in 1 .. Len(sizes) : \E i \in 0 .. sizes[h] : s = SegmentAt(sizes, h, i)
    BY DEF IsRepack
  <2>2. PICK i \in 0 .. sizes[h] : s = SegmentAt(sizes, h, i)
    BY <2>1
  <2>3. segs[s].grp = h /\ segs[s].seg = i
    BY <2>2 DEF IsRepack
  <2> QED
    BY <1>3, <2>2, <2>3
<1> HIDE DEF p
<1>4. PromptSegment(segs, g) = p
  BY <1>2, <1>3 DEF PromptSegment
<1> QED
  BY <1>4 DEF p

-----------------------------------------------------------------------------
(* The packed tensors: a value per token of every segment.                 *)

(* Segments as packing them needs them. *)
Segmented(segs) ==
  /\ Len(segs) \in Nat
  /\ \A s \in 1 .. Len(segs) : \E T : segs[s].toks \in Seq(T)

(* A sequence per segment, of as many elements as the segment has tokens. *)
PerToken(segs, ss) ==
  /\ Len(ss) = Len(segs)
  /\ ss = [s \in 1 .. Len(segs) |-> ss[s]]
  /\ \A s \in 1 .. Len(segs) : \E T : ss[s] \in Seq(T)
  /\ \A s \in 1 .. Len(segs) : Len(ss[s]) = Len(segs[s].toks)

(* f is their concatenation. *)
Flat(segs, ss, f) ==
  /\ Len(f) \in Nat
  /\ Len(f) = Offset(segs, Len(segs) + 1)
  /\ \A s \in 1 .. Len(segs) : Offset(segs, s) \in Nat /\ Len(segs[s].toks) \in Nat
  /\ \A s \in 1 .. Len(segs) : \A k \in 1 .. Len(segs[s].toks) :
       /\ Offset(segs, s) + k \in 1 .. Len(f)
       /\ f[Offset(segs, s) + k] = ss[s][k]
  /\ \A t \in 1 .. Len(f) :
       \E s \in 1 .. Len(segs) : \E k \in 1 .. Len(segs[s].toks) :
         t = Offset(segs, s) + k

(* A value per token of every segment, flattened: the entry at the offset of
   a segment is the first of that segment. *)
LEMMA FlattenSegments ==
  ASSUME NEW segs, Segmented(segs), NEW ss, PerToken(segs, ss)
  PROVE  Flat(segs, ss, FlattenSeq(ss))
<1> DEFINE n == Len(segs)
           v == PartLengths(ss)
           f == FlattenSeq(ss)
<1>1. n \in Nat /\ Len(ss) = n /\ ss = [s \in 1 .. n |-> ss[s]]
  BY DEF Segmented, PerToken
<1>2. \A s \in 1 .. n : Len(ss[s]) = Len(segs[s].toks) /\ Len(segs[s].toks) \in Nat
  BY DEF Segmented, PerToken
<1>3. Len(v) = n /\ \A s \in 1 .. n : v[s] = Len(segs[s].toks) /\ v[s] \in Nat
  BY <1>1, <1>2 DEF PartLengths
<1>4. \A s : Offset(segs, s) = Before(v, s)
  <2>1. v = [i \in 1 .. n |-> Len(segs[i].toks)]
    BY <1>1, <1>2 DEF PartLengths
  <2> HIDE DEF v
  <2> QED
    BY <2>1 DEF Offset
<1>5. /\ Len(f) = Before(v, n + 1)
      /\ \A s \in 1 .. n : \A k \in 1 .. Len(ss[s]) : f[Before(v, s) + k] = ss[s][k]
  <2>1. \A s \in 1 .. Len(ss) : \E T : ss[s] \in Seq(T)
    BY <1>1 DEF PerToken
  <2> HIDE DEF n
  <2>2. /\ Len(f) = Before(v, Len(ss) + 1)
        /\ \A s \in 1 .. Len(ss) : \A k \in 1 .. Len(ss[s]) : f[Before(v, s) + k] = ss[s][k]
    BY <1>1, <2>1, FlattenSeqs
  <2> HIDE DEF v, f
  <2> QED
    BY <1>1, <2>2
<1> HIDE DEF n, v, f
<1>6. Before(v, n + 1) \in Nat /\ \A s \in 1 .. n : Before(v, s) \in Nat
  <2>1. Len(v) \in Nat /\ \A k \in 1 .. Len(v) : v[k] \in Nat
    BY <1>1, <1>3
  <2>2. \A s \in 1 .. Len(v) + 1 : Before(v, s) \in Nat
    BY <2>1, BeforeDef
  <2>3. n + 1 \in 1 .. n + 1 /\ \A s \in 1 .. n : s \in 1 .. n + 1
    BY <1>1
  <2> QED
    BY <1>3, <2>2, <2>3
<1>7. ASSUME NEW s \in 1 .. n, NEW k \in 1 .. Len(segs[s].toks)
      PROVE  /\ Before(v, s) + k \in 1 .. Len(f)
             /\ f[Before(v, s) + k] = ss[s][k]
  <2>1. k \in 1 .. v[s] /\ k \in 1 .. Len(ss[s])
    BY <1>2, <1>3
  <2>2. Before(v, s) + k \in 1 .. Before(v, n + 1)
    BY <1>1, <1>3, <2>1, PartOnce
  <2> QED
    BY <1>5, <2>1, <2>2
<1>8. ASSUME NEW t \in 1 .. Len(f)
      PROVE  \E s \in 1 .. n : \E k \in 1 .. Len(segs[s].toks) : t = Before(v, s) + k
  <2>1. \E s \in 1 .. n : \E k \in 1 .. v[s] : t = Before(v, s) + k
    <3>1. Len(v) \in Nat /\ \A k \in 1 .. Len(v) : v[k] \in Nat
      BY <1>1, <1>3
    <3>2. t \in 1 .. Before(v, Len(v) + 1)
      BY <1>3, <1>5
    <3>3. \E s \in 1 .. Len(v) : \E k \in 1 .. v[s] : t = Before(v, s) + k
      BY <3>1, <3>2, PartOf
    <3> QED
      BY <1>3, <3>3
  <2> QED
    BY <1>3, <2>1
<1>9. n = Len(segs) /\ f = FlattenSeq(ss)
  BY DEF n, f
<1>10. Len(f) \in Nat /\ Len(f) = Offset(segs, n + 1)
  BY <1>4, <1>5, <1>6
<1>11. Flat(segs, ss, f)
  BY <1>2, <1>4, <1>6, <1>7, <1>8, <1>9, <1>10 DEF Flat
<1> QED
  BY <1>9, <1>11

(* The packed tokens of a segment. *)
LEMMA PackedTokens ==
  ASSUME NEW segs, Segmented(segs)
  PROVE  Flat(segs, [s \in 1 .. Len(segs) |-> segs[s].toks], Packed(segs))
<1> DEFINE ss == [s \in 1 .. Len(segs) |-> segs[s].toks]
<1>1. \A s \in 1 .. Len(segs) : ss[s] = segs[s].toks
  OBVIOUS
<1>2. PerToken(segs, ss)
  BY DEF PerToken, Segmented
<1>3. Packed(segs) = FlattenSeq(ss)
  BY DEF Packed
<1> HIDE DEF ss
<1>4. Flat(segs, ss, Packed(segs))
  BY <1>2, <1>3, FlattenSegments
<1> QED
  BY <1>4 DEF ss

(* The logits of a segment. *)
LEMMA LogitsOfTokens ==
  ASSUME NEW segs, Segmented(segs),
         NEW s \in 1 .. Len(segs), NEW k \in 1 .. Len(segs[s].toks)
  PROVE  Logits(segs)[Offset(segs, s) + k] = SegmentContexts(segs, s)[k]
<1> DEFINE ss == [i \in 1 .. Len(segs) |-> SegmentContexts(segs, i)]
<1>1. ss[s] = SegmentContexts(segs, s)
  OBVIOUS
<1>2. ASSUME NEW i \in 1 .. Len(segs)
      PROVE  /\ \E T : SegmentContexts(segs, i) \in Seq(T)
             /\ Len(SegmentContexts(segs, i)) = Len(segs[i].toks)
  <2> DEFINE n == Len(segs[i].toks)
             c == SegmentContexts(segs, i)
             T == {c[j] : j \in 1 .. n}
  <2>1. n \in Nat
    BY DEF Segmented
  <2>2. c = [j \in 1 .. n |-> c[j]]
    BY DEF SegmentContexts
  <2> HIDE DEF c, n
  <2>3. c \in Seq(T) /\ Len(c) = n
    BY <2>1, <2>2
  <2> QED
    BY <2>3 DEF c, n
<1>3. PerToken(segs, ss)
  <2>1. Len(segs) \in Nat
    BY DEF Segmented
  <2>2. Len(ss) = Len(segs) /\ ss = [i \in 1 .. Len(segs) |-> ss[i]]
    BY <2>1
  <2>3. \A i \in 1 .. Len(segs) : ss[i] = SegmentContexts(segs, i)
    OBVIOUS
  <2> HIDE DEF ss
  <2> QED
    BY <1>2, <2>2, <2>3 DEF PerToken
<1>4. Logits(segs) = FlattenSeq(ss)
  BY DEF Logits
<1> HIDE DEF ss
<1>5. Flat(segs, ss, Logits(segs))
  BY <1>3, <1>4, FlattenSegments
<1> QED
  BY <1>1, <1>5 DEF Flat

(* The least of two numbers. *)
LEMMA MinOfTwo ==
  ASSUME NEW a \in Nat, NEW b \in Nat
  PROVE  Min({a, b}) = IF a <= b THEN a ELSE b
<1>1. CASE a <= b
  <2>1. \A x \in {a, b} : (\A y \in {a, b} : x <= y) => x = a
    BY <1>1
  <2> QED
    BY <1>1, <2>1 DEF Min
<1>2. CASE ~(a <= b)
  <2>1. \A x \in {a, b} : (\A y \in {a, b} : x <= y) => x = b
    BY <1>2
  <2> QED
    BY <1>2, <2>1 DEF Min
<1> QED
  BY <1>1, <1>2

(* Sequences with the same elements are the same. *)
LEMMA SameSeq ==
  ASSUME NEW S, NEW s \in Seq(S), NEW t \in Seq(S), Len(s) = Len(t),
         \A k \in 1 .. Len(s) : s[k] = t[k]
  PROVE  s = t
OBVIOUS

(* The segments of a packed micro-batch are sequences of tokens. *)
LEMMA SegmentsOfBatch ==
  ASSUME NEW rows, NEW sizes, NEW segs, IsBatch(rows), Grouped(rows, sizes),
         IsRepack(rows, sizes, segs)
  PROVE  Segmented(segs)
<1>1. ASSUME NEW s \in 1 .. Len(segs) PROVE \E T : segs[s].toks \in Seq(T)
  <2>1. PICK g \in 1 .. Len(sizes) : \E i \in 0 .. sizes[g] : s = SegmentAt(sizes, g, i)
    BY DEF IsRepack
  <2>2. PICK i \in 0 .. sizes[g] : s = SegmentAt(sizes, g, i)
    BY <2>1
  <2>3. segs[s].toks = SegmentTokens(rows, sizes, g, i)
    BY <2>2 DEF IsRepack
  <2>4. SegmentTokens(rows, sizes, g, i) \in Seq(AllTokens(rows))
    <3>1. CASE i = 0
      BY <3>1, TokensOfPrompt
    <3>2. CASE i # 0
      <4>1. i \in 1 .. sizes[g]
        BY <3>2, SizesFacts DEF Grouped
      <4> QED
        BY <4>1, TokensOfResponse
    <3> QED
      BY <3>1, <3>2
  <2> QED
    BY <2>3, <2>4
<1> QED
  BY <1>1 DEF Segmented, IsRepack

-----------------------------------------------------------------------------
(* From a row to its positions in the packed tensor and back.              *)

(* The logit of the last prompt token: the context of the first response token. *)
LEMMA SharedLogit ==
  ASSUME NEW rows, NEW sizes, NEW segs, IsBatch(rows), Grouped(rows, sizes),
         IsRepack(rows, sizes, segs),
         NEW g \in 1 .. Len(sizes), NEW i \in 1 .. sizes[g]
  PROVE  LET row == rows[Before(sizes, g) + i]
         IN  Logits(segs)[SharedPosition(segs, g)] = SubSeq(Tokens(row), 1, row.plen)
<1> DEFINE r == Before(sizes, g) + i
           P == rows[r].plen
           t == Tokens(rows[r])
           p == SegmentAt(sizes, g, 0)
           own == SegmentTokens(rows, sizes, g, 0)
           S == AllTokens(rows)
<1>1. /\ P \in Nat \ {0} /\ own \in Seq(S) /\ Len(own) = P
      /\ \A k \in 1 .. P : own[k] = t[k]
  <2>1. P = rows[Before(sizes, g) + 1].plen
    BY TokensOfResponse
  <2> QED
    BY <2>1, TokensOfPrompt
<1>2. t \in Seq(S) /\ P \in 0 .. Len(t)
  <2>1. r \in 1 .. Len(rows)
    BY RowOfGroup
  <2>2. t \in Seq(S) /\ Len(t) = P + rows[r].rlen /\ rows[r].rlen \in Nat
    BY <2>1, TokensOfRow DEF IsBatch
  <2> HIDE DEF P, t
  <2> QED
    BY <1>1, <2>2
<1>3. p \in 1 .. Len(segs) /\ segs[p].grp = g /\ segs[p].seg = 0 /\ segs[p].toks = own
  <2>1. 0 \in 0 .. sizes[g]
    BY SizesFacts DEF Grouped
  <2> QED
    BY <2>1 DEF IsRepack
<1>4. PromptSegment(segs, g) = p
  BY PromptSegmentIs
<1>5. SharedPosition(segs, g) = Offset(segs, p) + P
  BY <1>1, <1>3, <1>4 DEF SharedPosition
<1> HIDE DEF p, own, P, t, S
<1>6. P \in 1 .. Len(segs[p].toks)
  BY <1>1, <1>3
<1>7. Logits(segs)[Offset(segs, p) + P] = SegmentContexts(segs, p)[P]
  <2>1. Segmented(segs)
    BY SegmentsOfBatch
  <2> QED
    BY <1>3, <1>6, <2>1, LogitsOfTokens
<1>8. SegmentContexts(segs, p)[P] = SubSeq(own, 1, P)
  BY <1>3, <1>6 DEF SegmentContexts
<1>9. SubSeq(own, 1, P) = SubSeq(t, 1, P)
  <2>1. /\ 1 \in 1 .. Len(own) + 1 /\ P \in 1 - 1 .. Len(own)
        /\ 1 \in 1 .. Len(t) + 1 /\ P \in 1 - 1 .. Len(t)
    BY <1>1, <1>2
  <2>2. /\ SubSeq(own, 1, P) \in Seq(S)
        /\ Len(SubSeq(own, 1, P)) = P - 1 + 1
        /\ \A k \in 1 .. P - 1 + 1 : SubSeq(own, 1, P)[k] = own[1 + k - 1]
    BY <1>1, <2>1, SubSeqFacts
  <2>3. /\ SubSeq(t, 1, P) \in Seq(S)
        /\ Len(SubSeq(t, 1, P)) = P - 1 + 1
        /\ \A k \in 1 .. P - 1 + 1 : SubSeq(t, 1, P)[k] = t[1 + k - 1]
    BY <1>2, <2>1, SubSeqFacts
  <2>4. ASSUME NEW k \in 1 .. Len(SubSeq(own, 1, P))
        PROVE  SubSeq(own, 1, P)[k] = SubSeq(t, 1, P)[k]
    <3>1. k \in 1 .. P - 1 + 1 /\ k \in 1 .. P /\ 1 + k - 1 = k
      BY <1>1, <2>2
    <3> QED
      BY <1>1, <2>2, <2>3, <3>1
  <2> QED
    BY <2>2, <2>3, <2>4, SameSeq
<1> QED
  BY <1>5, <1>7, <1>8, <1>9 DEF t, P

(* The logit of response token j: the whole prompt and the response up to it. *)
LEMMA OwnLogit ==
  ASSUME NEW rows, NEW sizes, NEW segs, IsBatch(rows), Grouped(rows, sizes),
         IsRepack(rows, sizes, segs),
         NEW g \in 1 .. Len(sizes), NEW i \in 1 .. sizes[g],
         NEW j \in 1 .. rows[Before(sizes, g) + i].rlen
  PROVE  LET row == rows[Before(sizes, g) + i]
         IN  Logits(segs)[Offset(segs, SegmentAt(sizes, g, i)) + j] =
               SubSeq(Tokens(row), 1, row.plen + j)
<1> DEFINE r == Before(sizes, g) + i
           P == rows[r].plen
           R == rows[r].rlen
           t == Tokens(rows[r])
           p == SegmentAt(sizes, g, 0)
           s == SegmentAt(sizes, g, i)
           prompt == SegmentTokens(rows, sizes, g, 0)
           own == SegmentTokens(rows, sizes, g, i)
           S == AllTokens(rows)
<1>1. /\ P \in Nat \ {0} /\ prompt \in Seq(S) /\ Len(prompt) = P
      /\ \A k \in 1 .. P : prompt[k] = t[k]
  <2>1. P = rows[Before(sizes, g) + 1].plen
    BY TokensOfResponse
  <2> QED
    BY <2>1, TokensOfPrompt
<1>2. /\ R \in Nat /\ own \in Seq(S) /\ Len(own) = R
      /\ \A k \in 1 .. R : own[k] = t[P + k]
  BY TokensOfResponse
<1>3. t \in Seq(S) /\ Len(t) = P + R
  <2>1. r \in 1 .. Len(rows)
    BY RowOfGroup
  <2> QED
    BY <2>1, TokensOfRow
<1>4. s \in 1 .. Len(segs) /\ segs[s].grp = g /\ segs[s].seg # 0 /\ segs[s].toks = own
  <2>1. i \in 0 .. sizes[g] /\ i # 0
    BY SizesFacts DEF Grouped
  <2> QED
    BY <2>1 DEF IsRepack
<1>5. segs[PromptSegment(segs, segs[s].grp)].toks = prompt
  <2>1. 0 \in 0 .. sizes[g]
    BY SizesFacts DEF Grouped
  <2>2. PromptSegment(segs, segs[s].grp) = p
    BY <1>4, PromptSegmentIs
  <2> QED
    BY <2>1, <2>2 DEF IsRepack
<1>6. j \in 1 .. R
  OBVIOUS
<1> HIDE DEF p, s, own, prompt, P, R, t, S
<1>7. Logits(segs)[Offset(segs, s) + j] = SegmentContexts(segs, s)[j]
  <2>1. Segmented(segs)
    BY SegmentsOfBatch
  <2>2. j \in 1 .. Len(segs[s].toks)
    BY <1>2, <1>4, <1>6
  <2> QED
    BY <1>4, <2>1, <2>2, LogitsOfTokens
<1>8. SegmentContexts(segs, s)[j] = prompt \o SubSeq(own, 1, j)
  <2>1. j \in 1 .. Len(segs[s].toks)
    BY <1>2, <1>4, <1>6
  <2> QED
    BY <1>4, <1>5, <2>1 DEF SegmentContexts
<1> DEFINE a == SubSeq(own, 1, j)
           b == SubSeq(t, 1, P + j)
<1>9. a \in Seq(S) /\ Len(a) = j /\ \A k \in 1 .. j : a[k] = own[k]
  <2>1. 1 \in 1 .. Len(own) + 1 /\ j \in 1 - 1 .. Len(own) /\ j - 1 + 1 = j
    BY <1>2, <1>6
  <2>2. /\ SubSeq(own, 1, j) \in Seq(S)
        /\ Len(SubSeq(own, 1, j)) = j - 1 + 1
        /\ \A k \in 1 .. j - 1 + 1 : SubSeq(own, 1, j)[k] = own[1 + k - 1]
    BY <1>2, <2>1, SubSeqFacts
  <2>3. \A k \in 1 .. j : 1 + k - 1 = k
    BY <1>2
  <2> QED
    BY <2>1, <2>2, <2>3
<1>10. b \in Seq(S) /\ Len(b) = P + j /\ \A k \in 1 .. P + j : b[k] = t[k]
  <2> DEFINE n == P + j
  <2>1. 1 \in 1 .. Len(t) + 1 /\ n \in 1 - 1 .. Len(t) /\ n - 1 + 1 = n
    BY <1>1, <1>2, <1>3, <1>6
  <2> HIDE DEF n
  <2>2. /\ SubSeq(t, 1, n) \in Seq(S)
        /\ Len(SubSeq(t, 1, n)) = n - 1 + 1
        /\ \A k \in 1 .. n - 1 + 1 : SubSeq(t, 1, n)[k] = t[1 + k - 1]
    BY <1>3, <2>1, SubSeqFacts
  <2>3. \A k \in 1 .. n : 1 + k - 1 = k
    BY <2>1
  <2>4. /\ SubSeq(t, 1, n) \in Seq(S)
        /\ Len(SubSeq(t, 1, n)) = n
        /\ \A k \in 1 .. n : SubSeq(t, 1, n)[k] = t[k]
    BY <2>1, <2>2, <2>3
  <2> QED
    BY <2>4 DEF n
<1> HIDE DEF a, b
<1>11. /\ prompt \o a \in Seq(S)
       /\ Len(prompt \o a) = P + j
       /\ \A k \in 1 .. P : (prompt \o a)[k] = prompt[k]
       /\ \A k \in 1 .. j : (prompt \o a)[P + k] = a[k]
  <2>1. prompt \in Seq(S) /\ a \in Seq(S)
    BY <1>1, <1>9
  <2>2. /\ prompt \o a \in Seq(S)
        /\ Len(prompt \o a) = Len(prompt) + Len(a)
        /\ \A k \in 1 .. Len(prompt) : (prompt \o a)[k] = prompt[k]
        /\ \A k \in 1 .. Len(a) : (prompt \o a)[Len(prompt) + k] = a[k]
    BY <2>1, Concatenation
  <2> QED
    BY <1>1, <1>9, <2>2
<1>12. prompt \o a = b
  <2>1. ASSUME NEW k \in 1 .. P + j PROVE (prompt \o a)[k] = b[k]
    <3>1. CASE k <= P
      <4>1. k \in 1 .. P
        BY <1>1, <3>1
      <4> QED
        BY <1>1, <1>10, <1>11, <4>1
    <3>2. CASE ~(k <= P)
      <4>1. k - P \in 1 .. j /\ P + (k - P) = k
        BY <1>1, <1>2, <1>6, <3>2
      <4>2. (prompt \o a)[P + (k - P)] = a[k - P]
        BY <1>11, <4>1
      <4>3. a[k - P] = own[k - P]
        BY <1>9, <4>1
      <4>4. k - P \in 1 .. R
        BY <1>2, <1>6, <4>1
      <4>5. own[k - P] = t[P + (k - P)]
        BY <1>2, <4>4
      <4> QED
        BY <1>10, <4>1, <4>2, <4>3, <4>5
    <3> QED
      BY <3>1, <3>2
  <2> QED
    BY <1>10, <1>11, <2>1, SameSeq
<1> QED
  BY <1>7, <1>8, <1>12 DEF a, b, s, t, P

(* The label of that position: the next token of the response. *)
LEMMA OwnLabel ==
  ASSUME NEW rows, NEW sizes, NEW segs, IsBatch(rows), Grouped(rows, sizes),
         IsRepack(rows, sizes, segs),
         NEW g \in 1 .. Len(sizes), NEW i \in 1 .. sizes[g],
         NEW k \in 2 .. rows[Before(sizes, g) + i].rlen
  PROVE  LET row == rows[Before(sizes, g) + i]
             at  == Offset(segs, SegmentAt(sizes, g, i)) + k - 1
         IN  /\ at \in 1 .. Len(Packed(segs))
             /\ Rolled(Packed(segs))[at] = Tokens(row)[row.plen + k]
<1> DEFINE r == Before(sizes, g) + i
           s == SegmentAt(sizes, g, i)
           R == rows[r].rlen
           ids == Packed(segs)
           own == segs[s].toks
           O == Offset(segs, s)
<1>1. /\ R \in Nat /\ Len(own) = R
      /\ \A j \in 1 .. R : own[j] = Tokens(rows[r])[rows[r].plen + j]
  <2>1. own = SegmentTokens(rows, sizes, g, i)
    <3>1. i \in 0 .. sizes[g]
      BY SizesFacts DEF Grouped
    <3> QED
      BY <3>1 DEF IsRepack
  <2> QED
    BY <2>1, TokensOfResponse
<1>2. s \in 1 .. Len(segs)
  <2>1. i \in 0 .. sizes[g]
    BY SizesFacts DEF Grouped
  <2> QED
    BY <2>1 DEF IsRepack
<1>3. /\ Len(ids) \in Nat /\ O \in Nat
      /\ \A j \in 1 .. R : O + j \in 1 .. Len(ids) /\ ids[O + j] = own[j]
  <2>1. Flat(segs, [u \in 1 .. Len(segs) |-> segs[u].toks], ids)
    BY SegmentsOfBatch, PackedTokens
  <2>2. [u \in 1 .. Len(segs) |-> segs[u].toks][s] = own
    BY <1>2
  <2> QED
    BY <1>1, <1>2, <2>1, <2>2 DEF Flat
<1>4. k \in 1 .. R /\ k - 1 \in 1 .. R /\ k \in Nat
  BY <1>1
<1> HIDE DEF ids, own, O, R
<1> DEFINE at == O + k - 1
<1>5. at \in 1 .. Len(ids) /\ at < Len(ids) /\ at + 1 = O + k /\ Len(ids) \in Nat \ {0}
  <2>1. O + k \in 1 .. Len(ids) /\ O + (k - 1) \in 1 .. Len(ids)
    BY <1>3, <1>4
  <2> QED
    BY <1>3, <1>4, <2>1
<1>6. Rolled(ids)[at] = ids[at + 1]
  <2> HIDE DEF at
  <2>1. at % Len(ids) = at
    BY <1>5
  <2> QED
    BY <1>5, <2>1 DEF Rolled
<1>7. Rolled(ids)[at] = own[k]
  BY <1>3, <1>4, <1>5, <1>6
<1> QED
  BY <1>1, <1>4, <1>5, <1>7 DEF ids, O, R, own

(* Every row is in one group. *)
LEMMA RowInGroup ==
  ASSUME NEW rows, NEW sizes, Grouped(rows, sizes), NEW r \in 1 .. Len(rows)
  PROVE  \E g \in 1 .. Len(sizes) : \E i \in 1 .. sizes[g] : r = Before(sizes, g) + i
<1>1. Len(sizes) \in Nat /\ \A g \in 1 .. Len(sizes) : sizes[g] \in Nat
  BY SizesFacts DEF Grouped
<1>2. r \in 1 .. Before(sizes, Len(sizes) + 1)
  BY DEF Grouped
<1> QED
  BY <1>1, <1>2, PartOf

(* The segment whose log-probs go into a row is that of the row. *)
LEMMA ResponseOfRow ==
  ASSUME NEW rows, NEW sizes, NEW segs, Grouped(rows, sizes), IsRepack(rows, sizes, segs),
         NEW g \in 1 .. Len(sizes), NEW i \in 1 .. sizes[g]
  PROVE  (CHOOSE s \in 1 .. Len(segs) :
            segs[s].seg # 0 /\ segs[s].row = Before(sizes, g) + i) = SegmentAt(sizes, g, i)
<1> DEFINE r == Before(sizes, g) + i
           p == SegmentAt(sizes, g, i)
<1>1. Len(sizes) \in Nat /\ \A h \in 1 .. Len(sizes) : sizes[h] \in Nat
  BY SizesFacts DEF Grouped
<1>2. p \in 1 .. Len(segs) /\ segs[p].seg # 0 /\ segs[p].row = r
  <2>1. i \in 0 .. sizes[g] /\ i # 0
    BY <1>1
  <2> QED
    BY <2>1 DEF IsRepack
<1>3. ASSUME NEW s \in 1 .. Len(segs), segs[s].seg # 0, segs[s].row = r PROVE s = p
  <2>1. PICK h \in 1 .. Len(sizes) : \E l \in 0 .. sizes[h] : s = SegmentAt(sizes, h, l)
    BY DEF IsRepack
  <2>2. PICK l \in 0 .. sizes[h] : s = SegmentAt(sizes, h, l)
    BY <2>1
  <2>3. segs[s].seg = l /\ (l # 0 => segs[s].row = Before(sizes, h) + l)
    BY <2>2 DEF IsRepack
  <2>4. l \in 1 .. sizes[h] /\ Before(sizes, g) + i = Before(sizes, h) + l
    BY <1>1, <1>3, <2>3
  <2>5. g = h /\ i = l
    BY <1>1, <2>4, PartOnce
  <2> QED
    BY <2>2, <2>5
<1> HIDE DEF p, r
<1>4. (CHOOSE s \in 1 .. Len(segs) : segs[s].seg # 0 /\ segs[s].row = r) = p
  BY <1>2, <1>3
<1> QED
  BY <1>4 DEF p, r

(* _dualkv_extract_logprobs on the packed tensor gives the standard log-probs. *)
LEMMA ExtractIsStandard ==
  ASSUME NEW rows, NEW sizes, NEW segs, IsBatch(rows), Grouped(rows, sizes),
         IsRepack(rows, sizes, segs), NEW respLen \in Nat
  PROVE  ExtractLogProbs(segs, Logits(segs), Packed(segs), respLen, Len(rows))
           = StandardLogProbs(rows, respLen)
<1> DEFINE ids == Packed(segs)
           logits == Logits(segs)
           rolled == Rolled(ids)
           all == [t \in 1 .. Len(ids) |-> LogProb(logits[t], rolled[t])]
           R(s) == Min({Len(segs[s].toks), respLen})
           entry(s, k) == IF k > R(s) THEN Zero
                          ELSE IF k = 1
                               THEN LogProb(logits[SharedPosition(segs, segs[s].grp)],
                                            segs[s].toks[1])
                               ELSE all[Offset(segs, s) + k - 1]
           resp(r) == CHOOSE s \in 1 .. Len(segs) : segs[s].seg # 0 /\ segs[s].row = r
           std(r, k) == IF k > rows[r].rlen THEN Zero
                        ELSE LogProb(SubSeq(Tokens(rows[r]), 1, rows[r].plen + k - 1),
                                     Tokens(rows[r])[rows[r].plen + k])
<1>1. ExtractLogProbs(segs, logits, ids, respLen, Len(rows)) =
        [r \in 1 .. Len(rows) |-> [k \in 1 .. respLen |-> entry(resp(r), k)]]
  BY DEF ExtractLogProbs
<1>2. StandardLogProbs(rows, respLen) =
        [r \in 1 .. Len(rows) |-> [k \in 1 .. respLen |-> std(r, k)]]
  BY DEF StandardLogProbs
<1>3. ASSUME NEW r \in 1 .. Len(rows), NEW k \in 1 .. respLen
      PROVE  entry(resp(r), k) = std(r, k)
  <2>1. PICK g \in 1 .. Len(sizes) : \E i \in 1 .. sizes[g] : r = Before(sizes, g) + i
    BY RowInGroup
  <2>2. PICK i \in 1 .. sizes[g] : r = Before(sizes, g) + i
    BY <2>1
  <2> DEFINE s == SegmentAt(sizes, g, i)
             P == rows[r].plen
             L == rows[r].rlen
             t == Tokens(rows[r])
  <2>3. resp(r) = s
    BY <2>2, ResponseOfRow
  <2>4. i \in 0 .. sizes[g] /\ i # 0
    BY SizesFacts DEF Grouped
  <2>5. segs[s].grp = g /\ segs[s].toks = SegmentTokens(rows, sizes, g, i)
    BY <2>4 DEF IsRepack
  <2>6. /\ L \in Nat /\ P \in Nat
        /\ Len(segs[s].toks) = L
        /\ \A j \in 1 .. L : segs[s].toks[j] = t[P + j]
    BY <2>2, <2>5, TokensOfResponse DEF IsBatch
  <2>7. R(s) = IF L <= respLen THEN L ELSE respLen
    BY <2>6, MinOfTwo
  <2>8. k > R(s) <=> k > L
    BY <2>6, <2>7
  <2>9. CASE k > L
    BY <2>3, <2>8, <2>9
  <2>10. CASE k <= L /\ k = 1
    <3>1. logits[SharedPosition(segs, g)] = SubSeq(t, 1, P)
      BY <2>2, SharedLogit
    <3>2. segs[s].toks[1] = t[P + k]
      BY <2>6, <2>10
    <3>3. P + k - 1 = P /\ ~(k > L) /\ ~(k > R(s))
      BY <2>6, <2>8, <2>10
    <3>4. std(r, k) = LogProb(SubSeq(t, 1, P), t[P + k])
      BY <3>3
    <3>5. entry(s, k) = LogProb(logits[SharedPosition(segs, g)], segs[s].toks[1])
      BY <2>5, <2>10, <3>3
    <3> HIDE DEF entry, std, resp, s, t, P, logits
    <3> QED
      BY <2>3, <3>1, <3>2, <3>4, <3>5
  <2>11. CASE k <= L /\ k # 1
    <3> DEFINE j == k - 1
               at == Offset(segs, s) + k - 1
    <3>1. k \in 2 .. L /\ j \in 1 .. L /\ ~(k > L) /\ ~(k > R(s))
      BY <2>6, <2>8, <2>11
    <3>2. at \in 1 .. Len(ids) /\ rolled[at] = t[P + k]
      BY <2>2, <3>1, OwnLabel
    <3>3. logits[Offset(segs, s) + j] = SubSeq(t, 1, P + j)
      BY <2>2, <3>1, OwnLogit
    <3>4. Offset(segs, s) \in Nat
      <4>1. s \in 1 .. Len(segs)
        BY <2>4 DEF IsRepack
      <4>2. Flat(segs, [u \in 1 .. Len(segs) |-> segs[u].toks], ids)
        BY SegmentsOfBatch, PackedTokens
      <4> QED
        BY <4>1, <4>2 DEF Flat
    <3>5. Offset(segs, s) + j = at /\ P + j = P + k - 1
      BY <2>6, <3>4
    <3>6. std(r, k) = LogProb(SubSeq(t, 1, P + k - 1), t[P + k])
      BY <3>1
    <3>7. entry(s, k) = all[at]
      BY <2>11, <3>1
    <3>8. all[at] = LogProb(logits[at], rolled[at])
      BY <3>2
    <3> HIDE DEF entry, std, resp, s, t, P, logits, rolled, all, at, j, ids
    <3>9. logits[at] = SubSeq(t, 1, P + k - 1)
      BY <3>3, <3>5
    <3> QED
      BY <2>3, <3>2, <3>6, <3>7, <3>8, <3>9
  <2>12. (k <= L /\ k = 1) \/ (k <= L /\ k # 1) \/ k > L
    BY <2>6
  <2> HIDE DEF entry, std, resp, L
  <2> QED
    BY <2>9, <2>10, <2>11, <2>12
<1> HIDE DEF entry, std, resp, ids, logits
<1>4. [r \in 1 .. Len(rows) |-> [k \in 1 .. respLen |-> entry(resp(r), k)]] =
        [r \in 1 .. Len(rows) |-> [k \in 1 .. respLen |-> std(r, k)]]
  BY <1>3
<1> QED
  BY <1>1, <1>2, <1>4 DEF ids, logits

(***************************************************************************)
(* Packing the prompts of a micro-batch once, whatever the groups it is    *)
(* divided in as long as the rows of each have one prompt, gives the       *)
(* log-probs of the standard path.                                         *)
(***************************************************************************)
THEOREM PackParity ==
  ASSUME NEW rows, NEW uids, NEW respLen \in Nat, IsBatch(rows),
         Grouped(rows, GroupSizes(uids, Len(rows)))
  PROVE  /\ ~ForwardRaises(rows, uids)
         /\ ForwardMicroBatch(rows, uids, respLen) = Returns(StandardLogProbs(rows, respLen))
<1> DEFINE sizes == GroupSizes(uids, Len(rows))
           segs == Repack(rows, sizes)
<1>1. ASSUME NEW g \in 1 .. Len(sizes), NEW i \in 1 .. sizes[g]
      PROVE  ~(Len(Tokens(rows[Before(sizes, g) + 1 + i - 1])) < rows[Before(sizes, g) + 1].plen)
  <2> DEFINE r == Before(sizes, g) + i
  <2>1. r \in 1 .. Len(rows) /\ Before(sizes, g) \in Nat
    BY RowOfGroup
  <2>2. Before(sizes, g) + 1 + i - 1 = r
    BY <2>1
  <2>3. Len(Tokens(rows[r])) = rows[r].plen + rows[r].rlen
    BY <2>1, TokensOfRow
  <2>4. rows[r].plen = rows[Before(sizes, g) + 1].plen
    BY TokensOfResponse
  <2>5. rows[r].plen \in Nat /\ rows[r].rlen \in Nat
    BY <2>1 DEF IsBatch
  <2> HIDE DEF r, sizes
  <2> QED
    BY <2>2, <2>3, <2>4, <2>5
<1>2. ~ForwardRaises(rows, uids)
  BY <1>1 DEF ForwardRaises
<1>3. IsRepack(rows, sizes, segs)
  BY RepackIsRepack
<1>4. ForwardMicroBatch(rows, uids, respLen) =
        Returns(ExtractLogProbs(segs, Logits(segs), Packed(segs), respLen, Len(rows)))
  BY <1>2 DEF ForwardMicroBatch
<1> HIDE DEF sizes, segs
<1>5. ExtractLogProbs(segs, Logits(segs), Packed(segs), respLen, Len(rows))
        = StandardLogProbs(rows, respLen)
  BY <1>3, ExtractIsStandard DEF sizes
<1> QED
  BY <1>2, <1>4, <1>5

-----------------------------------------------------------------------------
(* The groups _compute_prompt_group_sizes finds.                           *)

(* One group without uids. *)
LEMMA OneGroup ==
  ASSUME NEW bs \in Nat \ {0}
  PROVE  /\ GroupSizes(NoUid, bs) = <<bs>>
         /\ <<bs>> \in Seq(Nat \ {0}) /\ Len(<<bs>>) = 1
         /\ Before(<<bs>>, 1) = 0 /\ Before(<<bs>>, 2) = bs
<1>1. GroupSizes(NoUid, bs) = <<bs>>
  BY DEF GroupSizes
<1> DEFINE v == <<bs>>
<1>2. v \in Seq(Nat \ {0}) /\ Len(v) = 1 /\ v[1] = bs
  OBVIOUS
<1> HIDE DEF v
<1>3. Len(v) \in Nat /\ \A k \in 1 .. Len(v) : v[k] \in Nat
  BY <1>2
<1>4. Before(v, 1) = 0 /\ \A g \in 1 .. Len(v) : Before(v, g + 1) = Before(v, g) + v[g]
  BY <1>3, BeforeDef
<1>5. 1 \in 1 .. Len(v) /\ 1 + 1 = 2
  BY <1>2
<1>6. Before(v, 2) = Before(v, 1) + v[1]
  BY <1>4, <1>5
<1> QED
  BY <1>1, <1>2, <1>4, <1>6 DEF v

(* sizes divide the first i uids into groups of equal uids. *)
GroupedUids(uids, sizes, i) ==
  /\ sizes \in Seq(Nat \ {0})
  /\ Len(sizes) >= 1
  /\ Before(sizes, Len(sizes) + 1) = i
  /\ \A g \in 1 .. Len(sizes) : \A k \in 1 .. sizes[g] :
       uids[Before(sizes, g) + k] = uids[Before(sizes, g) + 1]

(* Appending a size does not move the groups before it. *)
LEMMA BeforeAppend ==
  ASSUME NEW v \in Seq(Nat \ {0}), NEW w \in Seq(Nat \ {0}),
         Len(w) >= Len(v), \A g \in 1 .. Len(v) : w[g] = v[g]
  PROVE  \A g \in 1 .. Len(v) + 1 : Before(w, g) = Before(v, g)
<1> DEFINE n == Len(v)
           G == {g \in 1 .. n + 1 : Before(w, g) = Before(v, g)}
<1>1. n \in Nat /\ Len(w) \in Nat /\ Len(w) >= n
  OBVIOUS
<1>2. /\ Before(v, 1) = 0
      /\ \A g \in 1 .. n : Before(v, g + 1) = Before(v, g) + v[g]
  BY SizesFacts, BeforeDef
<1>3. /\ Before(w, 1) = 0
      /\ \A g \in 1 .. Len(w) : Before(w, g + 1) = Before(w, g) + w[g]
  BY SizesFacts, BeforeDef
<1>4. \A g \in 1 .. n : w[g] = v[g]
  OBVIOUS
<1> HIDE DEF n
<1>5. 1 \in G
  BY <1>1, <1>2, <1>3
<1>6. ASSUME NEW g \in 1 .. (n + 1) - 1, g \in G PROVE g + 1 \in G
  <2>1. g \in 1 .. n /\ g \in 1 .. Len(w) /\ g + 1 \in 1 .. n + 1
    BY <1>1
  <2>2. Before(w, g + 1) = Before(v, g + 1)
    BY <1>2, <1>3, <1>4, <1>6, <2>1
  <2> QED
    BY <2>1, <2>2
<1> HIDE DEF G
<1>7. 1 .. n + 1 \subseteq G
  <2>1. n + 1 \in Nat
    BY <1>1
  <2> QED
    BY <1>5, <1>6, <2>1, Induction
<1> QED
  BY <1>7 DEF G, n

(* The elements of Append(v, x). *)
LEMMA AppendFacts ==
  ASSUME NEW S, NEW v \in Seq(S), NEW x \in S
  PROVE  /\ Append(v, x) \in Seq(S)
         /\ Len(Append(v, x)) = Len(v) + 1 /\ Len(v) \in Nat
         /\ \A g \in 1 .. Len(v) : Append(v, x)[g] = v[g]
         /\ Append(v, x)[Len(v) + 1] = x
OBVIOUS

(* The last size of a sequence of sizes, and the sum of the ones before it. *)
LEMMA BeforeLast ==
  ASSUME NEW v \in Seq(Nat \ {0}), NEW c \in Nat \ {0}
  PROVE  /\ \A g \in 1 .. Len(v) + 1 : Before(Append(v, c), g) = Before(v, g)
         /\ Before(Append(v, c), Len(v) + 2) = Before(v, Len(v) + 1) + c
         /\ \A g \in 1 .. Len(v) + 1 : Before(v, g) \in Nat
<1> DEFINE w == Append(v, c)
           n == Len(v)
<1>1. /\ w \in Seq(Nat \ {0}) /\ Len(w) = n + 1 /\ n \in Nat
      /\ \A g \in 1 .. n : w[g] = v[g]
      /\ w[n + 1] = c
  BY AppendFacts
<1> HIDE DEF w
<1>2. \A g \in 1 .. n + 1 : Before(w, g) = Before(v, g)
  BY <1>1, BeforeAppend
<1>3. \A g \in 1 .. Len(w) : Before(w, g + 1) = Before(w, g) + w[g]
  BY <1>1, SizesFacts, BeforeDef
<1>4. \A g \in 1 .. n + 1 : Before(v, g) \in Nat
  BY SizesFacts, BeforeDef
<1> HIDE DEF n
<1>5. n + 1 \in 1 .. Len(w) /\ n + 1 \in 1 .. n + 1 /\ (n + 1) + 1 = n + 2
  BY <1>1
<1>6. Before(w, n + 2) = Before(v, n + 1) + c
  BY <1>1, <1>2, <1>3, <1>5
<1> QED
  BY <1>2, <1>4, <1>6 DEF n, w

(* Another uid like the last one: the last group grows. *)
LEMMA GroupGrows ==
  ASSUME NEW uids, NEW G \in Seq(Nat \ {0}), NEW c \in Nat \ {0}, NEW i \in Nat,
         GroupedUids(uids, Append(G, c), i), uids[i + 1] = uids[i]
  PROVE  GroupedUids(uids, Append(G, c + 1), i + 1)
<1> DEFINE v == Append(G, c)
           w == Append(G, c + 1)
           n == Len(G)
           B(g) == Before(G, g)
<1>1. c + 1 \in Nat \ {0} /\ c \in Nat /\ c >= 1
  OBVIOUS
<1>2. /\ v \in Seq(Nat \ {0}) /\ Len(v) = n + 1 /\ n \in Nat
      /\ \A g \in 1 .. n : v[g] = G[g]
      /\ v[n + 1] = c
  BY AppendFacts
<1>3. /\ w \in Seq(Nat \ {0}) /\ Len(w) = n + 1
      /\ \A g \in 1 .. n : w[g] = G[g]
      /\ w[n + 1] = c + 1
  BY <1>1, AppendFacts
<1>4. /\ \A g \in 1 .. n + 1 : Before(v, g) = B(g)
      /\ Before(v, n + 2) = B(n + 1) + c
      /\ \A g \in 1 .. n + 1 : B(g) \in Nat
  BY BeforeLast
<1>5. /\ \A g \in 1 .. n + 1 : Before(w, g) = B(g)
      /\ Before(w, n + 2) = B(n + 1) + (c + 1)
  BY <1>1, BeforeLast
<1>6. /\ Before(v, Len(v) + 1) = i
      /\ \A g \in 1 .. Len(v) : \A k \in 1 .. v[g] : uids[Before(v, g) + k] = uids[Before(v, g) + 1]
  BY DEF GroupedUids
<1> HIDE DEF v, w, n, B
<1>7. n + 1 \in 1 .. n + 1 /\ (n + 1) + 1 = n + 2 /\ B(n + 1) \in Nat
  BY <1>2, <1>4
<1>8. i = B(n + 1) + c
  BY <1>2, <1>4, <1>6, <1>7
<1>9. Before(w, Len(w) + 1) = i + 1
  <2>1. Before(w, n + 2) = i + 1
    BY <1>1, <1>5, <1>7, <1>8
  <2> QED
    BY <1>3, <1>7, <2>1
<1>10. ASSUME NEW g \in 1 .. Len(w), NEW k \in 1 .. w[g]
       PROVE  uids[Before(w, g) + k] = uids[Before(w, g) + 1]
  <2>1. g \in 1 .. n + 1 /\ g \in 1 .. Len(v)
    BY <1>2, <1>3
  <2>2. Before(w, g) = Before(v, g) /\ Before(v, g) = B(g)
    BY <1>4, <1>5, <2>1
  <2>3. CASE g # n + 1
    <3>1. g \in 1 .. n
      BY <1>2, <2>1, <2>3
    <3>2. k \in 1 .. v[g]
      BY <1>2, <1>3, <3>1
    <3> QED
      BY <1>6, <2>1, <2>2, <3>2
  <2>4. CASE g = n + 1
    <3>1. k \in 1 .. c + 1
      BY <1>3, <2>4
    <3>2. \A l \in 1 .. c : uids[B(n + 1) + l] = uids[B(n + 1) + 1]
      BY <1>2, <1>6, <2>1, <2>2, <2>4
    <3>3. CASE k \in 1 .. c
      BY <2>2, <2>4, <3>2, <3>3
    <3>4. CASE k = c + 1
      <4>1. B(n + 1) + k = i + 1
        BY <1>1, <1>7, <1>8, <3>4
      <4>2. c \in 1 .. c
        BY <1>1
      <4>3. uids[i] = uids[B(n + 1) + 1]
        BY <1>8, <3>2, <4>2
      <4> QED
        BY <2>2, <2>4, <4>1, <4>3
    <3>5. k \in 1 .. c \/ k = c + 1
      BY <1>1, <3>1
    <3> QED
      BY <3>3, <3>4, <3>5
  <2> QED
    BY <2>3, <2>4
<1>11. Len(w) >= 1
  BY <1>2, <1>3
<1>12. GroupedUids(uids, w, i + 1)
  BY <1>3, <1>9, <1>10, <1>11 DEF GroupedUids
<1> QED
  BY <1>12 DEF w

(* A uid unlike the last one: a group of its own. *)
LEMMA GroupStarts ==
  ASSUME NEW uids, NEW v \in Seq(Nat \ {0}), NEW i \in Nat, GroupedUids(uids, v, i)
  PROVE  GroupedUids(uids, Append(v, 1), i + 1)
<1> DEFINE w == Append(v, 1)
           n == Len(v)
<1>1. /\ w \in Seq(Nat \ {0}) /\ Len(w) = n + 1 /\ n \in Nat
      /\ \A g \in 1 .. n : w[g] = v[g]
      /\ w[n + 1] = 1
  BY AppendFacts
<1>2. /\ \A g \in 1 .. n + 1 : Before(w, g) = Before(v, g)
      /\ Before(w, n + 2) = Before(v, n + 1) + 1
  BY BeforeLast
<1>3. /\ Before(v, n + 1) = i
      /\ \A g \in 1 .. n : \A k \in 1 .. v[g] : uids[Before(v, g) + k] = uids[Before(v, g) + 1]
  BY DEF GroupedUids
<1> HIDE DEF w, n
<1>4. Before(w, Len(w) + 1) = i + 1
  <2>1. (n + 1) + 1 = n + 2
    BY <1>1
  <2> QED
    BY <1>1, <1>2, <1>3, <2>1
<1>5. ASSUME NEW g \in 1 .. Len(w), NEW k \in 1 .. w[g]
      PROVE  uids[Before(w, g) + k] = uids[Before(w, g) + 1]
  <2>1. CASE g # n + 1
    <3>1. g \in 1 .. n /\ g \in 1 .. n + 1
      BY <1>1, <2>1
    <3> QED
      BY <1>1, <1>2, <1>3, <3>1
  <2>2. CASE g = n + 1
    <3>1. k = 1
      BY <1>1, <2>2
    <3> QED
      BY <3>1
  <2> QED
    BY <2>1, <2>2
<1>6. Len(w) >= 1
  BY <1>1
<1>7. GroupedUids(uids, w, i + 1)
  BY <1>1, <1>4, <1>5, <1>6 DEF GroupedUids
<1> QED
  BY <1>7 DEF w

(* _compute_prompt_group_sizes: the groups hold all the rows, each one uid. *)
LEMMA GroupsOfUids ==
  ASSUME NEW uids, Len(uids) \in Nat \ {0}, NEW bs
  PROVE  GroupedUids(uids, GroupSizes(uids, bs), Len(uids))
<1> DEFINE n == Len(uids)
<1>1. n \in Nat \ {0} /\ n = Len(uids) /\ uids # NoUid
  BY DEF NoUid
<1> HIDE DEF n
<1> DEFINE Rec == [groups : Seq(Nat \ {0}), count : Nat \ {0}]
           base == [groups |-> <<>>, count |-> 1]
           step(i, b) == IF uids[i] = uids[i - 1] THEN [b EXCEPT !.count = b.count + 1]
                         ELSE [groups |-> Append(b.groups, b.count), count |-> 1]
           IsRuns(f) == f = [i \in 1 .. n |-> IF i = 1 THEN base ELSE step(i, f[i - 1])]
           runs == CHOOSE f : IsRuns(f)
           Op == [i \in 1 .. n - 1 |-> [b \in Rec |-> step(i + 1, b)]]
<1>2. base \in Rec
  OBVIOUS
<1>3. ASSUME NEW i \in Nat, NEW b \in Rec PROVE step(i, b) \in Rec
  <2>1. b.groups \in Seq(Nat \ {0}) /\ b.count \in Nat \ {0}
    OBVIOUS
  <2>2. Append(b.groups, b.count) \in Seq(Nat \ {0}) /\ b.count + 1 \in Nat \ {0}
    BY <2>1
  <2> QED
    BY <2>1, <2>2
<1> HIDE DEF step, base, Rec
<1>4. Op \in [1 .. n - 1 -> [Rec -> Rec]] /\ n - 1 \in Nat
  BY <1>1, <1>3
<1>5. ASSUME NEW i \in 1 .. n - 1, NEW b \in Rec PROVE Op[i][b] = step(i + 1, b)
  OBVIOUS
<1> HIDE DEF Op
<1>6. PICK f \in [0 .. n - 1 -> Rec] :
        f[0] = base /\ \A i \in 1 .. n - 1 : f[i] = Op[i][f[i - 1]]
  <2>1. Computed(n - 1, Rec, base, Op)
    BY <1>2, <1>4, Recursion
  <2> QED
    BY <2>1 DEF Computed
<1> DEFINE f1 == [i \in 1 .. n |-> f[i - 1]]
<1>7. IsRuns(f1)
  <2>1. ASSUME NEW i \in 1 .. n
        PROVE  f[i - 1] = IF i = 1 THEN base ELSE step(i, f1[i - 1])
    <3>1. CASE i = 1
      BY <1>6, <3>1
    <3>2. CASE i # 1
      <4>1. i - 1 \in 1 .. n - 1 /\ i - 1 \in 1 .. n /\ (i - 1) + 1 = i /\ (i - 1) - 1 \in 0 .. n - 1
        BY <1>1, <3>2
      <4>2. f1[i - 1] = f[(i - 1) - 1] /\ f[(i - 1) - 1] \in Rec
        BY <1>6, <4>1
      <4>3. f[i - 1] = Op[i - 1][f[(i - 1) - 1]]
        BY <1>6, <4>1
      <4> HIDE DEF f1
      <4>4. f[i - 1] = step((i - 1) + 1, f[(i - 1) - 1])
        BY <1>5, <4>1, <4>2, <4>3
      <4> QED
        BY <3>2, <4>1, <4>2, <4>4
    <3> QED
      BY <3>1, <3>2
  <2> QED
    BY <2>1, Zenon
<1>8. IsRuns(runs)
  <2> HIDE DEF IsRuns, f1
  <2> QED
    BY <1>7
<1>9. GroupSizes(uids, bs) = Append(runs[n].groups, runs[n].count)
  BY <1>1 DEF GroupSizes, step, base
<1> HIDE DEF runs
<1>10. runs[1] = base
  BY <1>1, <1>8
<1>11. ASSUME NEW i \in 1 .. n - 1 PROVE runs[i + 1] = step(i + 1, runs[i])
  <2>1. i + 1 \in 1 .. n /\ i + 1 # 1 /\ (i + 1) - 1 = i
    BY <1>1
  <2> QED
    BY <1>8, <2>1
<1> HIDE DEF IsRuns
<1> DEFINE Good(i) == /\ runs[i] \in Rec
                      /\ GroupedUids(uids, Append(runs[i].groups, runs[i].count), i)
           D == {i \in 1 .. n : Good(i)}
<1>12. Good(1)
  <2>1. runs[1].groups = <<>> /\ runs[1].count = 1
    BY <1>10 DEF base
  <2>2. Append(<<>>, 1) = <<1>>
    OBVIOUS
  <2>3. GroupedUids(uids, <<1>>, 1)
    <3> DEFINE v == <<1>>
    <3>1. v \in Seq(Nat \ {0}) /\ Len(v) = 1 /\ v[1] = 1
      OBVIOUS
    <3>2. Before(v, 1) = 0 /\ Before(v, 2) = 1
      BY OneGroup
    <3> HIDE DEF v
    <3>3. Before(v, Len(v) + 1) = 1
      BY <3>1, <3>2
    <3>4. ASSUME NEW g \in 1 .. Len(v), NEW k \in 1 .. v[g]
          PROVE  uids[Before(v, g) + k] = uids[Before(v, g) + 1]
      <4>1. g = 1
        BY <3>1
      <4>2. k = 1
        BY <3>1, <4>1
      <4> QED
        BY <4>2
    <3>5. GroupedUids(uids, v, 1)
      BY <3>1, <3>3, <3>4 DEF GroupedUids
    <3> QED
      BY <3>5 DEF v
  <2>4. runs[1] \in Rec
    BY <1>2, <1>10
  <2> QED
    BY <2>1, <2>2, <2>3, <2>4
<1>13. ASSUME NEW i \in 1 .. n - 1, Good(i) PROVE Good(i + 1)
  <2> DEFINE G == runs[i].groups
             c == runs[i].count
  <2>1. G \in Seq(Nat \ {0}) /\ c \in Nat \ {0} /\ GroupedUids(uids, Append(G, c), i)
    BY <1>13 DEF Rec
  <2>2. i \in Nat /\ i + 1 \in Nat /\ (i + 1) - 1 = i
    OBVIOUS
  <2>3. runs[i + 1] \in Rec
    BY <1>3, <1>11, <1>13, <2>2
  <2>4. CASE uids[i + 1] = uids[i]
    <3>1. runs[i + 1] = [runs[i] EXCEPT !.count = c + 1]
      BY <1>11, <2>2, <2>4 DEF step
    <3>2. runs[i + 1].groups = G /\ runs[i + 1].count = c + 1
      BY <1>13, <3>1 DEF Rec
    <3> HIDE DEF G, c, Good
    <3>3. GroupedUids(uids, Append(G, c + 1), i + 1)
      BY <2>1, <2>2, <2>4, GroupGrows
    <3> QED
      BY <2>3, <3>2, <3>3 DEF Good
  <2>5. CASE uids[i + 1] # uids[i]
    <3>1. runs[i + 1] = [groups |-> Append(G, c), count |-> 1]
      BY <1>11, <2>2, <2>5 DEF step
    <3>2. runs[i + 1].groups = Append(G, c) /\ runs[i + 1].count = 1
      BY <3>1
    <3> HIDE DEF G, c, Good
    <3>3. Append(G, c) \in Seq(Nat \ {0})
      BY <2>1
    <3>4. GroupedUids(uids, Append(Append(G, c), 1), i + 1)
      BY <2>1, <2>2, <3>3, GroupStarts
    <3> QED
      BY <2>3, <3>2, <3>4 DEF Good
  <2> QED
    BY <2>4, <2>5
<1> HIDE DEF Good
<1>14. 1 .. n \subseteq D
  <2>1. 1 \in D
    BY <1>1, <1>12
  <2>2. ASSUME NEW i \in 1 .. n - 1, i \in D PROVE i + 1 \in D
    BY <1>1, <1>13, <2>2
  <2> HIDE DEF D
  <2> QED
    BY <1>1, <2>1, <2>2, Induction
<1>15. Good(n)
  BY <1>1, <1>14
<1> QED
  BY <1>1, <1>9, <1>15 DEF Good

============================================================
