--------------------------- MODULE UlyssesProofs ----------------------------
(***************************************************************************)
(* Ulysses sequence parallelism changes nothing: every rank ends with the  *)
(* log-probs and the gradients of one device, for every number of ranks,   *)
(* of heads, of KV heads and of rows, on the layouts the wrapper supports. *)
(***************************************************************************)
EXTENDS UlyssesDualKV, DualKVPackProofs

-----------------------------------------------------------------------------
(* The heads of a rank.                                                    *)

Width(j) == j.heads \div j.sp
KVWidth(j) == (j.kv * Repeats(j)) \div j.sp

(* The greatest of two numbers. *)
LEMMA MaxOfTwo ==
  ASSUME NEW a \in Nat, NEW b \in Nat
  PROVE  Max({a, b}) = IF a >= b THEN a ELSE b
<1>1. \E c \in {a, b} : \A y \in {a, b} : c >= y
  OBVIOUS
<1>2. Max({a, b}) \in {a, b} /\ \A y \in {a, b} : Max({a, b}) >= y
  BY <1>1 DEF Max
<1> QED
  BY <1>2

(* A product of which a factor and the result are known.                   *)
LEMMA Quotient ==
  ASSUME NEW a \in Nat, NEW b \in Nat \ {0}
  PROVE  (a * b) \div b = a
<1>1. a * b \in Nat /\ b * a = a * b
  OBVIOUS
<1> QED
  BY <1>1, DivUnique

(* The heads are divided evenly; either no KV head is repeated, or a rank  *)
(* has one of them.                                                        *)
LEMMA Layout ==
  ASSUME NEW j \in Jobs
  PROVE  /\ j.sp \in Nat \ {0} /\ j.heads \in Nat \ {0} /\ j.kv \in Nat \ {0}
         /\ Width(j) \in Nat \ {0} /\ j.heads = Width(j) * j.sp
         /\ Repeats(j) \in Nat \ {0} /\ KVWidth(j) \in Nat \ {0}
         /\ j.kv * Repeats(j) = KVWidth(j) * j.sp
         /\ \/ Repeats(j) = 1 /\ j.kv = KVWidth(j) * j.sp
            \/ KVWidth(j) = 1 /\ j.sp = j.kv * Repeats(j)
<1> DEFINE sp == j.sp  H == j.heads  kv == j.kv
<1>1. /\ sp \in Nat \ {0} /\ H \in Nat \ {0} /\ kv \in Nat \ {0}
      /\ H % sp = 0
      /\ kv % sp = 0 \/ sp % kv = 0
  BY JobsAssumption DEF HeadAsserts
<1>2. Width(j) = H \div sp /\ KVWidth(j) = (kv * Repeats(j)) \div sp
  BY DEF Width, KVWidth
<1>3. Repeats(j) = Max({sp \div kv, 1})
  BY DEF Repeats
<1> HIDE DEF sp, H, kv
<1>4. /\ H \div sp \in Nat \ {0} /\ H = (H \div sp) * sp
  <2>1. H \div sp \in Nat /\ H = sp * (H \div sp)
    BY <1>1, Divides, DivBounds
  <2> DEFINE q == H \div sp
  <2> HIDE DEF q
  <2>2. q \in Nat /\ H = sp * q /\ sp * 0 = 0 /\ sp * q = q * sp
    BY <1>1, <2>1 DEF q
  <2> QED
    BY <1>1, <2>2 DEF q
<1>5. CASE kv % sp = 0
  <2> DEFINE q == kv \div sp
  <2>1. q \in Nat /\ kv = sp * q
    BY <1>1, <1>5, Divides, DivBounds
  <2> HIDE DEF q
  <2>2. q \in Nat \ {0}
    BY <1>1, <2>1
  <2>3. sp <= kv
    <3>1. sp * 1 <= sp * q
      BY <1>1, <2>2
    <3> QED
      BY <1>1, <2>1, <3>1
  <2>4. sp \div kv \in Nat /\ kv * (sp \div kv) <= sp
    BY <1>1, DivBounds
  <2>5. sp \div kv = 0 \/ sp \div kv = 1
    <3> DEFINE d == sp \div kv
    <3> HIDE DEF d
    <3> SUFFICES ASSUME d \in Nat, d >= 2, kv * d <= sp PROVE FALSE
      BY <2>4 DEF d
    <3>1. kv * 2 <= kv * d
      BY <1>1
    <3>2. kv * d \in Nat
      BY <1>1
    <3> QED
      BY <1>1, <2>3, <3>1, <3>2
  <2>6. Repeats(j) = 1
    BY <1>3, <2>4, <2>5, MaxOfTwo
  <2>7. kv * 1 = kv /\ kv = q * sp
    BY <1>1, <2>1, <2>2
  <2>8. KVWidth(j) = q
    <3>1. (q * sp) \div sp = q
      BY <1>1, <2>2, Quotient
    <3> QED
      BY <1>2, <2>6, <2>7, <3>1
  <2>9. j.kv = KVWidth(j) * j.sp /\ j.kv * 1 = KVWidth(j) * j.sp
    BY <2>7, <2>8 DEF kv, sp
  <2> QED
    BY <1>1, <1>2, <1>4, <2>2, <2>6, <2>8, <2>9 DEF sp, H, kv
<1>6. CASE sp % kv = 0
  <2> DEFINE q == sp \div kv
  <2>1. q \in Nat /\ sp = kv * q
    BY <1>1, <1>6, Divides, DivBounds
  <2>2. Repeats(j) = Max({q, 1})
    BY <1>3
  <2> HIDE DEF q
  <2>3. q \in Nat \ {0}
    BY <1>1, <2>1
  <2>4. Repeats(j) = q
    BY <2>2, <2>3, MaxOfTwo
  <2>5. (1 * sp) \div sp = 1 /\ 1 * sp = sp
    BY <1>1, Quotient
  <2>6. KVWidth(j) = 1
    BY <1>2, <2>1, <2>4, <2>5
  <2>7. j.sp = j.kv * Repeats(j) /\ KVWidth(j) * j.sp = j.sp
    BY <2>1, <2>4, <2>5, <2>6 DEF sp, kv
  <2> QED
    BY <1>1, <1>2, <1>4, <2>3, <2>4, <2>6, <2>7 DEF sp, H, kv
<1> QED
  BY <1>1, <1>5, <1>6

(***************************************************************************)
(* The KV head a rank's query head meets after the all-to-all is a copy of *)
(* the one it uses on one device.                                          *)
(***************************************************************************)
LEMMA KeyOfHead ==
  ASSUME NEW j \in Jobs, SupportedLayout(j), NEW r \in 0 .. j.sp - 1, NEW h \in 1 .. Width(j)
  PROVE  /\ KVHead(h, Width(j), KVWidth(j)) \in 1 .. KVWidth(j)
         /\ CopyOf(j, r * KVWidth(j) + KVHead(h, Width(j), KVWidth(j)))
              = KVHead(r * Width(j) + h, j.heads, j.kv)
<1> DEFINE sp == j.sp  H == j.heads  kv == j.kv  W == Width(j)  KW == KVWidth(j)
           R == Repeats(j)  m == H \div kv
<1>1. /\ sp \in Nat \ {0} /\ H \in Nat \ {0} /\ kv \in Nat \ {0} /\ W \in Nat \ {0}
      /\ KW \in Nat \ {0} /\ R \in Nat \ {0} /\ H = W * sp
      /\ \/ R = 1 /\ kv = KW * sp
         \/ KW = 1 /\ sp = kv * R
      /\ r \in 0 .. sp - 1 /\ h \in 1 .. W
  BY Layout
<1>2. H % kv = 0 /\ (Packs(j) => kv % sp = 0 \/ kv = 1)
  BY JobsAssumption DEF SupportedLayout
<1>3. KVHead(h, W, KW) = ((h - 1) \div (W \div KW)) + 1
  BY DEF KVHead
<1>4. KVHead(r * W + h, H, kv) = (((r * W + h) - 1) \div m) + 1
  BY DEF KVHead
<1>5. \A g : CopyOf(j, g) = IF Packs(j) THEN ((g - 1) % kv) + 1 ELSE ((g - 1) \div R) + 1
  BY DEF CopyOf
<1> HIDE DEF sp, H, kv, W, KW, R
<1>6. m \in Nat \ {0} /\ H = kv * m
  <2>1. m \in Nat /\ H = kv * m
    BY <1>1, <1>2, Divides, DivBounds
  <2> HIDE DEF m
  <2> QED
    BY <1>1, <2>1
<1>7. r * W \in Nat /\ r * W + h - 1 \in Nat /\ (r * W + h) - 1 = r * W + h - 1
  BY <1>1
<1> HIDE DEF m
<1>8. CASE R = 1 /\ kv = KW * sp
  <2>1. W = KW * m
    <3>1. W * sp = (KW * sp) * m
      BY <1>1, <1>6, <1>8
    <3>2. (KW * sp) * m = (KW * m) * sp
      BY <1>1, <1>6
    <3>3. (W * sp) \div sp = W /\ ((KW * m) * sp) \div sp = KW * m
      BY <1>1, <1>6, Quotient
    <3> QED
      BY <3>1, <3>2, <3>3
  <2>2. W \div KW = m
    BY <1>1, <1>6, <2>1, Quotient
  <2> DEFINE q == (h - 1) \div m
  <2>3. q \in Nat /\ m * q <= h - 1 /\ h - 1 < m * q + m
    BY <1>1, <1>6, DivBounds
  <2> HIDE DEF q
  <2>4. q + 1 \in 1 .. KW
    <3> SUFFICES ASSUME q >= KW PROVE FALSE
      BY <1>1, <2>3
    <3>1. m * KW <= m * q
      BY <1>1, <1>6, <2>3
    <3>2. m * KW = KW * m /\ m * KW \in Nat /\ m * q \in Nat
      BY <1>1, <1>6, <2>3
    <3> QED
      BY <1>1, <2>1, <2>3, <3>1, <3>2
  <2>5. (r * W + h - 1) \div m = r * KW + q
    <3>1. m * (r * KW + q) = (r * (KW * m)) + m * q
      BY <1>1, <1>6, <2>3
    <3>2. r * KW + q \in Nat
      BY <1>1, <2>3
    <3>3. r * W + h - 1 = (r * (KW * m)) + (h - 1)
      BY <1>1, <2>1
    <3>4. r * (KW * m) \in Nat /\ m * q \in Nat
      BY <1>1, <1>6, <2>3
    <3>5. m * (r * KW + q) <= r * W + h - 1 /\ r * W + h - 1 < m * (r * KW + q) + m
      BY <1>1, <1>6, <2>3, <3>1, <3>3, <3>4
    <3> QED
      BY <1>6, <1>7, <3>2, <3>5, DivUnique
  <2> DEFINE g == r * KW + (q + 1)
  <2>6. g - 1 \in Nat /\ g - 1 < kv /\ g = r * KW + q + 1
    <3>1. (r + 1) * KW <= sp * KW
      BY <1>1
    <3>2. (r + 1) * KW = r * KW + KW /\ sp * KW = kv /\ r * KW \in Nat
      BY <1>1, <1>8
    <3> QED
      BY <1>1, <2>3, <2>4, <3>1, <3>2
  <2>7. CopyOf(j, g) = g
    <3> HIDE DEF g
    <3>1. (g - 1) % kv = g - 1
      BY <1>1, <2>6
    <3>2. (g - 1) \div R = g - 1
      BY <1>8, <2>6, DivUnique
    <3> QED
      BY <1>5, <2>6, <3>1, <3>2
  <2>8. KVHead(h, W, KW) = q + 1
    BY <1>3, <2>2 DEF q
  <2> QED
    BY <1>4, <1>7, <2>4, <2>5, <2>6, <2>7, <2>8 DEF sp, H, kv, W, KW, R
<1>9. CASE KW = 1 /\ sp = kv * R
  <2>1. W \div KW = W
    BY <1>1, <1>9, DivUnique
  <2>2. (h - 1) \div W = 0
    BY <1>1, DivUnique
  <2>3. KVHead(h, W, KW) = 1
    BY <1>3, <2>1, <2>2
  <2>4. m = W * R
    <3>1. kv * m = W * (kv * R)
      BY <1>1, <1>6, <1>9
    <3>2. W * (kv * R) = (W * R) * kv /\ kv * m = m * kv
      BY <1>1, <1>6
    <3>3. (m * kv) \div kv = m /\ ((W * R) * kv) \div kv = W * R
      BY <1>1, <1>6, Quotient
    <3> QED
      BY <3>1, <3>2, <3>3
  <2> DEFINE a == r \div R
  <2>5. a \in Nat /\ R * a <= r /\ r < R * a + R
    BY <1>1, DivBounds
  <2> HIDE DEF a
  <2>6. (r * W + h - 1) \div m = a
    <3>1. W * (R * a) <= W * r
      BY <1>1, <2>5
    <3>2. W * (r + 1) <= W * (R * a + R)
      BY <1>1, <2>5
    <3>3. W * (R * a) = m * a /\ W * (R * a + R) = m * a + m /\ W * (r + 1) = r * W + W
      BY <1>1, <2>4, <2>5
    <3>4. m * a \in Nat /\ r * W \in Nat /\ W * r = r * W
      BY <1>1, <1>6, <2>5
    <3>5. m * a <= r * W + h - 1 /\ r * W + h - 1 < m * a + m
      BY <1>1, <1>6, <3>1, <3>2, <3>3, <3>4
    <3> QED
      BY <1>6, <1>7, <2>5, <3>5, DivUnique
  <2>7. r * KW + 1 = r + 1 /\ (r + 1) - 1 = r
    BY <1>1, <1>9
  <2>8. CopyOf(j, r + 1) = a + 1
    <3>1. CASE ~Packs(j)
      BY <1>5, <2>7, <3>1 DEF a
    <3>2. CASE kv = 1
      <4>1. R = sp /\ r \div R = 0 /\ r % 1 = 0
        <5>1. R = sp
          BY <1>1, <1>9, <3>2
        <5>2. r \div R = 0
          BY <1>1, <5>1, DivUnique
        <5> QED
          BY <1>1, <5>1, <5>2
      <4> QED
        BY <1>5, <2>7, <3>2, <4>1 DEF a
    <3>3. CASE kv % sp = 0 /\ kv # 1
      <4>1. R = 1 /\ kv = sp
        <5> DEFINE d == kv \div sp
        <5>1. d \in Nat /\ kv = sp * d
          BY <1>1, <3>3, Divides, DivBounds
        <5> HIDE DEF d
        <5>2. kv * 1 = kv * (R * d)
          BY <1>1, <1>9, <5>1
        <5>3. (1 * kv) \div kv = 1 /\ ((R * d) * kv) \div kv = R * d
          BY <1>1, <5>1, Quotient
        <5>4. 1 * kv = kv * 1 /\ (R * d) * kv = kv * (R * d)
          BY <1>1, <5>1
        <5>5. R * d = 1
          BY <5>2, <5>3, <5>4
        <5>6. R = 1
          BY <1>1, <5>1, <5>5
        <5> QED
          BY <1>1, <1>9, <5>6
      <4>2. r % kv = r /\ r \div R = r
        <5>1. r % kv = r
          BY <1>1, <4>1
        <5>2. r \div 1 = r
          BY <1>1, DivUnique
        <5> QED
          BY <4>1, <5>1, <5>2
      <4> QED
        BY <1>5, <2>7, <4>1, <4>2 DEF a
    <3> QED
      BY <1>2, <3>1, <3>2, <3>3
  <2> QED
    BY <1>1, <1>4, <1>7, <1>9, <2>3, <2>6, <2>7, <2>8 DEF sp, H, kv, W, KW, R
<1> QED
  BY <1>1, <1>8, <1>9


-----------------------------------------------------------------------------
(* The input of the model.                                                 *)

(* A concatenation of one sequence per segment is a sequence.              *)
LEMMA FlattenIsSeq ==
  ASSUME NEW segs, Segmented(segs), NEW ss, PerToken(segs, ss)
  PROVE  \E T : FlattenSeq(ss) \in Seq(T)
<1>1. Len(ss) \in Nat /\ ss = [s \in 1 .. Len(ss) |-> ss[s]]
  BY DEF Segmented, PerToken
<1>2. \A s \in 1 .. Len(ss) : \E T : ss[s] \in Seq(T)
  BY DEF PerToken
<1>3. PICK S : ss \in Seq(Seq(S))
  BY <1>1, <1>2, SeqsOverOneSet
<1> QED
  BY <1>3, Flatten

(* A row is a prompt and a response.                                       *)
LEMMA BatchOfJob ==
  ASSUME NEW j \in Jobs
  PROVE  /\ IsBatch(j.rows) /\ Len(j.rows) \in Nat \ {0}
         /\ \A i \in 1 .. Len(j.rows) :
              /\ j.rows[i].plen \in Nat \ {0} /\ j.rows[i].rlen \in Nat
              /\ Len(Tokens(j.rows[i])) = j.rows[i].plen + j.rows[i].rlen
              /\ \E T : Tokens(j.rows[i]) \in Seq(T)
<1>1. /\ Len(j.rows) \in Nat \ {0}
      /\ \A i \in 1 .. Len(j.rows) : j.rows[i].plen \in Nat \ {0} /\ j.rows[i].rlen \in Nat
  BY JobsAssumption
<1>2. IsBatch(j.rows)
  BY <1>1 DEF IsBatch
<1> QED
  BY <1>1, <1>2, TokensOfRow

(* The segments of the standard path are the rows.                         *)
LEMMA StandardSegments ==
  ASSUME NEW j \in Jobs, ~Packs(j)
  PROVE  LET segs == Segments(j)
         IN  /\ Segmented(segs) /\ Len(segs) = Len(j.rows)
             /\ \A i \in 1 .. Len(j.rows) : segs[i].toks = Tokens(j.rows[i])
<1> DEFINE segs == Segments(j)  n == Len(j.rows)
<1>1. segs = [i \in 1 .. n |-> [grp |-> i, seg |-> 0, row |-> i, toks |-> Tokens(j.rows[i])]]
  BY DEF Segments
<1>2. n \in Nat /\ \A i \in 1 .. n : \E T : Tokens(j.rows[i]) \in Seq(T)
  BY BatchOfJob
<1> HIDE DEF segs, n
<1>3. Len(segs) = n /\ \A i \in 1 .. n : segs[i].toks = Tokens(j.rows[i])
  BY <1>1, <1>2
<1>4. Segmented(segs)
  BY <1>2, <1>3 DEF Segmented
<1> QED
  BY <1>3, <1>4 DEF segs, n

(* A packed micro-batch is the prompt, then the responses.                 *)
LEMMA PackedSegments ==
  ASSUME NEW j \in Jobs, Packs(j)
  PROVE  LET segs == Segments(j)
         IN  /\ Segmented(segs) /\ Len(segs) = Len(j.rows) + 1
             /\ PromptSegment(segs, 1) = 1
             /\ Len(segs[1].toks) = j.rows[1].plen
             /\ \A s \in 1 .. Len(segs) : segs[s].grp = 1
             /\ \A i \in 1 .. Len(j.rows) : Len(segs[i + 1].toks) = j.rows[i].rlen
<1> DEFINE rows == j.rows  n == Len(rows)  segs == Segments(j)  sizes == <<n>>
<1>1. /\ n \in Nat \ {0} /\ IsBatch(rows)
      /\ \A i \in 1 .. n : rows[i].prompt = rows[1].prompt /\ rows[i].plen = rows[1].plen
  BY BatchOfJob, JobsAssumption
<1>2. segs = Repack(rows, GroupSizes(NoUid, n))
  BY DEF Segments
<1> HIDE DEF segs, rows, n
<1>3. /\ GroupSizes(NoUid, n) = sizes /\ sizes \in Seq(Nat \ {0}) /\ Len(sizes) = 1
      /\ Before(sizes, 1) = 0 /\ Before(sizes, 2) = n /\ sizes[1] = n
  BY <1>1, OneGroup
<1> HIDE DEF sizes
<1>4. Grouped(rows, sizes)
  <2>1. Before(sizes, Len(sizes) + 1) = Len(rows)
    BY <1>3 DEF n
  <2>2. ASSUME NEW g \in 1 .. Len(sizes), NEW i \in 1 .. sizes[g]
        PROVE  /\ rows[Before(sizes, g) + i].prompt = rows[Before(sizes, g) + 1].prompt
               /\ rows[Before(sizes, g) + i].plen = rows[Before(sizes, g) + 1].plen
    <3>1. g = 1 /\ i \in 1 .. n /\ 0 + i = i /\ 0 + 1 = 1
      BY <1>1, <1>3
    <3> QED
      BY <1>1, <1>3, <3>1
  <2> QED
    BY <1>3, <2>1, <2>2 DEF Grouped
<1>5. IsRepack(rows, sizes, segs)
  BY <1>2, <1>3, <1>4, RepackIsRepack
<1>6. Segmented(segs)
  BY <1>1, <1>4, <1>5, SegmentsOfBatch
<1>7. \A i \in 0 .. n : SegmentAt(sizes, 1, i) = i + 1
  <2> DEFINE v == GroupLengths(sizes)
  <2>1. Len(v) = 1 /\ v[1] = n + 1
    BY <1>1, <1>3 DEF GroupLengths
  <2> HIDE DEF v
  <2>2. Before(v, 1) = 0
    BY <1>1, <2>1, BeforeDef
  <2> QED
    BY <1>1, <2>2 DEF SegmentAt, v
<1>8. Len(segs) = n + 1
  <2>1. Len(segs) \in Nat
    BY <1>5 DEF IsRepack
  <2>2. \A s \in 1 .. Len(segs) : \E i \in 0 .. n : s = i + 1
    <3> TAKE s \in 1 .. Len(segs)
    <3>1. PICK g \in 1 .. Len(sizes) : \E i \in 0 .. sizes[g] : s = SegmentAt(sizes, g, i)
      BY <1>5 DEF IsRepack
    <3>2. g = 1
      BY <1>3, <3>1
    <3> QED
      BY <1>3, <1>7, <3>1, <3>2
  <2>3. n + 1 \in 1 .. Len(segs)
    <3>1. n \in 0 .. sizes[1] /\ 1 \in 1 .. Len(sizes)
      BY <1>1, <1>3
    <3>2. SegmentAt(sizes, 1, n) \in 1 .. Len(segs)
      BY <1>5, <3>1 DEF IsRepack
    <3> QED
      BY <1>1, <1>7, <3>2
  <2>4. \A s \in 1 .. Len(segs) : s <= n + 1
    BY <1>1, <2>2
  <2>5. Len(segs) \in 1 .. Len(segs)
    BY <1>1, <2>1, <2>3
  <2>6. Len(segs) <= n + 1
    BY <2>4, <2>5
  <2> QED
    BY <1>1, <2>1, <2>3, <2>6
<1>9. PromptSegment(segs, 1) = 1
  <2>1. 1 \in 1 .. Len(sizes) /\ SegmentAt(sizes, 1, 0) = 1
    <3>1. 0 \in 0 .. n /\ 0 + 1 = 1
      BY <1>1
    <3> QED
      BY <1>3, <1>7, <3>1
  <2> QED
    BY <1>4, <1>5, <2>1, PromptSegmentIs
<1>10. ASSUME NEW i \in 0 .. n
       PROVE  /\ segs[i + 1].grp = 1
              /\ segs[i + 1].toks = SegmentTokens(rows, sizes, 1, i)
  <2>1. 1 \in 1 .. Len(sizes) /\ i \in 0 .. sizes[1] /\ SegmentAt(sizes, 1, i) = i + 1
    BY <1>3, <1>7
  <2> QED
    BY <1>5, <2>1 DEF IsRepack
<1>11. \A s \in 1 .. Len(segs) : segs[s].grp = 1
  <2> TAKE s \in 1 .. Len(segs)
  <2>1. s - 1 \in 0 .. n /\ s = (s - 1) + 1
    BY <1>1, <1>8
  <2> QED
    BY <1>10, <2>1
<1>12. 1 \in 1 .. Len(sizes) /\ 0 + 1 = 1 /\ 0 \in 0 .. n
  BY <1>1, <1>3
<1>13. Len(segs[1].toks) = rows[1].plen
  <2>1. Len(SegmentTokens(rows, sizes, 1, 0)) = rows[Before(sizes, 1) + 1].plen
    BY <1>1, <1>4, <1>12, TokensOfPrompt
  <2> QED
    BY <1>3, <1>10, <1>12, <2>1
<1>14. ASSUME NEW i \in 1 .. n PROVE Len(segs[i + 1].toks) = rows[i].rlen
  <2>1. i \in 1 .. sizes[1] /\ i \in 0 .. n /\ Before(sizes, 1) + i = i
    BY <1>1, <1>3
  <2>2. Len(SegmentTokens(rows, sizes, 1, i)) = rows[Before(sizes, 1) + i].rlen
    BY <1>1, <1>4, <1>12, <2>1, TokensOfResponse
  <2> QED
    BY <1>10, <2>1, <2>2
<1> QED
  BY <1>6, <1>8, <1>9, <1>11, <1>13, <1>14 DEF segs, rows, n

(* A job has tokens.                                                       *)
LEMMA TokensOfJob ==
  ASSUME NEW j \in Jobs
  PROVE  LET segs == Segments(j)
         IN  /\ Segmented(segs) /\ 1 \in 1 .. Len(segs) /\ Len(segs[1].toks) \in Nat \ {0}
             /\ Offset(segs, 1) = 0
             /\ Len(Packed(segs)) \in Nat \ {0}
             /\ \E T : Packed(segs) \in Seq(T)
<1> DEFINE segs == Segments(j)
           ss == [s \in 1 .. Len(segs) |-> segs[s].toks]
<1>1. Segmented(segs) /\ 1 \in 1 .. Len(segs) /\ Len(segs[1].toks) \in Nat \ {0}
  <2>1. Len(j.rows) \in Nat \ {0} /\ 1 \in 1 .. Len(j.rows)
    BY BatchOfJob
  <2>2. j.rows[1].plen \in Nat \ {0} /\ j.rows[1].rlen \in Nat
    BY <2>1, BatchOfJob
  <2>3. CASE Packs(j)
    <3> HIDE DEF segs
    <3>1. Segmented(segs) /\ Len(segs) = Len(j.rows) + 1 /\ Len(segs[1].toks) = j.rows[1].plen
      BY <2>3, PackedSegments DEF segs
    <3> QED
      BY <2>1, <2>2, <3>1
  <2>4. CASE ~Packs(j)
    <3>1. Segmented(segs) /\ Len(segs) = Len(j.rows) /\ segs[1].toks = Tokens(j.rows[1])
      BY <2>1, <2>4, StandardSegments
    <3>2. Len(Tokens(j.rows[1])) = j.rows[1].plen + j.rows[1].rlen
      BY <2>1, BatchOfJob
    <3> HIDE DEF segs
    <3> QED
      BY <2>1, <2>2, <3>1, <3>2
  <2> QED
    BY <2>3, <2>4
<1> HIDE DEF segs
<1>2. PerToken(segs, ss) /\ Packed(segs) = FlattenSeq(ss)
  BY <1>1 DEF PerToken, Segmented, Packed
<1> HIDE DEF ss
<1>3. Flat(segs, ss, Packed(segs)) /\ \E T : Packed(segs) \in Seq(T)
  BY <1>1, <1>2, FlattenSegments, FlattenIsSeq
<1>4. Offset(segs, 1) = 0
  <2> DEFINE v == [i \in 1 .. Len(segs) |-> Len(segs[i].toks)]
  <2>1. Len(segs) \in Nat /\ Len(v) = Len(segs)
    BY <1>1 DEF Segmented
  <2>2. \A k \in 1 .. Len(v) : v[k] \in Nat
    <3> TAKE k \in 1 .. Len(v)
    <3>1. k \in 1 .. Len(segs) /\ v[k] = Len(segs[k].toks)
      BY <2>1
    <3>2. PICK T : segs[k].toks \in Seq(T)
      BY <1>1, <3>1 DEF Segmented
    <3> QED
      BY <3>1, <3>2
  <2>3. Offset(segs, 1) = Before(v, 1)
    BY DEF Offset
  <2> HIDE DEF v
  <2> QED
    BY <2>1, <2>2, <2>3, BeforeDef
<1>5. Len(Packed(segs)) \in Nat \ {0}
  <2>1. 1 \in 1 .. Len(segs[1].toks)
    BY <1>1
  <2>2. Offset(segs, 1) + 1 \in 1 .. Len(Packed(segs)) /\ Len(Packed(segs)) \in Nat
    BY <1>1, <1>3, <2>1 DEF Flat
  <2> QED
    BY <2>2
<1> QED
  BY <1>1, <1>3, <1>4, <1>5 DEF segs

(* A position in a segment is a position in the whole.                     *)
LEMMA InsideSegment ==
  ASSUME NEW segs, Segmented(segs),
         NEW s \in 1 .. Len(segs), NEW k \in 1 .. Len(segs[s].toks)
  PROVE  Offset(segs, s) \in Nat /\ Offset(segs, s) + k \in 1 .. Len(Packed(segs))
BY PackedTokens DEF Flat

(* position_ids has an entry per token, the first of them 0.               *)
LEMMA PositionsOfJob ==
  ASSUME NEW j \in Jobs, ~Packs(j)
  PROVE  /\ Len(PositionIds(j)) = Len(Packed(Segments(j)))
         /\ \E T : PositionIds(j) \in Seq(T)
         /\ PositionIds(j)[1] = 0
<1> DEFINE segs == Segments(j)  rows == j.rows
           ss == [i \in 1 .. Len(rows) |-> [k \in 1 .. Len(Tokens(rows[i])) |-> k - 1]]
<1>1. PositionIds(j) = FlattenSeq(ss)
  BY DEF PositionIds
<1>2. /\ Segmented(segs) /\ Len(segs) = Len(rows) /\ Len(rows) \in Nat
      /\ \A i \in 1 .. Len(rows) : segs[i].toks = Tokens(rows[i])
  BY StandardSegments, BatchOfJob
<1>3. /\ 1 \in 1 .. Len(segs) /\ Len(segs[1].toks) \in Nat \ {0} /\ Offset(segs, 1) = 0
  BY TokensOfJob
<1>4. \A i \in 1 .. Len(rows) : Len(Tokens(rows[i])) \in Nat
  BY BatchOfJob
<1> HIDE DEF segs, rows
<1>5. PerToken(segs, ss)
  <2>1. Len(ss) = Len(segs) /\ ss = [s \in 1 .. Len(segs) |-> ss[s]]
    BY <1>2
  <2>2. \A s \in 1 .. Len(segs) : Len(ss[s]) = Len(segs[s].toks) /\ ss[s] \in Seq(Int)
    BY <1>2, <1>4
  <2> HIDE DEF ss
  <2> QED
    BY <2>1, <2>2 DEF PerToken
<1>6. Flat(segs, ss, PositionIds(j)) /\ \E T : PositionIds(j) \in Seq(T)
  BY <1>1, <1>2, <1>5, FlattenSegments, FlattenIsSeq
<1>7. Len(PositionIds(j)) = Len(Packed(segs))
  <2>1. Len(PositionIds(j)) = Offset(segs, Len(segs) + 1)
    BY <1>6 DEF Flat
  <2>2. Len(Packed(segs)) = Offset(segs, Len(segs) + 1)
    BY <1>2, PackedTokens DEF Flat
  <2> QED
    BY <2>1, <2>2
<1>8. PositionIds(j)[1] = 0
  <2>1. 1 \in 1 .. Len(segs[1].toks) /\ 0 + 1 = 1 /\ 1 - 1 = 0
    BY <1>3
  <2>2. PositionIds(j)[0 + 1] = ss[1][1]
    BY <1>3, <1>6, <2>1 DEF Flat
  <2>3. ss[1][1] = 0
    BY <1>2, <1>3, <2>1
  <2> QED
    BY <2>1, <2>2, <2>3
<1> QED
  BY <1>6, <1>7, <1>8 DEF segs

(* The shared logit is that of a token.                                    *)
LEMMA SharedInside ==
  ASSUME NEW j \in Jobs, Packs(j)
  PROVE  SharedPosition(Segments(j), 1) \in 1 .. Len(Packed(Segments(j)))
<1> DEFINE segs == Segments(j)
<1>1. /\ Segmented(segs) /\ 1 \in 1 .. Len(segs) /\ Len(segs[1].toks) \in Nat \ {0}
      /\ PromptSegment(segs, 1) = 1
  BY TokensOfJob, PackedSegments
<1> HIDE DEF segs
<1>2. SharedPosition(segs, 1) = Offset(segs, 1) + Len(segs[1].toks)
  BY <1>1 DEF SharedPosition
<1>3. Len(segs[1].toks) \in 1 .. Len(segs[1].toks)
  BY <1>1
<1>4. SharedPosition(segs, 1) \in 1 .. Len(Packed(segs))
  BY <1>1, <1>2, <1>3, InsideSegment
<1> QED
  BY <1>4 DEF segs

(* So is the one that scores any other token of a response.                *)
LEMMA ScoredInside ==
  ASSUME NEW j \in Jobs, NEW i \in 1 .. Len(j.rows), NEW k \in Nat \ {0},
         k <= j.rows[i].rlen
  PROVE  ScoredAt(j, Segments(j), i, k) \in 1 .. Len(Packed(Segments(j)))
<1> DEFINE segs == Segments(j)
<1>1. /\ j.rows[i].plen \in Nat \ {0} /\ j.rows[i].rlen \in Nat
      /\ Len(Tokens(j.rows[i])) = j.rows[i].plen + j.rows[i].rlen
      /\ Len(j.rows) \in Nat
  BY BatchOfJob
<1>2. CASE ~Packs(j)
  <2>1. Segmented(segs) /\ Len(segs) = Len(j.rows) /\ segs[i].toks = Tokens(j.rows[i])
    BY <1>2, StandardSegments
  <2>2. ScoredAt(j, segs, i, k) = Offset(segs, i) + j.rows[i].plen + k - 1
    BY <1>2 DEF ScoredAt
  <2> HIDE DEF segs
  <2> DEFINE l == j.rows[i].plen + k - 1
  <2>3. l \in 1 .. Len(segs[i].toks) /\ i \in 1 .. Len(segs)
    <3> DEFINE p == j.rows[i].plen  m == j.rows[i].rlen
    <3>1. /\ p \in Nat \ {0} /\ m \in Nat /\ k <= m
          /\ Len(segs[i].toks) = p + m /\ Len(segs) = Len(j.rows)
      BY <1>1, <2>1
    <3> HIDE DEF p, m
    <3>2. p + k - 1 \in 1 .. p + m
      BY <3>1
    <3> QED
      BY <3>1, <3>2 DEF p
  <2>4. Offset(segs, i) \in Nat /\ Offset(segs, i) + l \in 1 .. Len(Packed(segs))
    BY <2>1, <2>3, InsideSegment
  <2>5. Offset(segs, i) + l = Offset(segs, i) + j.rows[i].plen + k - 1
    BY <1>1, <2>4
  <2> QED
    BY <2>2, <2>4, <2>5 DEF segs
<1>3. CASE Packs(j) /\ k = 1
  BY <1>3, SharedInside DEF ScoredAt
<1>4. CASE Packs(j) /\ k # 1
  <2>1. Segmented(segs) /\ Len(segs) = Len(j.rows) + 1 /\ Len(segs[i + 1].toks) = j.rows[i].rlen
    BY <1>4, PackedSegments
  <2>2. ScoredAt(j, segs, i, k) = Offset(segs, i + 1) + k - 1
    BY <1>4 DEF ScoredAt
  <2> HIDE DEF segs
  <2>3. k - 1 \in 1 .. Len(segs[i + 1].toks) /\ i + 1 \in 1 .. Len(segs)
    BY <1>1, <1>4, <2>1
  <2>4. Offset(segs, i + 1) \in Nat /\ Offset(segs, i + 1) + (k - 1) \in 1 .. Len(Packed(segs))
    BY <2>1, <2>3, InsideSegment
  <2>5. Offset(segs, i + 1) + (k - 1) = Offset(segs, i + 1) + k - 1
    BY <2>4
  <2> QED
    BY <2>2, <2>4, <2>5 DEF segs
<1> QED
  BY <1>2, <1>3, <1>4

(* Every token attends to tokens of the job: on the packed path ...        *)
LEMMA AttendedOnPacked ==
  ASSUME NEW j \in Jobs, Packs(j)
  PROVE  LET T == Len(Packed(Segments(j)))
         IN  /\ Len(AttendedPacked(Segments(j))) = T
             /\ \A t \in 1 .. T : AttendedPacked(Segments(j))[t] \in Seq(1 .. T)
<1> DEFINE segs == Segments(j)
           T == Len(Packed(segs))
           own(s) == Offset(segs, s)
           p == PromptSegment(segs, 1)
           prompt == [k \in 1 .. Len(segs[p].toks) |-> Offset(segs, p) + k]
           ss == [s \in 1 .. Len(segs) |-> [k \in 1 .. Len(segs[s].toks) |->
                    (IF segs[s].seg = 0 THEN <<>> ELSE prompt) \o [i \in 1 .. k |-> own(s) + i]]]
<1>1. /\ Segmented(segs) /\ Len(segs) \in Nat
      /\ p \in 1 .. Len(segs) /\ \A s \in 1 .. Len(segs) : segs[s].grp = 1
      /\ T \in Nat
  <2>1. 1 \in 1 .. Len(segs) /\ T \in Nat
    BY TokensOfJob
  <2>2. Segmented(segs) /\ p = 1 /\ \A s \in 1 .. Len(segs) : segs[s].grp = 1
    BY PackedSegments
  <2> QED
    BY <2>1, <2>2 DEF Segmented
<1>2. AttendedPacked(segs) = FlattenSeq(ss)
  <2>1. ss = [s \in 1 .. Len(segs) |->
               LET o == Offset(segs, s)
                   q == PromptSegment(segs, segs[s].grp)
                   pr == [k \in 1 .. Len(segs[q].toks) |-> Offset(segs, q) + k]
               IN  [k \in 1 .. Len(segs[s].toks) |->
                      (IF segs[s].seg = 0 THEN <<>> ELSE pr) \o [i \in 1 .. k |-> o + i]]]
    BY <1>1
  <2> QED
    BY <2>1 DEF AttendedPacked
<1> HIDE DEF segs
<1>3. ASSUME NEW s \in 1 .. Len(segs)
      PROVE  /\ Len(segs[s].toks) \in Nat /\ Offset(segs, s) \in Nat
             /\ \A k \in 1 .. Len(segs[s].toks) : Offset(segs, s) + k \in 1 .. T
  <2>1. \E U : segs[s].toks \in Seq(U)
    BY <1>1 DEF Segmented
  <2>2. Offset(segs, s) \in Nat
    BY <1>1, PackedTokens DEF Flat
  <2> QED
    BY <1>1, <2>1, <2>2, InsideSegment
<1>4. prompt \in Seq(1 .. T)
  <2> HIDE DEF T, p
  <2> QED
    BY <1>1, <1>3
<1> HIDE DEF prompt, T, p
<1>5. ASSUME NEW s \in 1 .. Len(segs), NEW k \in 1 .. Len(segs[s].toks)
      PROVE  ss[s][k] \in Seq(1 .. T)
  <2> DEFINE before == IF segs[s].seg = 0 THEN <<>> ELSE prompt
             mine == [i \in 1 .. k |-> own(s) + i]
  <2>1. before \in Seq(1 .. T)
    <3>1. <<>> \in Seq(1 .. T)
      OBVIOUS
    <3>2. segs[s].seg = 0 \/ segs[s].seg # 0
      OBVIOUS
    <3> QED
      BY <1>4, <3>1, <3>2, Zenon
  <2>2. mine \in Seq(1 .. T)
    <3>1. k \in Nat /\ \A i \in 1 .. k : own(s) + i \in 1 .. T
      BY <1>3
    <3> HIDE DEF own
    <3> QED
      BY <3>1
  <2>3. ss[s][k] = before \o mine
    OBVIOUS
  <2> HIDE DEF before, mine, ss
  <2> QED
    BY <2>1, <2>2, <2>3
<1>6. PerToken(segs, ss)
  <2>1. Len(ss) = Len(segs) /\ ss = [s \in 1 .. Len(segs) |-> ss[s]]
    BY <1>1
  <2>2. ASSUME NEW s \in 1 .. Len(segs)
        PROVE  Len(ss[s]) = Len(segs[s].toks) /\ ss[s] \in Seq(Seq(1 .. T))
    <3> DEFINE l == Len(segs[s].toks)
    <3>1. l \in Nat /\ \A k \in 1 .. l : ss[s][k] \in Seq(1 .. T)
      BY <1>3, <1>5
    <3>2. ss[s] = [k \in 1 .. l |-> ss[s][k]]
      OBVIOUS
    <3> HIDE DEF ss, l
    <3>3. ss[s] \in [1 .. l -> Seq(1 .. T)]
      BY <3>1, <3>2
    <3>4. ss[s] \in Seq(Seq(1 .. T)) /\ Len(ss[s]) = l
      BY <3>1, <3>3
    <3> QED
      BY <3>4 DEF l
  <2> HIDE DEF ss
  <2> QED
    BY <2>1, <2>2 DEF PerToken
<1> HIDE DEF ss
<1>7. Flat(segs, ss, AttendedPacked(segs))
  BY <1>1, <1>2, <1>6, FlattenSegments
<1>8. Len(AttendedPacked(segs)) = T
  <2>1. Len(AttendedPacked(segs)) = Offset(segs, Len(segs) + 1)
    BY <1>7 DEF Flat
  <2>2. T = Offset(segs, Len(segs) + 1)
    BY <1>1, PackedTokens DEF Flat, T
  <2> QED
    BY <2>1, <2>2
<1>9. ASSUME NEW t \in 1 .. T PROVE AttendedPacked(segs)[t] \in Seq(1 .. T)
  <2>1. PICK s \in 1 .. Len(segs) : \E k \in 1 .. Len(segs[s].toks) : t = Offset(segs, s) + k
    BY <1>7, <1>8 DEF Flat
  <2>2. PICK k \in 1 .. Len(segs[s].toks) : t = Offset(segs, s) + k
    BY <2>1
  <2>3. AttendedPacked(segs)[t] = ss[s][k]
    BY <1>7, <2>2 DEF Flat
  <2> QED
    BY <1>5, <2>3
<1> QED
  BY <1>8, <1>9 DEF T, segs

(* The greatest of some numbers.                                           *)
LEMMA Greatest ==
  ASSUME NEW t \in Nat, NEW S, S \subseteq 1 .. t, S # {}
  PROVE  Max(S) \in S /\ \A y \in S : Max(S) >= y
<1>1. \E c \in S : \A y \in S : c >= y
  <2> DEFINE U == {t - y : y \in S}
  <2>1. U \subseteq Nat /\ U # {}
    <3>1. \A y \in S : t - y \in Nat
      OBVIOUS
    <3> QED
      BY <3>1
  <2>2. PICK u \in U : \A y \in U : u <= y
    <3> HIDE DEF U
    <3> QED
      BY <2>1, LeastNumber
  <2>3. PICK c \in S : u = t - c
    OBVIOUS
  <2>4. ASSUME NEW y \in S PROVE c >= y
    <3>1. t - y \in U
      OBVIOUS
    <3>2. t - c <= t - y
      BY <2>2, <2>3, <3>1
    <3> QED
      BY <2>3, <3>2
  <2> QED
    BY <2>4
<1> QED
  BY <1>1 DEF Max

(* ... and on the standard path, where a token attends to what is between  *)
(* it and the last position 0.                                             *)
LEMMA AttendedOnStandard ==
  ASSUME NEW pos, Len(pos) \in Nat, NEW t \in 1 .. Len(pos),
         NEW z \in 1 .. t, pos[z] = 0
  PROVE  /\ AttendedByPosition(pos)[t] \in Seq(z .. t)
         /\ AttendedByPosition(pos)[t] =
              LET start == Max({k \in 1 .. t : pos[k] = 0})
              IN  [k \in 1 .. t - start + 1 |-> start + k - 1]
<1> DEFINE S == {k \in 1 .. t : pos[k] = 0}
           start == Max(S)
<1>1. S \subseteq 1 .. t /\ z \in S /\ t \in Nat
  OBVIOUS
<1>2. start \in S /\ start >= z
  <2> HIDE DEF S
  <2> QED
    BY <1>1, Greatest
<1>3. AttendedByPosition(pos)[t] = [k \in 1 .. t - start + 1 |-> start + k - 1]
  BY DEF AttendedByPosition
<1>4. start \in 1 .. t
  BY <1>1, <1>2
<1> HIDE DEF start
<1>5. [k \in 1 .. t - start + 1 |-> start + k - 1] \in Seq(z .. t)
  <2>1. t - start + 1 \in Nat
    BY <1>4
  <2>2. \A k \in 1 .. t - start + 1 : start + k - 1 \in z .. t
    BY <1>2, <1>4
  <2> DEFINE l == t - start + 1
  <2> HIDE DEF l
  <2> QED
    BY <2>1, <2>2 DEF l
<1> QED
  BY <1>3, <1>5 DEF start

(* Padding after it does not change what a token attends to.               *)
LEMMA AttendedOfPrefix ==
  ASSUME NEW pos, NEW longer, Len(pos) \in Nat, Len(longer) \in Nat,
         Len(pos) <= Len(longer), \A k \in 1 .. Len(pos) : longer[k] = pos[k],
         NEW t \in 1 .. Len(pos)
  PROVE  AttendedByPosition(longer)[t] = AttendedByPosition(pos)[t]
<1>1. {k \in 1 .. t : longer[k] = 0} = {k \in 1 .. t : pos[k] = 0}
  OBVIOUS
<1>2. t \in 1 .. Len(longer)
  OBVIOUS
<1> QED
  BY <1>1, <1>2 DEF AttendedByPosition

-----------------------------------------------------------------------------
(* The all-to-alls.                                                        *)

(* Element t of the whole is element i of part q, and the other way round. *)
LEMMA PartAndIndex ==
  ASSUME NEW n \in Nat \ {0}, NEW m \in Nat \ {0}, NEW t \in 1 .. n * m
  PROVE  /\ (t - 1) \div n \in 0 .. m - 1
         /\ ((t - 1) % n) + 1 \in 1 .. n
         /\ ((t - 1) \div n) * n + (((t - 1) % n) + 1) = t
<1> DEFINE q == (t - 1) \div n  i == (t - 1) % n
<1>1. n * m \in Nat /\ t - 1 \in Nat /\ t \in Nat
  OBVIOUS
<1>2. q \in Nat /\ i \in 0 .. n - 1 /\ t - 1 = n * q + i
  BY <1>1
<1> HIDE DEF q, i
<1>3. q < m
  <2> SUFFICES ASSUME q >= m PROVE FALSE
    BY <1>2
  <2>1. n * m <= n * q
    BY <1>2
  <2>2. n * q \in Nat
    BY <1>2
  <2> QED
    BY <1>1, <1>2, <2>1, <2>2
<1>4. q * n + (i + 1) = t
  <2>1. q * n = n * q /\ n * q \in Nat
    BY <1>2
  <2> QED
    BY <1>1, <1>2, <2>1
<1> QED
  BY <1>2, <1>3, <1>4 DEF q, i

(* Index i of part q of m parts of length n is an index of the whole. *)
LEMMA IndexInWhole ==
  ASSUME NEW n \in Nat \ {0}, NEW m \in Nat \ {0}, NEW q \in 0 .. m - 1, NEW i \in 1 .. n
  PROVE  q * n + i \in 1 .. n * m /\ q * n + i \in Nat
<1>1. q \in Nat /\ m \in Nat /\ q < m
  OBVIOUS
<1>2. q * n + n <= m * n
  BY <1>1, MulMono
<1>3. m * n = n * m /\ q * n \in Nat /\ n * m \in Nat
  BY <1>1
<1> QED
  BY <1>2, <1>3

(* A slice by its first index and its width. *)
LEMMA SliceOfSeq ==
  ASSUME NEW s, NEW lo \in Nat, NEW w \in Nat
  PROVE  SubSeq(s, lo + 1, lo + w) = [h \in 1 .. w |-> s[lo + h]]
<1> DEFINE a == lo + 1  b == lo + w
<1>1. a \in Nat /\ b \in Nat /\ 1 + b - a = w /\ \A h \in 1 .. w : h + a - 1 = lo + h
  OBVIOUS
<1> HIDE DEF a, b
<1>2. SubSeq(s, a, b) = [h \in 1 .. (1 + b - a) |-> s[h + a - 1]]
  BY <1>1
<1>3. SubSeq(s, a, b) = [h \in 1 .. w |-> s[lo + h]]
  BY <1>1, <1>2
<1> QED
  BY <1>3 DEF a, b

(* Of a tensor F of tokens and heads, what rank r has: a slice of the      *)
(* tokens with all heads, or all tokens with a slice of the heads; of the  *)
(* first T tokens at least.                                                *)
TokenShard(f, F, r, n, w, T) ==
  /\ Len(f) = n
  /\ \A t \in 1 .. n : r * n + t <= T => f[t] = [h \in 1 .. w |-> F[r * n + t][h]]

HeadShard(f, F, r, n, w, T) ==
  /\ Len(f) = n
  /\ \A t \in 1 .. n : t <= T => f[t] = [h \in 1 .. w |-> F[t][r * w + h]]

(* gather_seq_scatter_heads goes from the one to the other ...             *)
LEMMA SeqFromAllShards ==
  ASSUME NEW name, NEW F, NEW n \in Nat \ {0}, NEW w \in Nat \ {0}, job.sp \in Nat \ {0},
         NEW r \in Ranks,
         \A q \in Ranks : TokenShard(x[q][name], F, q, n, w * job.sp, n * job.sp)
  PROVE  HeadShard(SeqFromAll(r, name), F, r, n * job.sp, w, n * job.sp)
<1> DEFINE sp == job.sp  X(q) == x[q][name]  all == SeqFromAll(r, name)
<1>1. sp \in Nat \ {0} /\ r \in 0 .. sp - 1 /\ Ranks = 0 .. sp - 1
      /\ n * sp \in Nat /\ w * sp \in Nat
  BY DEF Ranks
<1>2. ASSUME NEW q \in 0 .. sp - 1
      PROVE  /\ Len(X(q)) = n
             /\ \A t \in 1 .. n : X(q)[t] = [h \in 1 .. w * sp |-> F[q * n + t][h]]
  <2>1. TokenShard(X(q), F, q, n, w * sp, n * sp)
    BY <1>1
  <2> HIDE DEF sp
  <2>2. \A t \in 1 .. n : q * n + t \in 1 .. n * sp
    BY <1>1, IndexInWhole
  <2>3. \A t \in 1 .. n : q * n + t <= n * sp
    BY <1>1, <2>2
  <2> HIDE DEF X
  <2> QED
    BY <2>1, <2>3 DEF TokenShard, sp
<1>3. Len(X(r)[1]) \div sp = w
  <2>1. 1 \in 1 .. n
    OBVIOUS
  <2>2. X(r)[1] = [h \in 1 .. w * sp |-> F[r * n + 1][h]]
    BY <1>1, <1>2, <2>1
  <2> HIDE DEF X, sp
  <2>3. Len(X(r)[1]) = w * sp
    BY <1>1, <2>2
  <2> QED
    BY <1>1, <2>3, Quotient
<1>4. all = [t \in 1 .. n * sp |->
               SubSeq(X((t - 1) \div n)[((t - 1) % n) + 1], r * w + 1, (r + 1) * w)]
  BY <1>1, <1>2, <1>3 DEF SeqFromAll
<1> HIDE DEF X, sp, all
<1>5. ASSUME NEW t \in 1 .. n * sp
      PROVE  all[t] = [h \in 1 .. w |-> F[t][r * w + h]]
  <2> DEFINE q == (t - 1) \div n  i == ((t - 1) % n) + 1
  <2>1. q \in 0 .. sp - 1 /\ i \in 1 .. n /\ q * n + i = t
    BY <1>1, PartAndIndex
  <2>2. all[t] = SubSeq(X(q)[i], r * w + 1, (r + 1) * w)
    BY <1>4
  <2> HIDE DEF q, i
  <2>3. X(q)[i] = [h \in 1 .. w * sp |-> F[t][h]]
    BY <1>2, <2>1
  <2> DEFINE s == [h \in 1 .. w * sp |-> F[t][h]]  lo == r * w
  <2>4. lo \in Nat /\ (r + 1) * w = lo + w /\ lo + w <= w * sp
    <3>1. r * w + w <= sp * w /\ sp * w = w * sp
      BY <1>1, MulMono
    <3>2. r * w \in Nat /\ (r + 1) * w = r * w + w
      BY <1>1
    <3> QED
      BY <3>1, <3>2
  <2> DEFINE S == {F[t][h] : h \in 1 .. w * sp}
  <2>5. s \in Seq(S) /\ Len(s) = w * sp
    BY <1>1
  <2>6. SubSeq(s, lo + 1, lo + w) = [h \in 1 .. w |-> s[lo + h]]
    <3> HIDE DEF s, lo
    <3> QED
      BY <2>4, SliceOfSeq
  <2>7. \A h \in 1 .. w : s[lo + h] = F[t][lo + h]
    <3>1. \A h \in 1 .. w : lo + h \in 1 .. w * sp
      BY <1>1, <2>4
    <3> QED
      BY <3>1
  <2> HIDE DEF s
  <2>8. [h \in 1 .. w |-> s[lo + h]] = [h \in 1 .. w |-> F[t][lo + h]]
    BY <2>7
  <2> QED
    BY <2>2, <2>3, <2>4, <2>6, <2>8 DEF s, lo
<1>6. Len(all) = n * sp
  BY <1>1, <1>4
<1> QED
  BY <1>5, <1>6 DEF HeadShard, all, sp

(* ... and gather_heads_scatter_seq back.                                  *)
LEMMA HeadsFromAllShards ==
  ASSUME NEW name, NEW F, NEW n \in Nat \ {0}, NEW w \in Nat \ {0}, job.sp \in Nat \ {0},
         NEW r \in Ranks, NEW T \in Nat \ {0},
         \A q \in Ranks : HeadShard(x[q][name], F, q, n * job.sp, w, T)
  PROVE  TokenShard(HeadsFromAll(r, name), F, r, n, w * job.sp, T)
<1> DEFINE sp == job.sp  X(q) == x[q][name]  mine == HeadsFromAll(r, name)
<1>1. sp \in Nat \ {0} /\ r \in 0 .. sp - 1 /\ Ranks = 0 .. sp - 1
      /\ n * sp \in Nat \ {0} /\ w * sp \in Nat
  <2>1. n * sp \in Nat /\ n * sp >= n * 1
    OBVIOUS
  <2> QED
    BY <2>1 DEF Ranks
<1>2. ASSUME NEW q \in 0 .. sp - 1
      PROVE  /\ Len(X(q)) = n * sp
             /\ \A t \in 1 .. n * sp : t <= T => X(q)[t] = [h \in 1 .. w |-> F[t][q * w + h]]
  <2>1. HeadShard(X(q), F, q, n * sp, w, T)
    BY <1>1
  <2> HIDE DEF X, sp
  <2> QED
    BY <2>1 DEF HeadShard
<1>3. Len(X(r)) \div sp = n /\ Len(X(r)[1]) = w
  <2> HIDE DEF X, sp
  <2>1. 1 \in 1 .. n * sp /\ 1 <= T
    BY <1>1
  <2>2. X(r)[1] = [h \in 1 .. w |-> F[1][r * w + h]]
    BY <1>1, <1>2, <2>1
  <2>3. Len(X(r)[1]) = w
    BY <2>2
  <2> QED
    BY <1>1, <1>2, <2>3, Quotient
<1>4. mine = [t \in 1 .. n |-> [h \in 1 .. w * sp |->
                X((h - 1) \div w)[r * n + t][((h - 1) % w) + 1]]]
  BY <1>1, <1>3 DEF HeadsFromAll
<1> HIDE DEF X, sp, mine
<1>5. ASSUME NEW t \in 1 .. n, r * n + t <= T
      PROVE  mine[t] = [h \in 1 .. w * sp |-> F[r * n + t][h]]
  <2>1. r * n + t \in 1 .. n * sp
    BY <1>1, IndexInWhole
  <2> DEFINE g == r * n + t
  <2>2. mine[t] = [h \in 1 .. w * sp |-> X((h - 1) \div w)[g][((h - 1) % w) + 1]]
    BY <1>4
  <2>3. g \in 1 .. n * sp /\ g <= T
    BY <1>5, <2>1
  <2> HIDE DEF g
  <2>4. ASSUME NEW h \in 1 .. w * sp
        PROVE  X((h - 1) \div w)[g][((h - 1) % w) + 1] = F[g][h]
    <3> DEFINE q == (h - 1) \div w  i == ((h - 1) % w) + 1
    <3>1. q \in 0 .. sp - 1 /\ i \in 1 .. w /\ q * w + i = h
      BY <1>1, PartAndIndex
    <3> HIDE DEF q, i
    <3>2. X(q)[g] = [k \in 1 .. w |-> F[g][q * w + k]]
      BY <1>2, <2>3, <3>1
    <3>3. X(q)[g][i] = F[g][h]
      BY <3>1, <3>2
    <3> QED
      BY <3>3 DEF q, i
  <2>5. mine[t] = [h \in 1 .. w * sp |-> F[g][h]]
    BY <2>2, <2>4
  <2> QED
    BY <2>5 DEF g
<1>6. Len(mine) = n
  BY <1>4
<1> QED
  BY <1>5, <1>6 DEF TokenShard, mine, sp

SeqSlice(f, F, r, n, T) ==
  Len(f) = n /\ \A t \in 1 .. n : r * n + t <= T => f[t] = F[r * n + t]
WholeSeq(f, F, n, T) ==
  Len(f) = n /\ \A t \in 1 .. n : t <= T => f[t] = F[t]

(* all_gather puts the slices of a sequence together.                      *)
LEMMA GatheredSlices ==
  ASSUME NEW name, NEW F, NEW n \in Nat \ {0}, job.sp \in Nat \ {0}, NEW T,
         \A q \in Ranks : SeqSlice(x[q][name], F, q, n, T)
  PROVE  WholeSeq(Gathered(name), F, n * job.sp, T)
<1> DEFINE sp == job.sp  X(q) == x[q][name]  all == Gathered(name)
<1>1. sp \in Nat \ {0} /\ 0 \in Ranks /\ Ranks = 0 .. sp - 1 /\ n * sp \in Nat
  BY DEF Ranks
<1>2. all = [t \in 1 .. n * sp |-> X((t - 1) \div n)[((t - 1) % n) + 1]]
  BY <1>1 DEF Gathered, SeqSlice
<1>3. \A q \in 0 .. sp - 1 : \A t \in 1 .. n : q * n + t <= T => X(q)[t] = F[q * n + t]
  BY <1>1 DEF SeqSlice
<1> HIDE DEF X, sp, all
<1>4. ASSUME NEW t \in 1 .. n * sp, t <= T PROVE all[t] = F[t]
  <2>1. /\ (t - 1) \div n \in 0 .. sp - 1
        /\ ((t - 1) % n) + 1 \in 1 .. n
        /\ ((t - 1) \div n) * n + (((t - 1) % n) + 1) = t
    BY <1>1, PartAndIndex
  <2>2. X((t - 1) \div n)[((t - 1) % n) + 1] = F[t]
    BY <1>3, <1>4, <2>1
  <2> QED
    BY <1>2, <2>2
<1>5. Len(all) = n * sp
  BY <1>1, <1>2
<1> QED
  BY <1>4, <1>5 DEF WholeSeq, all, sp

-----------------------------------------------------------------------------
(* The micro-batch being run.                                              *)

Running == job \in Jobs /\ SupportedLayout(job) /\ input = Inputs(job)

(* The tokens, with padding, are divided evenly.                           *)
LEMMA SizesOfJob ==
  ASSUME Running
  PROVE  /\ Total \in Nat \ {0} /\ PadSize \in Nat /\ LocalSize \in Nat \ {0}
         /\ Total + PadSize = LocalSize * job.sp
         /\ job.sp = 1 => PadSize = 0 /\ LocalSize = Total
         /\ Total = Len(Packed(Segments(job)))
         /\ input.ids = Packed(Segments(job))
<1> DEFINE sp == job.sp  T == Total  P == PadSize
<1>1. input.ids = Packed(Segments(job)) /\ T = Len(Packed(Segments(job))) /\ T \in Nat \ {0}
  BY TokensOfJob DEF Running, Inputs, Total
<1>2. sp \in Nat \ {0}
  BY Layout DEF Running
<1>3. P = (sp - (T % sp)) % sp /\ LocalSize = (T + P) \div sp
  BY DEF PadSize, LocalSize
<1> HIDE DEF sp, T, P
<1> DEFINE a == T % sp  q == T \div sp
<1>4. a \in 0 .. sp - 1 /\ q \in Nat /\ T = sp * q + a
  BY <1>1, <1>2
<1> HIDE DEF a, q
<1>5. \E m \in Nat \ {0} : P \in Nat /\ T + P = m * sp
  <2>1. CASE a = 0
    <3>1. sp % sp = 0 /\ sp * q = q * sp /\ 0 * sp = 0
      <4>1. sp % sp = 0
        <5> DEFINE d == sp % sp  e == sp \div sp
        <5>1. d \in 0 .. sp - 1 /\ e \in Nat /\ sp = sp * e + d /\ e = 1
          BY <1>2, DivUnique
        <5> HIDE DEF d, e
        <5>2. sp * e = sp
          BY <1>2, <5>1
        <5>3. d = 0
          BY <1>2, <5>1, <5>2
        <5> QED
          BY <5>3 DEF d
      <4> QED
        BY <1>2, <1>4, <4>1
    <3>2. P = 0
      BY <1>2, <1>3, <2>1, <3>1 DEF a
    <3>3. q # 0
      BY <1>1, <1>2, <1>4, <2>1, <3>1
    <3>4. sp * q \in Nat
      BY <1>2, <1>4
    <3>5. q \in Nat \ {0} /\ P \in Nat /\ T + P = q * sp
      BY <1>1, <1>4, <2>1, <3>1, <3>2, <3>3, <3>4
    <3> QED
      BY <3>5
  <2>2. CASE a # 0
    <3>1. P = sp - a
      <4>1. sp - a \in Nat /\ sp - a < sp
        BY <1>2, <1>4, <2>2
      <4>2. (sp - a) % sp = sp - a
        BY <1>2, <4>1
      <4> QED
        BY <1>3, <4>2 DEF a
    <3>2. (q + 1) * sp = sp * q + sp /\ q + 1 \in Nat \ {0} /\ sp * q \in Nat
      BY <1>2, <1>4
    <3>3. T + P = (q + 1) * sp /\ P \in Nat
      BY <1>2, <1>4, <3>1, <3>2
    <3> QED
      BY <3>2, <3>3
  <2> QED
    BY <2>1, <2>2
<1>6. PICK m \in Nat \ {0} : P \in Nat /\ T + P = m * sp
  BY <1>5
<1>7. LocalSize = m
  BY <1>2, <1>3, <1>6, Quotient
<1>8. ASSUME sp = 1 PROVE P = 0 /\ LocalSize = T
  <2>1. P = 0
    <3>1. a = 0 /\ sp - a = 1 /\ 1 % 1 = 0
      BY <1>4, <1>8
    <3> QED
      BY <1>3, <1>8, <3>1 DEF a
  <2>2. m * 1 = m
    BY <1>6
  <2> QED
    BY <1>1, <1>6, <1>7, <1>8, <2>1, <2>2
<1> QED
  BY <1>1, <1>2, <1>6, <1>7, <1>8 DEF sp, T, P

(* The tensors of one device, of n tokens: entries named after a token and *)
(* a head, and K or V once its heads are repeated.                         *)
Entries(name, n, heads) == [t \in 1 .. n |-> [h \in 1 .. heads |-> <<name, t, h>>]]
Copies(j, name, n) ==
  [t \in 1 .. n |-> [g \in 1 .. j.kv * Repeats(j) |-> <<name, t, CopyOf(j, g)>>]]

(* A copy of a KV head is one of them.                                     *)
LEMMA CopyOfHead ==
  ASSUME NEW j \in Jobs, NEW g \in 1 .. j.kv * Repeats(j)
  PROVE  CopyOf(j, g) \in 1 .. j.kv
<1>1. j.kv \in Nat \ {0} /\ Repeats(j) \in Nat \ {0}
  BY Layout
<1>2. CASE Packs(j)
  <2>1. g \in Nat \ {0}
    BY <1>1
  <2>2. ((g - 1) % j.kv) \in 0 .. j.kv - 1
    BY <1>1, <2>1
  <2> QED
    BY <1>1, <1>2, <2>2 DEF CopyOf
<1>3. CASE ~Packs(j)
  <2>1. g \in 1 .. Repeats(j) * j.kv
    <3>1. Repeats(j) * j.kv = j.kv * Repeats(j)
      BY <1>1
    <3> QED
      BY <3>1
  <2>2. (g - 1) \div Repeats(j) \in 0 .. j.kv - 1
    BY <1>1, <2>1, PartAndIndex
  <2> QED
    BY <1>1, <1>3, <2>2 DEF CopyOf
<1> QED
  BY <1>2, <1>3

(* What a rank starts with: its tokens, with all heads.                    *)
LEMMA ProjectionShards ==
  ASSUME Running, NEW r \in Ranks, NEW name
  PROVE  /\ TokenShard(Projection(r, name, job.heads),
                       Entries(name, LocalSize * job.sp, job.heads),
                       r, LocalSize, Width(job) * job.sp, LocalSize * job.sp)
         /\ TokenShard(Repeated(job, Projection(r, name, job.kv)),
                       Copies(job, name, LocalSize * job.sp),
                       r, LocalSize, KVWidth(job) * job.sp, LocalSize * job.sp)
<1> DEFINE n == LocalSize  sp == job.sp  heads == job.heads  kv == job.kv
           K == kv * Repeats(job)
<1>1. /\ n \in Nat \ {0} /\ sp \in Nat \ {0} /\ heads \in Nat \ {0} /\ kv \in Nat \ {0}
      /\ heads = Width(job) * sp /\ K = KVWidth(job) * sp /\ K \in Nat
      /\ r \in 0 .. sp - 1
  BY SizesOfJob, Layout DEF Running, Ranks
<1>2. ASSUME NEW m
      PROVE  /\ Len(Projection(r, name, m)) = n
             /\ \A t \in 1 .. n :
                  Projection(r, name, m)[t] = [h \in 1 .. m |-> <<name, r * n + t, h>>]
  BY <1>1 DEF Projection, Global
<1>3. \A g \in 1 .. K : CopyOf(job, g) \in 1 .. kv
  BY CopyOfHead DEF Running
<1>4. Repeated(job, Projection(r, name, kv)) =
        [t \in 1 .. Len(Projection(r, name, kv)) |->
           [g \in 1 .. K |-> Projection(r, name, kv)[t][CopyOf(job, g)]]]
  BY DEF Repeated
<1>5. Copies(job, name, n * sp) =
        [t \in 1 .. n * sp |-> [g \in 1 .. K |-> <<name, t, CopyOf(job, g)>>]]
  BY DEF Copies
<1> HIDE DEF n, sp, heads, kv, K
<1>6. \A t \in 1 .. n : r * n + t \in 1 .. n * sp
  BY <1>1, IndexInWhole
<1>7. TokenShard(Projection(r, name, heads), Entries(name, n * sp, heads), r, n, heads, n * sp)
  <2>1. Len(Projection(r, name, heads)) = n
    BY <1>1, <1>2
  <2>2. ASSUME NEW t \in 1 .. n
        PROVE  Projection(r, name, heads)[t] =
                 [h \in 1 .. heads |-> Entries(name, n * sp, heads)[r * n + t][h]]
    <3> DEFINE u == r * n + t  all == n * sp
    <3>1. u \in 1 .. all
      BY <1>6
    <3>2. Projection(r, name, heads)[t] = [h \in 1 .. heads |-> <<name, u, h>>]
      BY <1>2
    <3> HIDE DEF u, all
    <3>3. Entries(name, all, heads)[u] = [h \in 1 .. heads |-> <<name, u, h>>]
      BY <3>1 DEF Entries
    <3>4. Projection(r, name, heads)[t] = [h \in 1 .. heads |-> Entries(name, all, heads)[u][h]]
      BY <3>2, <3>3
    <3> QED
      BY <3>4 DEF u, all
  <2> QED
    BY <2>1, <2>2 DEF TokenShard
<1>8. TokenShard(Repeated(job, Projection(r, name, kv)), Copies(job, name, n * sp),
                 r, n, K, n * sp)
  <2> DEFINE f == Repeated(job, Projection(r, name, kv))
  <2>1. Len(Projection(r, name, kv)) = n
    BY <1>1, <1>2
  <2>2. Len(f) = n
    BY <1>1, <1>4, <2>1
  <2>3. ASSUME NEW t \in 1 .. n
        PROVE  f[t] = [g \in 1 .. K |-> Copies(job, name, n * sp)[r * n + t][g]]
    <3> DEFINE u == r * n + t  all == n * sp
    <3>1. f[t] = [g \in 1 .. K |-> Projection(r, name, kv)[t][CopyOf(job, g)]]
      BY <1>4, <2>1
    <3>2. u \in 1 .. all
      BY <1>6
    <3>3. Projection(r, name, kv)[t] = [h \in 1 .. kv |-> <<name, u, h>>]
      BY <1>2
    <3>4. Copies(job, name, all) =
            [c \in 1 .. all |-> [g \in 1 .. K |-> <<name, c, CopyOf(job, g)>>]]
      BY <1>5
    <3> HIDE DEF u, all, f
    <3>5. Copies(job, name, all)[u] = [g \in 1 .. K |-> <<name, u, CopyOf(job, g)>>]
      BY <3>2, <3>4
    <3>6. ASSUME NEW g \in 1 .. K
          PROVE  Projection(r, name, kv)[t][CopyOf(job, g)] = Copies(job, name, all)[u][g]
      <4>1. CopyOf(job, g) \in 1 .. kv
        BY <1>3
      <4>2. Projection(r, name, kv)[t][CopyOf(job, g)] = <<name, u, CopyOf(job, g)>>
        BY <3>3, <4>1
      <4>3. Copies(job, name, all)[u][g] = <<name, u, CopyOf(job, g)>>
        BY <3>5
      <4> QED
        BY <4>2, <4>3
    <3>7. f[t] = [g \in 1 .. K |-> Copies(job, name, all)[u][g]]
      BY <3>1, <3>6
    <3> QED
      BY <3>7 DEF u, all
  <2> HIDE DEF f
  <2> QED
    BY <2>2, <2>3 DEF TokenShard, f
<1> QED
  BY <1>1, <1>7, <1>8 DEF n, sp, heads, kv, K

-----------------------------------------------------------------------------
(* What one device computes.                                               *)

OneDeviceOut == Attention(Entries("q", Total, job.heads), Entries("k", Total, job.kv),
                          Entries("v", Total, job.kv), OneDeviceAttended)

(* What the head of the model makes of it, and the gradient of an output.  *)
OneDeviceToken ==
  [t \in 1 .. Total |-> IF job.path = "dualkv" THEN OneDeviceOut[t]
                        ELSE LogProb(OneDeviceOut[t], input.rolled[t])]

Coefficient(t) == job.sp * (Uses(t, TRUE) + Uses(t, FALSE))
OneDeviceGrad ==
  [t \in 1 .. LocalSize * job.sp |-> [h \in 1 .. job.heads |->
     [from |-> <<t, h>>, c |-> Coefficient(t)]]]

(* What the output of token u for head H adds to the gradients.            *)
AllUses(u) == Uses(u, TRUE) + Uses(u, FALSE)
Contribution(u, H) == [from |-> <<u, H>>, c |-> Coefficient(u)]

(* The gradient of head g of token t on one device.                        *)
OneDeviceKVGrad ==
  [t \in 1 .. Total |-> [g \in 1 .. job.kv |->
     {Contribution(a[1], a[2]) : a \in
        {uh \in (1 .. Total) \X (1 .. job.heads) :
           /\ AllUses(uh[1]) > 0 /\ KVHead(uh[2], job.heads, job.kv) = g
           /\ t \in Range(OneDeviceAttended[uh[1]])}}]]

(***************************************************************************)
(* The inductive invariant: at each stage, the tensors of a rank f = x[r]  *)
(* are its share of those of one device, over n tokens per rank, T of all. *)
(***************************************************************************)
Stages == <<"gather_seq_scatter_heads", "flash_attention", "gather_heads_scatter_seq",
            "loss_head", "gather_outputs", "backward", "out_backward",
            "attention_backward", "projection_backward", "done">>

AtStart(f, r) ==
  /\ {"q", "k", "v", "pos"} \subseteq DOMAIN f
  /\ f.q = Projection(r, "q", job.heads)
  /\ f.k = Repeated(job, Projection(r, "k", job.kv))
  /\ f.v = Repeated(job, Projection(r, "v", job.kv))
  /\ f.pos = IF Packs(job) THEN <<>> ELSE SliceOf(PadPos(input.pos), r)

(* Padding tokens attend to padding tokens, if to any. *)
Attends(f, att, T, all) ==
  /\ Len(f) \in T .. all
  /\ \A t \in 1 .. T : f[t] = att[t]
  /\ \A t \in T + 1 .. Len(f) : f[t] \in Seq(T + 1 .. all)

Resharded(j, n, T, att, f, r) ==
  LET all == n * j.sp
  IN  /\ {"q", "k", "v", "attended"} \subseteq DOMAIN f
      /\ HeadShard(f.q, Entries("q", all, j.heads), r, all, Width(j), all)
      /\ HeadShard(f.k, Copies(j, "k", all), r, all, KVWidth(j), all)
      /\ HeadShard(f.v, Copies(j, "v", all), r, all, KVWidth(j), all)
      /\ Attends(f.attended, att, T, all)

HasOutput(j, n, T, out, f, r) ==
  /\ "out" \in DOMAIN f
  /\ HeadShard(f.out, out, r, n * j.sp, Width(j), T)

HasOwnOutput(j, n, T, out, f, r) ==
  /\ "out" \in DOMAIN f
  /\ TokenShard(f.out, out, r, n, Width(j) * j.sp, T)

HasToken(j, n, T, token, out, shared, f, r) ==
  /\ {"token", "shared"} \subseteq DOMAIN f
  /\ SeqSlice(f.token, token, r, n, T)
  /\ j.path = "fused" => f.shared = out[shared]

HasOwnGrad(j, n, grad, f, r) ==
  /\ "dout" \in DOMAIN f
  /\ TokenShard(f.dout, grad, r, n, Width(j) * j.sp, n * j.sp)

HasGrad(j, n, grad, f, r) ==
  /\ "dout" \in DOMAIN f
  /\ HeadShard(f.dout, grad, r, n * j.sp, Width(j), n * j.sp)

HasKVGrad(j, n, grad, f, r) ==
  /\ "dk" \in DOMAIN f
  /\ Len(f.dk) = n * j.sp
  /\ \A t \in 1 .. n * j.sp :
       f.dk[t] = [g \in 1 .. KVWidth(j) |->
         {grad[a[1]][r * Width(j) + a[2]] : a \in
            {uh \in (1 .. Len(f.attended)) \X (1 .. Width(j)) :
               t \in Range(f.attended[uh[1]])
                 /\ KVHead(uh[2], Width(j), KVWidth(j)) = g}}]

(* A token that is padding gets no gradient. *)
HasGradients(j, n, T, grad, f, r) ==
  \A t \in 1 .. n : \A g \in 1 .. j.kv :
    f.dk[t][g] = IF r * n + t <= T THEN grad[r * n + t][g] ELSE {}

SplitInv ==
  /\ Running
  /\ pc \in Range(Stages)
  /\ \A r \in Ranks :
       /\ pc = Stages[1] => AtStart(x[r], r)
       /\ pc # Stages[1] => Resharded(job, LocalSize, Total, OneDeviceAttended, x[r], r)
       /\ pc = Stages[3] => HasOutput(job, LocalSize, Total, OneDeviceOut, x[r], r)
       /\ pc = Stages[4] => HasOwnOutput(job, LocalSize, Total, OneDeviceOut, x[r], r)
       /\ pc = Stages[5] => HasToken(job, LocalSize, Total, OneDeviceToken, OneDeviceOut,
                                     input.shared, x[r], r)
       /\ pc = Stages[7] => HasOwnGrad(job, LocalSize, OneDeviceGrad, x[r], r)
       /\ pc = Stages[8] => HasGrad(job, LocalSize, OneDeviceGrad, x[r], r)
       /\ pc = Stages[9] => HasKVGrad(job, LocalSize, OneDeviceGrad, x[r], r)
       /\ pc = Stages[10] => HasGradients(job, LocalSize, Total, OneDeviceKVGrad, grads[r], r)
       /\ res[r] = <<>> \/ res[r] = OneDevice

-----------------------------------------------------------------------------
(* The steps.                                                              *)

(* A sequence over S is one over every larger set. *)
LEMMA SeqOfLarger ==
  ASSUME NEW S, NEW U, S \subseteq U, NEW s \in Seq(S)
  PROVE  s \in Seq(U)
<1>1. Len(s) \in Nat /\ s \in [1 .. Len(s) -> S]
  OBVIOUS
<1> DEFINE n == Len(s)
<1>2. s \in [1 .. n -> U] /\ n \in Nat
  BY <1>1
<1> HIDE DEF n
<1> QED
  BY <1>2

(* On one device every token attends to tokens of the job.                 *)
LEMMA OneDeviceAttends ==
  ASSUME Running
  PROVE  /\ Len(OneDeviceAttended) = Total
         /\ \A t \in 1 .. Total : OneDeviceAttended[t] \in Seq(1 .. Total)
<1>1. Total = Len(Packed(Segments(job))) /\ Total \in Nat
  BY SizesOfJob
<1>2. CASE Packs(job)
  <2>1. OneDeviceAttended = AttendedPacked(Segments(job))
    BY <1>2 DEF OneDeviceAttended, Attended, Running, Inputs
  <2> QED
    BY <1>1, <1>2, <2>1, AttendedOnPacked DEF Running
<1>3. CASE ~Packs(job)
  <2> DEFINE pos == PositionIds(job)
  <2>1. OneDeviceAttended = AttendedByPosition(pos)
    BY <1>3 DEF OneDeviceAttended, Attended, Running, Inputs
  <2>2. Len(pos) = Total /\ pos[1] = 0
    BY <1>1, <1>3, PositionsOfJob DEF Running
  <2> HIDE DEF pos
  <2>3. Len(AttendedByPosition(pos)) = Total
    BY <1>1, <2>2 DEF AttendedByPosition
  <2>4. ASSUME NEW t \in 1 .. Total PROVE AttendedByPosition(pos)[t] \in Seq(1 .. Total)
    <3>1. 1 \in 1 .. t /\ t \in 1 .. Len(pos) /\ Len(pos) \in Nat
      BY <1>1, <2>2
    <3>2. AttendedByPosition(pos)[t] \in Seq(1 .. t)
      BY <2>2, <3>1, AttendedOnStandard
    <3>3. 1 .. t \subseteq 1 .. Total
      BY <1>1
    <3> QED
      BY <3>2, <3>3, SeqOfLarger
  <2> QED
    BY <2>1, <2>3, <2>4
<1> QED
  BY <1>2, <1>3

(* Padding comes after the sequence; a slice is a part of the whole.       *)
Padded(s, f) == s \o [k \in 1 .. PadSize |-> f[k]]

(* Padding leaves the sequence alone and follows it. *)
LEMMA PaddedSequence ==
  ASSUME Running, NEW S, NEW s \in Seq(S), Len(s) = Total, NEW f
  PROVE  /\ Len(Padded(s, f)) = LocalSize * job.sp
         /\ \A t \in 1 .. Total : Padded(s, f)[t] = s[t]
         /\ \A k \in 1 .. PadSize : Padded(s, f)[Total + k] = f[k]
<1> DEFINE P == PadSize  T == Total  n == LocalSize * job.sp  v == [k \in 1 .. P |-> f[k]]
<1>1. P \in Nat /\ T \in Nat /\ T + P = n
  BY SizesOfJob
<1>2. Len(s) = T
  OBVIOUS
<1> HIDE DEF P, T, n
<1> DEFINE U == S \cup {f[k] : k \in 1 .. P}
<1>3. v \in Seq(U) /\ Len(v) = P /\ \A k \in 1 .. P : v[k] = f[k]
  BY <1>1
<1>4. S \subseteq U
  OBVIOUS
<1> HIDE DEF v, U
<1>5. s \in Seq(U)
  BY <1>4, SeqOfLarger
<1>6. /\ Len(s \o v) = Len(s) + Len(v)
      /\ \A k \in 1 .. Len(s) : (s \o v)[k] = s[k]
      /\ \A k \in 1 .. Len(v) : (s \o v)[Len(s) + k] = v[k]
  <2>1. v \in Seq(U)
    BY <1>3
  <2> QED
    BY <1>5, <2>1
<1>7. /\ Len(s \o v) = n
      /\ \A k \in 1 .. T : (s \o v)[k] = s[k]
      /\ \A k \in 1 .. P : (s \o v)[T + k] = f[k]
  BY <1>1, <1>2, <1>3, <1>6
<1> QED
  BY <1>7 DEF Padded, v, P, T, n

(* slice_input_tensor gives rank r the tokens r * LocalSize + 1 onwards. *)
LEMMA SliceOfRank ==
  ASSUME Running, NEW r \in Ranks, NEW s
  PROVE  SliceOf(s, r) = [t \in 1 .. LocalSize |-> s[r * LocalSize + t]]
<1> DEFINE n == LocalSize  lo == r * n
<1>1. n \in Nat \ {0} /\ r \in Nat
  BY SizesOfJob, Layout DEF Running, Ranks
<1>2. SliceOf(s, r) = SubSeq(s, r * n + 1, (r + 1) * n)
  BY DEF SliceOf
<1> HIDE DEF n
<1>3. lo \in Nat /\ (r + 1) * n = lo + n
  BY <1>1
<1>4. SliceOf(s, r) = SubSeq(s, lo + 1, lo + n)
  BY <1>2, <1>3
<1> HIDE DEF lo
<1>5. SubSeq(s, lo + 1, lo + n) = [t \in 1 .. n |-> s[lo + t]]
  BY <1>1, <1>3, SliceOfSeq
<1> QED
  BY <1>4, <1>5 DEF lo, n

(* With the gathered position_ids a token attends to what it attends to on *)
(* one device.                                                             *)
LEMMA RankAttends ==
  ASSUME Running, \A q \in Ranks : AtStart(x[q], q)
  PROVE  Attends(Attended(job, input.attended, Gathered("pos")), OneDeviceAttended,
                 Total, LocalSize * job.sp)
<1> DEFINE T == Total  P == PadSize  n == LocalSize  all == n * job.sp
           pos == PositionIds(job)
           f == Attended(job, input.attended, Gathered("pos"))
<1>1. T \in Nat \ {0} /\ P \in Nat /\ n \in Nat \ {0} /\ T + P = all /\ all \in Nat
      /\ T = Len(Packed(Segments(job)))
  BY SizesOfJob
<1>2. CASE Packs(job)
  <2>1. f = OneDeviceAttended
    BY <1>2 DEF OneDeviceAttended, Attended
  <2>2. Len(f) = T
    BY <2>1, OneDeviceAttends
  <2> HIDE DEF T, P, n, all, f
  <2>3. T \in T .. all /\ T + 1 .. T = {}
    BY <1>1
  <2>4. Attends(f, OneDeviceAttended, T, all)
    BY <2>1, <2>2, <2>3 DEF Attends
  <2> QED
    BY <2>4 DEF T, P, n, all, f
<1>3. CASE ~Packs(job)
  <2>1. /\ OneDeviceAttended = AttendedByPosition(pos)
        /\ f = AttendedByPosition(Gathered("pos"))
    BY <1>3 DEF OneDeviceAttended, Attended, Running, Inputs
  <2>2. Len(pos) = T /\ pos[1] = 0 /\ \E S : pos \in Seq(S)
    BY <1>1, <1>3, PositionsOfJob DEF Running
  <2> DEFINE F == PadPos(input.pos)
             up == [k \in 1 .. P |-> k - 1]
  <2>3. /\ Len(F) = all
        /\ \A t \in 1 .. T : F[t] = pos[t]
        /\ P # 0 => F[T + 1] = 0
    <3>1. PICK S : pos \in Seq(S)
      BY <2>2
    <3>2. F = Padded(pos, up)
      BY <1>3 DEF PadPos, Padded, Running, Inputs
    <3>3. P # 0 => 1 \in 1 .. P /\ up[1] = 0
      BY <1>1
    <3> HIDE DEF up, pos, F
    <3>4. /\ Len(F) = all
          /\ \A t \in 1 .. T : F[t] = pos[t]
          /\ \A k \in 1 .. P : F[T + k] = up[k]
      BY <2>2, <3>1, <3>2, PaddedSequence
    <3> HIDE DEF T, P, all
    <3> QED
      BY <3>3, <3>4
  <2>4. ASSUME NEW q \in Ranks
        PROVE  SeqSlice(x[q]["pos"], F, q, n, all)
    <3>1. x[q].pos = SliceOf(F, q)
      BY <1>3 DEF AtStart
    <3> HIDE DEF F
    <3>2. SliceOf(F, q) = [t \in 1 .. n |-> F[q * n + t]]
      BY SliceOfRank
    <3> HIDE DEF n
    <3> QED
      BY <1>1, <3>1, <3>2 DEF SeqSlice
  <2> DEFINE G == Gathered("pos")
  <2>5. /\ Len(G) = all
        /\ \A t \in 1 .. all : t <= all => G[t] = F[t]
    <3>1. job.sp \in Nat \ {0}
      BY Layout DEF Running
    <3> HIDE DEF F, n
    <3>2. WholeSeq(Gathered("pos"), F, n * job.sp, all)
      BY <1>1, <2>4, <3>1, GatheredSlices
    <3> QED
      BY <3>2 DEF WholeSeq
  <2>6. \A t \in 1 .. T : G[t] = pos[t]
    <3> HIDE DEF F, G, T, P, n, all, pos
    <3> QED
      BY <1>1, <2>3, <2>5
  <2>7. P # 0 => G[T + 1] = 0
    <3> HIDE DEF F, G, T, P, n, all, pos
    <3> QED
      BY <1>1, <2>3, <2>5
  <2> HIDE DEF F, G, T, P, n, all, pos
  <2>8. ASSUME NEW t \in 1 .. T PROVE AttendedByPosition(G)[t] = AttendedByPosition(pos)[t]
    <3>1. Len(pos) \in Nat /\ Len(G) \in Nat /\ Len(pos) <= Len(G) /\ t \in 1 .. Len(pos)
      BY <1>1, <2>2, <2>5
    <3>2. \A k \in 1 .. Len(pos) : G[k] = pos[k]
      BY <2>2, <2>6
    <3> QED
      BY <3>1, <3>2, AttendedOfPrefix
  <2>9. ASSUME NEW t \in T + 1 .. all PROVE AttendedByPosition(G)[t] \in Seq(T + 1 .. all)
    <3>1. /\ Len(G) \in Nat /\ t \in 1 .. Len(G) /\ T + 1 \in 1 .. t /\ G[T + 1] = 0
      BY <1>1, <2>5, <2>7
    <3>2. AttendedByPosition(G)[t] \in Seq(T + 1 .. t)
      BY <3>1, AttendedOnStandard
    <3>3. T + 1 .. t \subseteq T + 1 .. all
      BY <1>1
    <3> QED
      BY <3>2, <3>3, SeqOfLarger
  <2>10. Len(AttendedByPosition(G)) = all
    BY <1>1, <2>5 DEF AttendedByPosition
  <2>11. Attends(f, OneDeviceAttended, T, all)
    <3> DEFINE fG == AttendedByPosition(G)
    <3>1. f = fG
      BY <2>1 DEF G
    <3> HIDE DEF f, fG
    <3>2. Len(fG) = all /\ Len(fG) \in T .. all
      BY <1>1, <2>10 DEF fG
    <3>3. \A t \in 1 .. T : fG[t] = OneDeviceAttended[t]
      BY <2>1, <2>8 DEF fG
    <3>4. \A t \in T + 1 .. Len(fG) : fG[t] \in Seq(T + 1 .. all)
      BY <2>9, <3>2 DEF fG
    <3> QED
      BY <3>1, <3>2, <3>3, <3>4 DEF Attends
  <2> QED
    BY <2>11 DEF f, T, n, all
<1> QED
  BY <1>2, <1>3

(* gather_seq_scatter_heads.                                               *)
LEMMA GatherIsSplit ==
  ASSUME Running, \A q \in Ranks : AtStart(x[q], q), NEW r \in Ranks
  PROVE  Resharded(job, LocalSize, Total, OneDeviceAttended,
           Put(r, [q |-> SeqFromAll(r, "q"), k |-> SeqFromAll(r, "k"),
                   v |-> SeqFromAll(r, "v"), pos |-> Gathered("pos"),
                   attended |-> Attended(job, input.attended, Gathered("pos"))]), r)
<1> DEFINE n == LocalSize  sp == job.sp  all == n * sp  W == Width(job)  KW == KVWidth(job)
           att == Attended(job, input.attended, Gathered("pos"))
           new == [q |-> SeqFromAll(r, "q"), k |-> SeqFromAll(r, "k"),
                   v |-> SeqFromAll(r, "v"), pos |-> Gathered("pos"), attended |-> att]
           f == Put(r, new)
<1>1. n \in Nat \ {0} /\ sp \in Nat \ {0} /\ W \in Nat \ {0} /\ KW \in Nat \ {0}
  BY SizesOfJob, Layout DEF Running
<1>2. ASSUME NEW q \in Ranks
      PROVE  /\ TokenShard(x[q]["q"], Entries("q", n * sp, job.heads), q, n, W * sp, n * sp)
             /\ TokenShard(x[q]["k"], Copies(job, "k", n * sp), q, n, KW * sp, n * sp)
             /\ TokenShard(x[q]["v"], Copies(job, "v", n * sp), q, n, KW * sp, n * sp)
  <2>1. /\ x[q]["q"] = Projection(q, "q", job.heads)
        /\ x[q]["k"] = Repeated(job, Projection(q, "k", job.kv))
        /\ x[q]["v"] = Repeated(job, Projection(q, "v", job.kv))
    BY DEF AtStart
  <2> QED
    BY <2>1, ProjectionShards
<1>3. HeadShard(SeqFromAll(r, "q"), Entries("q", n * sp, job.heads), r, n * sp, W, n * sp)
  <2> HIDE DEF n, W
  <2> QED
    BY <1>1, <1>2, SeqFromAllShards
<1>4. HeadShard(SeqFromAll(r, "k"), Copies(job, "k", n * sp), r, n * sp, KW, n * sp)
  <2> HIDE DEF n, KW
  <2> QED
    BY <1>1, <1>2, SeqFromAllShards
<1>5. HeadShard(SeqFromAll(r, "v"), Copies(job, "v", n * sp), r, n * sp, KW, n * sp)
  <2> HIDE DEF n, KW
  <2> QED
    BY <1>1, <1>2, SeqFromAllShards
<1>6. Attends(att, OneDeviceAttended, Total, n * sp)
  BY RankAttends
<1>7. /\ f.q = SeqFromAll(r, "q") /\ f.k = SeqFromAll(r, "k") /\ f.v = SeqFromAll(r, "v")
      /\ f.attended = att /\ {"q", "k", "v", "attended"} \subseteq DOMAIN f
  BY DEF Put
<1> HIDE DEF f, att, n, sp, W, KW
<1>8. Resharded(job, n, Total, OneDeviceAttended, f, r)
  BY <1>3, <1>4, <1>5, <1>6, <1>7 DEF Resharded, sp, W, KW
<1> QED
  BY <1>8 DEF f, n, att

(* The later steps keep Q, K and V.                                        *)
LEMMA ReshardedKept ==
  ASSUME NEW j, NEW n, NEW T, NEW att, NEW r \in Ranks, NEW new,
         Resharded(j, n, T, att, x[r], r),
         DOMAIN new \cap {"q", "k", "v", "attended"} = {}
  PROVE  Resharded(j, n, T, att, Put(r, new), r)
<1> DEFINE f == Put(r, new)
<1>1. /\ {"q", "k", "v", "attended"} \subseteq DOMAIN f
      /\ f.q = x[r].q /\ f.k = x[r].k /\ f.v = x[r].v /\ f.attended = x[r].attended
  BY DEF Put, Resharded
<1> HIDE DEF f
<1>2. Resharded(j, n, T, att, f, r)
  BY <1>1 DEF Resharded
<1> QED
  BY <1>2 DEF f

(* The output of token t for head h, from the tokens a it attends to and   *)
(* their KV head g.                                                        *)
OutputEntry(t, h, a, g) ==
  [q |-> <<"q", t, h>>, k |-> [i \in 1 .. Len(a) |-> <<"k", a[i], g>>],
                        v |-> [i \in 1 .. Len(a) |-> <<"v", a[i], g>>]]

(* Attention on tensors whose entries are known: token t, that attends to  *)
(* tokens in T, is head H of the whole here, and has KV head G.            *)
KnownEntries(q, k, v, att, t, h, H, G, T) ==
  /\ t \in 1 .. Len(att) /\ h \in 1 .. Len(q[t])
  /\ att[t] \in Seq(T)
  /\ q[t][h] = <<"q", t, H>>
  /\ \A u \in T : /\ k[u][KVHead(h, Len(q[t]), Len(k[t]))] = <<"k", u, G>>
                  /\ v[u][KVHead(h, Len(q[t]), Len(k[t]))] = <<"v", u, G>>

(* Such a head attends to the same keys and values as head H of one device. *)
LEMMA AttentionEntry ==
  ASSUME NEW q, NEW k, NEW v, NEW att, NEW t, NEW h, NEW H, NEW G, NEW T,
         KnownEntries(q, k, v, att, t, h, H, G, T)
  PROVE  Attention(q, k, v, att)[t][h] = OutputEntry(t, H, att[t], G)
<1> DEFINE a == att[t]  l == Len(a)  g == KVHead(h, Len(q[t]), Len(k[t]))
<1>0. /\ t \in 1 .. Len(att) /\ h \in 1 .. Len(q[t]) /\ a \in Seq(T)
      /\ q[t][h] = <<"q", t, H>>
      /\ \A u \in T : k[u][g] = <<"k", u, G>> /\ v[u][g] = <<"v", u, G>>
  BY DEF KnownEntries
<1>1. Attention(q, k, v, att)[t][h] =
        [q |-> q[t][h], k |-> [i \in 1 .. l |-> k[a[i]][g]], v |-> [i \in 1 .. l |-> v[a[i]][g]]]
  BY <1>0 DEF Attention
<1>2. \A i \in 1 .. l : a[i] \in T
  BY <1>0
<1> HIDE DEF a, g
<1>3. \A i \in 1 .. l : k[a[i]][g] = <<"k", a[i], G>> /\ v[a[i]][g] = <<"v", a[i], G>>
  BY <1>0, <1>2
<1>4. /\ [i \in 1 .. l |-> k[a[i]][g]] = [i \in 1 .. l |-> <<"k", a[i], G>>]
      /\ [i \in 1 .. l |-> v[a[i]][g]] = [i \in 1 .. l |-> <<"v", a[i], G>>]
  BY <1>3
<1>5. OutputEntry(t, H, a, G) =
        [q |-> <<"q", t, H>>, k |-> [i \in 1 .. l |-> <<"k", a[i], G>>],
                              v |-> [i \in 1 .. l |-> <<"v", a[i], G>>]]
  BY DEF OutputEntry
<1> QED
  BY <1>0, <1>1, <1>4, <1>5 DEF a

(* A query head of a rank, and its KV head, on that rank and on one device. *)
LEMMA HeadsOfRank ==
  ASSUME NEW j \in Jobs, SupportedLayout(j), NEW r \in 0 .. j.sp - 1, NEW h \in 1 .. Width(j)
  PROVE  LET H == r * Width(j) + h
             g == KVHead(h, Width(j), KVWidth(j))
         IN  /\ H \in 1 .. j.heads
             /\ g \in 1 .. KVWidth(j)
             /\ r * KVWidth(j) + g \in 1 .. j.kv * Repeats(j)
             /\ CopyOf(j, r * KVWidth(j) + g) = KVHead(H, j.heads, j.kv)
             /\ KVHead(H, j.heads, j.kv) \in 1 .. j.kv
<1> DEFINE W == Width(j)  KW == KVWidth(j)  sp == j.sp  K == j.kv * Repeats(j)
           g == KVHead(h, W, KW)
<1>1. /\ sp \in Nat \ {0} /\ W \in Nat \ {0} /\ KW \in Nat \ {0}
      /\ j.heads = W * sp /\ K = KW * sp
  BY Layout
<1>2. g \in 1 .. KW /\ CopyOf(j, r * KW + g) = KVHead(r * W + h, j.heads, j.kv)
  BY KeyOfHead
<1> HIDE DEF W, KW, sp, K, g
<1>3. r * W + h \in 1 .. W * sp /\ r * KW + g \in 1 .. KW * sp
  BY <1>1, <1>2, IndexInWhole DEF W, sp
<1>4. CopyOf(j, r * KW + g) \in 1 .. j.kv
  <2>1. r * KW + g \in 1 .. K
    BY <1>1, <1>3
  <2> QED
    BY <2>1, CopyOfHead DEF K
<1> QED
  BY <1>1, <1>2, <1>3, <1>4 DEF W, KW, sp, K, g

(* Every query head is one of a rank.                                      *)
LEMMA HeadOfSomeRank ==
  ASSUME NEW j \in Jobs, NEW H \in 1 .. j.heads
  PROVE  \E r \in 0 .. j.sp - 1 : \E h \in 1 .. Width(j) : H = r * Width(j) + h
<1>1. j.sp \in Nat \ {0} /\ Width(j) \in Nat \ {0} /\ j.heads = Width(j) * j.sp
  BY Layout
<1>2. /\ (H - 1) \div Width(j) \in 0 .. j.sp - 1
      /\ ((H - 1) % Width(j)) + 1 \in 1 .. Width(j)
      /\ ((H - 1) \div Width(j)) * Width(j) + (((H - 1) % Width(j)) + 1) = H
  BY <1>1, PartAndIndex
<1> QED
  BY <1>2

(* The outputs of one device, head by head. *)
LEMMA OneDeviceEntry ==
  ASSUME Running, NEW t \in 1 .. Total
  PROVE  /\ OneDeviceOut[t] = [h \in 1 .. job.heads |-> OneDeviceOut[t][h]]
         /\ \A h \in 1 .. job.heads :
              OneDeviceOut[t][h] =
                OutputEntry(t, h, OneDeviceAttended[t], KVHead(h, job.heads, job.kv))
<1> DEFINE att == OneDeviceAttended  T == Total  heads == job.heads  kv == job.kv
           Q == Entries("q", T, heads)  K == Entries("k", T, kv)  V == Entries("v", T, kv)
<1>1. Len(att) = T /\ att[t] \in Seq(1 .. T)
  BY OneDeviceAttends
<1>2. heads \in Nat \ {0} /\ kv \in Nat \ {0} /\ T \in Nat
  BY SizesOfJob, Layout DEF Running
<1>3. OneDeviceOut = Attention(Q, K, V, att)
  BY DEF OneDeviceOut
<1>4. ASSUME NEW h \in 1 .. heads PROVE KVHead(h, heads, kv) \in 1 .. kv
  <2>1. PICK r \in 0 .. job.sp - 1 : \E i \in 1 .. Width(job) : h = r * Width(job) + i
    BY HeadOfSomeRank DEF Running
  <2>2. PICK i \in 1 .. Width(job) : h = r * Width(job) + i
    BY <2>1
  <2>3. KVHead(r * Width(job) + i, heads, kv) \in 1 .. kv
    BY HeadsOfRank DEF Running
  <2> QED
    BY <2>2, <2>3
<1> HIDE DEF att, T, heads, kv
<1>5. /\ \A u \in 1 .. T : Len(Q[u]) = heads /\ Len(K[u]) = kv
      /\ \A u \in 1 .. T : \A h \in 1 .. heads : Q[u][h] = <<"q", u, h>>
      /\ \A u \in 1 .. T : \A h \in 1 .. kv : K[u][h] = <<"k", u, h>> /\ V[u][h] = <<"v", u, h>>
  BY <1>2 DEF Entries
<1>6. t \in 1 .. T /\ t \in 1 .. Len(att)
  BY <1>1 DEF T
<1> HIDE DEF Q, K, V
<1>7. ASSUME NEW h \in 1 .. heads
      PROVE  Attention(Q, K, V, att)[t][h] = OutputEntry(t, h, att[t], KVHead(h, heads, kv))
  <2> DEFINE g == KVHead(h, heads, kv)
  <2>1. /\ g \in 1 .. kv /\ Len(Q[t]) = heads /\ Len(K[t]) = kv /\ Q[t][h] = <<"q", t, h>>
        /\ \A u \in 1 .. T : K[u][g] = <<"k", u, g>> /\ V[u][g] = <<"v", u, g>>
    BY <1>4, <1>5, <1>6
  <2>2. KnownEntries(Q, K, V, att, t, h, h, g, 1 .. T)
    BY <1>1, <1>6, <2>1 DEF KnownEntries
  <2> HIDE DEF g
  <2>3. Attention(Q, K, V, att)[t][h] = OutputEntry(t, h, att[t], g)
    BY <2>2, AttentionEntry
  <2> QED
    BY <2>3 DEF g
<1>8. Attention(Q, K, V, att)[t] = [h \in 1 .. heads |-> Attention(Q, K, V, att)[t][h]]
  BY <1>5, <1>6 DEF Attention
<1> QED
  BY <1>3, <1>7, <1>8 DEF att, heads, kv

(* flash_attention: a rank computes the outputs of its heads.              *)
LEMMA AttentionIsSplit ==
  ASSUME Running, NEW r \in Ranks, NEW f,
         Resharded(job, LocalSize, Total, OneDeviceAttended, f, r)
  PROVE  HeadShard(PadOutput(Attention(f.q, f.k, f.v, f.attended), Len(f.q)), OneDeviceOut,
                   r, LocalSize * job.sp, Width(job), Total)
<1> DEFINE q == f.q  k == f.k  v == f.v  att == f.attended
           W == Width(job)  KW == KVWidth(job)  sp == job.sp  heads == job.heads
           T == Total  all == LocalSize * sp
           out == Attention(q, k, v, att)
<1>1. /\ W \in Nat \ {0} /\ KW \in Nat \ {0} /\ sp \in Nat \ {0} /\ heads = W * sp
      /\ T \in Nat /\ all \in Nat /\ T <= all /\ r \in 0 .. sp - 1
      /\ job.kv * Repeats(job) = KW * sp
  <2>1. /\ W \in Nat \ {0} /\ KW \in Nat \ {0} /\ sp \in Nat \ {0} /\ heads = W * sp
        /\ job.kv * Repeats(job) = KW * sp /\ r \in 0 .. sp - 1
    BY Layout DEF Running, Ranks
  <2>2. T \in Nat /\ PadSize \in Nat /\ LocalSize \in Nat /\ T + PadSize = all
    BY SizesOfJob
  <2> HIDE DEF T, all
  <2>3. T <= all /\ all \in Nat
    BY <2>2
  <2> QED
    BY <2>1, <2>2, <2>3
<1>2. /\ HeadShard(q, Entries("q", all, heads), r, all, W, all)
      /\ HeadShard(k, Copies(job, "k", all), r, all, KW, all)
      /\ HeadShard(v, Copies(job, "v", all), r, all, KW, all)
      /\ Attends(att, OneDeviceAttended, T, all)
  BY DEF Resharded
<1>3. ASSUME NEW h \in 1 .. W
      PROVE  /\ r * W + h \in 1 .. heads
             /\ KVHead(h, W, KW) \in 1 .. KW
             /\ r * KW + KVHead(h, W, KW) \in 1 .. job.kv * Repeats(job)
             /\ CopyOf(job, r * KW + KVHead(h, W, KW)) = KVHead(r * W + h, heads, job.kv)
  BY <1>1, HeadsOfRank DEF Running
<1> HIDE DEF q, k, v, att, W, KW, sp, heads, T, all
<1>4. Len(q) = all /\ Len(att) \in T .. all
  BY <1>2 DEF HeadShard, Attends
<1>5. ASSUME NEW t \in 1 .. all
      PROVE  /\ Len(q[t]) = W /\ Len(k[t]) = KW
             /\ \A h \in 1 .. W : q[t][h] = <<"q", t, r * W + h>>
             /\ \A g \in 1 .. KW : r * KW + g \in 1 .. job.kv * Repeats(job) =>
                  /\ k[t][g] = <<"k", t, CopyOf(job, r * KW + g)>>
                  /\ v[t][g] = <<"v", t, CopyOf(job, r * KW + g)>>
  <2>1. /\ q[t] = [h \in 1 .. W |-> Entries("q", all, heads)[t][r * W + h]]
        /\ k[t] = [g \in 1 .. KW |-> Copies(job, "k", all)[t][r * KW + g]]
        /\ v[t] = [g \in 1 .. KW |-> Copies(job, "v", all)[t][r * KW + g]]
    BY <1>1, <1>2 DEF HeadShard
  <2>2. Len(q[t]) = W /\ Len(k[t]) = KW
    BY <1>1, <2>1
  <2>3. ASSUME NEW h \in 1 .. W PROVE q[t][h] = <<"q", t, r * W + h>>
    <3> DEFINE H == r * W + h
    <3>1. H \in 1 .. heads
      BY <1>3
    <3>2. q[t][h] = Entries("q", all, heads)[t][H]
      BY <2>1
    <3> HIDE DEF H
    <3>3. Entries("q", all, heads)[t][H] = <<"q", t, H>>
      BY <3>1 DEF Entries
    <3> QED
      BY <3>2, <3>3 DEF H
  <2>4. ASSUME NEW g \in 1 .. KW, r * KW + g \in 1 .. job.kv * Repeats(job)
        PROVE  /\ k[t][g] = <<"k", t, CopyOf(job, r * KW + g)>>
               /\ v[t][g] = <<"v", t, CopyOf(job, r * KW + g)>>
    <3> DEFINE G == r * KW + g
    <3>1. G \in 1 .. job.kv * Repeats(job)
      BY <2>4
    <3>2. k[t][g] = Copies(job, "k", all)[t][G] /\ v[t][g] = Copies(job, "v", all)[t][G]
      BY <2>1
    <3> HIDE DEF G
    <3>3. /\ Copies(job, "k", all)[t][G] = <<"k", t, CopyOf(job, G)>>
          /\ Copies(job, "v", all)[t][G] = <<"v", t, CopyOf(job, G)>>
      BY <3>1 DEF Copies
    <3> QED
      BY <3>2, <3>3 DEF G
  <2> QED
    BY <2>2, <2>3, <2>4
<1>6. ASSUME NEW t \in 1 .. T, NEW h \in 1 .. W
      PROVE  out[t][h] = OneDeviceOut[t][r * W + h]
  <2> DEFINE g == KVHead(h, W, KW)  H == r * W + h
             gg == CopyOf(job, r * KW + g)
  <2>1. att[t] = OneDeviceAttended[t] /\ att[t] \in Seq(1 .. T)
    BY <1>2, OneDeviceAttends DEF Attends, T
  <2>2. t \in 1 .. all /\ t \in 1 .. Len(att)
    BY <1>1, <1>4
  <2>3. /\ Len(q[t]) = W /\ Len(k[t]) = KW /\ q[t][h] = <<"q", t, H>>
    BY <1>5, <2>2
  <2>4. \A u \in 1 .. T : k[u][g] = <<"k", u, gg>> /\ v[u][g] = <<"v", u, gg>>
    <3>1. \A u \in 1 .. T : u \in 1 .. all
      BY <1>1
    <3> QED
      BY <1>3, <1>5, <3>1
  <2>5. out[t][h] = OutputEntry(t, H, att[t], gg)
    <3> HIDE DEF H, gg
    <3>1. KnownEntries(q, k, v, att, t, h, H, gg, 1 .. T)
      BY <2>1, <2>2, <2>3, <2>4 DEF KnownEntries
    <3> QED
      BY <3>1, AttentionEntry
  <2>6. H \in 1 .. heads /\ gg = KVHead(H, heads, job.kv)
    BY <1>3
  <2> HIDE DEF H, gg
  <2>7. OneDeviceOut[t][H] = OutputEntry(t, H, OneDeviceAttended[t], KVHead(H, heads, job.kv))
    BY <2>6, OneDeviceEntry DEF T, heads
  <2> QED
    BY <2>1, <2>5, <2>6, <2>7 DEF H
<1>7. ASSUME NEW t \in 1 .. T PROVE out[t] = [h \in 1 .. W |-> out[t][h]]
  <2>1. t \in 1 .. Len(att) /\ Len(q[t]) = W
    BY <1>1, <1>4, <1>5
  <2> QED
    BY <2>1 DEF Attention
<1>8. Len(out) = Len(att) /\ \E S : out \in Seq(S)
  <2>1. Len(att) \in Nat
    BY <1>1, <1>4
  <2>2. out = [t \in 1 .. Len(att) |-> out[t]]
    BY DEF Attention
  <2> HIDE DEF out
  <2>3. out \in Seq({out[t] : t \in 1 .. Len(att)}) /\ Len(out) = Len(att)
    BY <2>1, <2>2
  <2> QED
    BY <2>3
<1> HIDE DEF out
<1>9. /\ Len(PadOutput(out, all)) = all
      /\ \A t \in 1 .. T : PadOutput(out, all)[t] = out[t]
  <2> DEFINE l == all - Len(out)  e == [h \in 1 .. heads \div sp |-> <<>>]
             rest == [t \in 1 .. l |-> e]
  <2>1. l \in Nat /\ Len(out) \in T .. all
    BY <1>1, <1>4, <1>8
  <2>2. PadOutput(out, all) = out \o rest
    BY DEF PadOutput, heads, sp
  <2>3. PICK S : out \in Seq(S)
    BY <1>8
  <2> HIDE DEF l, e
  <2>4. rest \in Seq(S \cup {e}) /\ Len(rest) = l
    BY <2>1
  <2>5. out \in Seq(S \cup {e})
    BY <2>3, SeqOfLarger
  <2> HIDE DEF rest
  <2>6. Len(out \o rest) = Len(out) + l /\ \A t \in 1 .. Len(out) : (out \o rest)[t] = out[t]
    BY <2>4, <2>5
  <2> QED
    BY <1>1, <2>1, <2>2, <2>6 DEF l
<1>10. HeadShard(PadOutput(out, all), OneDeviceOut, r, all, W, T)
  <2> DEFINE p == PadOutput(out, all)
  <2>1. Len(p) = all /\ \A t \in 1 .. T : p[t] = out[t]
    BY <1>9
  <2> HIDE DEF p
  <2>2. ASSUME NEW t \in 1 .. all, t <= T
        PROVE  p[t] = [h \in 1 .. W |-> OneDeviceOut[t][r * W + h]]
    <3>1. t \in 1 .. T
      BY <1>1, <2>2
    <3>2. p[t] = [h \in 1 .. W |-> out[t][h]]
      BY <1>7, <2>1, <3>1
    <3>3. \A h \in 1 .. W : out[t][h] = OneDeviceOut[t][r * W + h]
      BY <1>6, <3>1
    <3> QED
      BY <3>2, <3>3
  <2>3. HeadShard(p, OneDeviceOut, r, all, W, T)
    BY <2>1, <2>2 DEF HeadShard
  <2> QED
    BY <2>3 DEF p
<1> QED
  BY <1>4, <1>10 DEF out, q, k, v, att, W, sp, T, all

-----------------------------------------------------------------------------
(* From the outputs to the log-probs.                                      *)

(* The rolled input_ids, of as many tokens.                                *)
LEMMA RolledInput ==
  ASSUME Running
  PROVE  /\ Len(input.rolled) = Total /\ \E S : input.rolled \in Seq(S)
         /\ \E S : input.ids \in Seq(S)
         /\ input.rolled = Rolled(input.ids)
         /\ \A t \in 1 .. Total : input.rolled[t] = input.ids[(t % Total) + 1]
<1> DEFINE ids == input.ids  T == Total
<1>1. T \in Nat \ {0} /\ Len(ids) = T /\ ids = Packed(Segments(job))
  BY SizesOfJob DEF Total
<1>2. \E S : ids \in Seq(S)
  BY <1>1, TokensOfJob DEF Running
<1>3. input.rolled = Rolled(ids)
  BY DEF Running, Inputs
<1>4. Rolled(ids) = [t \in 1 .. T |-> ids[(t % T) + 1]]
  BY <1>1 DEF Rolled
<1> HIDE DEF ids, T
<1> DEFINE v == [t \in 1 .. T |-> ids[(t % T) + 1]]
<1>6. v = [t \in 1 .. T |-> v[t]] /\ \A t \in 1 .. T : v[t] = ids[(t % T) + 1]
  OBVIOUS
<1> HIDE DEF v
<1>5. v \in Seq({v[t] : t \in 1 .. T}) /\ Len(v) = T
  BY <1>1, <1>6
<1>7. Rolled(ids) = v
  BY <1>4 DEF v
<1>8. \E S : v \in Seq(S)
  BY <1>5
<1> QED
  BY <1>2, <1>3, <1>5, <1>6, <1>7, <1>8 DEF ids, T

(* A rank's label of a token is the next token of the whole.               *)
LEMMA LabelsOfRank ==
  ASSUME Running, NEW r \in Ranks, NEW t \in 1 .. LocalSize, r * LocalSize + t <= Total
  PROVE  Labels(r)[t] = input.rolled[r * LocalSize + t]
<1> DEFINE n == LocalSize  T == Total  u == r * n + t  blank == [k \in 1 .. PadSize |-> <<>>]
<1>1. /\ n \in Nat \ {0} /\ T \in Nat \ {0} /\ PadSize \in Nat /\ r \in 0 .. job.sp - 1
      /\ t \in 1 .. n /\ job.sp \in Nat \ {0}
  BY SizesOfJob, Layout DEF Running, Ranks
<1>2. u \in 1 .. T
  <2> HIDE DEF n
  <2>1. r * n \in Nat
    BY <1>1
  <2> QED
    BY <1>1, <2>1 DEF n
<1>3. ASSUME NEW s, Len(s) = T, \E S : s \in Seq(S)
      PROVE  \A i \in 1 .. T : Pad(s)[i] = s[i]
  <2>1. PICK S : s \in Seq(S)
    BY <1>3
  <2>2. \A i \in 1 .. T : Padded(s, blank)[i] = s[i]
    BY <1>3, <2>1, PaddedSequence
  <2>3. Padded(s, blank) = Pad(s)
    BY DEF Padded, Pad
  <2> QED
    BY <2>2, <2>3
<1>4. CASE job.path # "fused"
  <2>1. Labels(r) = SliceOf(Pad(input.rolled), r)
    BY <1>4 DEF Labels
  <2>2. SliceOf(Pad(input.rolled), r)[t] = Pad(input.rolled)[u]
    <3> DEFINE s == Pad(input.rolled)
    <3> HIDE DEF s
    <3>1. SliceOf(s, r) = [i \in 1 .. n |-> s[r * n + i]]
      BY SliceOfRank
    <3>2. SliceOf(s, r)[t] = s[r * n + t]
      BY <1>1, <3>1
    <3> QED
      BY <3>2 DEF s
  <2>3. Pad(input.rolled)[u] = input.rolled[u]
    BY <1>2, <1>3, RolledInput
  <2> QED
    BY <2>1, <2>2, <2>3
<1>5. CASE job.path = "fused"
  <2> DEFINE s == SliceOf(Pad(input.ids), r)
  <2>1. job.sp = 1 /\ r = 0 /\ n = T
    <3>1. job.sp = 1
      BY <1>5 DEF Running, SupportedLayout
    <3> QED
      BY <1>1, <3>1, SizesOfJob
  <2>2. Labels(r) = Rolled(s)
    BY <1>5 DEF Labels
  <2>3. s = [i \in 1 .. n |-> Pad(input.ids)[r * n + i]]
    BY SliceOfRank
  <2>4. \A i \in 1 .. T : Pad(input.ids)[i] = input.ids[i]
    BY <1>3, SizesOfJob, RolledInput DEF Total
  <2> HIDE DEF n, s, T
  <2>5. Len(s) = T /\ \A i \in 1 .. T : s[i] = input.ids[i]
    BY <1>1, <2>1, <2>3, <2>4
  <2>6. u = t
    BY <1>1, <2>1
  <2>7. Rolled(s)[t] = s[(t % T) + 1]
    BY <1>2, <2>5, <2>6 DEF Rolled
  <2>8. (t % T) + 1 \in 1 .. T
    BY <1>1
  <2>9. input.rolled[t] = input.ids[(t % T) + 1]
    BY <1>2, <2>6, RolledInput DEF T
  <2>10. Labels(r)[t] = input.rolled[u]
    BY <2>2, <2>5, <2>6, <2>7, <2>8, <2>9
  <2> QED
    BY <2>10 DEF n
<1> QED
  BY <1>4, <1>5

(* The shared logit is that of a token; with a fused loss there is one     *)
(* rank, so that it is a token of the rank.                                *)
LEMMA SharedOfRank ==
  ASSUME Running, Packs(job)
  PROVE  input.shared \in 1 .. Total /\ ~LossHeadRaises
<1>1. input.shared = SharedPosition(Segments(job), 1) /\ Total = Len(Packed(Segments(job)))
  BY SizesOfJob DEF Running, Inputs
<1>2. input.shared \in 1 .. Total
  BY <1>1, SharedInside DEF Running
<1>3. job.path = "fused" => LocalSize = Total
  BY SizesOfJob DEF Running, SupportedLayout
<1>4. ~LossHeadRaises
  BY <1>2, <1>3, SizesOfJob DEF LossHeadRaises, SharedIndex
<1> QED
  BY <1>2, <1>4

(* The head of the model, on what it is given of the outputs.              *)
LEMMA LossHeadIsSplit ==
  ASSUME Running, NEW r \in Ranks, NEW f,
         HasOwnOutput(job, LocalSize, Total, OneDeviceOut, f, r)
  PROVE  /\ SeqSlice([t \in 1 .. LocalSize |->
                        IF job.path = "dualkv" THEN f.out[t]
                        ELSE LogProb(f.out[t], Labels(r)[t])],
                     OneDeviceToken, r, LocalSize, Total)
         /\ job.path = "fused" => f.out[input.shared] = OneDeviceOut[input.shared]
<1> DEFINE n == LocalSize  T == Total  heads == job.heads
           token == [t \in 1 .. n |-> IF job.path = "dualkv" THEN f.out[t]
                                      ELSE LogProb(f.out[t], Labels(r)[t])]
<1>1. n \in Nat \ {0} /\ T \in Nat \ {0} /\ r \in 0 .. job.sp - 1 /\ job.sp \in Nat \ {0}
      /\ heads = Width(job) * job.sp
  BY SizesOfJob, Layout DEF Running, Ranks
<1>2. ASSUME NEW t \in 1 .. n, r * n + t <= T
      PROVE  r * n + t \in 1 .. T /\ f.out[t] = OneDeviceOut[r * n + t]
  <2> DEFINE u == r * n + t
  <2>1. u \in 1 .. T
    <3> HIDE DEF n
    <3>1. r * n \in Nat
      BY <1>1
    <3> QED
      BY <1>1, <1>2, <3>1
  <2>2. f.out[t] = [h \in 1 .. heads |-> OneDeviceOut[u][h]]
    BY <1>1, <1>2 DEF HasOwnOutput, TokenShard
  <2> HIDE DEF u
  <2>3. OneDeviceOut[u] = [h \in 1 .. heads |-> OneDeviceOut[u][h]]
    BY <2>1, OneDeviceEntry
  <2> QED
    BY <2>1, <2>2, <2>3 DEF u
<1>3. Len(token) = n
  BY <1>1
<1>4. ASSUME NEW t \in 1 .. n, r * n + t <= T PROVE token[t] = OneDeviceToken[r * n + t]
  <2>1. r * n + t \in 1 .. T /\ f.out[t] = OneDeviceOut[r * n + t]
    BY <1>2, <1>4
  <2>2. Labels(r)[t] = input.rolled[r * n + t]
    BY <1>4, LabelsOfRank
  <2>3. OneDeviceToken[r * n + t] =
          IF job.path = "dualkv" THEN OneDeviceOut[r * n + t]
          ELSE LogProb(OneDeviceOut[r * n + t], input.rolled[r * n + t])
    BY <2>1 DEF OneDeviceToken
  <2> QED
    BY <2>1, <2>2, <2>3
<1>5. SeqSlice(token, OneDeviceToken, r, n, T)
  <2> HIDE DEF token
  <2> QED
    BY <1>3, <1>4 DEF SeqSlice
<1>6. ASSUME job.path = "fused" PROVE f.out[input.shared] = OneDeviceOut[input.shared]
  <2>1. job.sp = 1
    BY <1>6 DEF Running, SupportedLayout
  <2>2. n = T /\ r = 0
    BY <1>1, <2>1, SizesOfJob
  <2>3. input.shared \in 1 .. T
    BY <1>6, SharedOfRank DEF Packs
  <2> HIDE DEF n, T
  <2>4. input.shared \in 1 .. n /\ r * n + input.shared = input.shared /\ input.shared <= T
    BY <1>1, <2>2, <2>3
  <2> QED
    BY <1>2, <2>4
<1> QED
  BY <1>5, <1>6

(* all_gather of the per-token values, without the padding.                *)
LEMMA GatheredTokens ==
  ASSUME Running,
         \A q \in Ranks : SeqSlice(x[q]["token"], OneDeviceToken, q, LocalSize, Total)
  PROVE  SubSeq(Gathered("token"), 1, Total) = OneDeviceToken
<1> DEFINE n == LocalSize  T == Total  G == Gathered("token")
<1>1. n \in Nat \ {0} /\ T \in Nat \ {0} /\ job.sp \in Nat \ {0}
      /\ PadSize \in Nat /\ T + PadSize = n * job.sp
  BY SizesOfJob, Layout DEF Running
<1>2. WholeSeq(G, OneDeviceToken, n * job.sp, T)
  <2> HIDE DEF n, T
  <2> QED
    BY <1>1, GatheredSlices DEF n, T
<1>3. OneDeviceToken = [t \in 1 .. T |-> OneDeviceToken[t]]
  BY DEF OneDeviceToken
<1> DEFINE all == n * job.sp
<1>4. T <= all /\ all \in Nat /\ WholeSeq(G, OneDeviceToken, all, T)
  <2> HIDE DEF all
  <2>1. T + PadSize = all
    BY <1>1 DEF all
  <2> HIDE DEF T, n
  <2> QED
    BY <1>1, <1>2, <2>1 DEF all
<1> HIDE DEF n, T, G, all
<1>5. SubSeq(G, 0 + 1, 0 + T) = [t \in 1 .. T |-> G[0 + t]]
  BY <1>1, SliceOfSeq
<1>6. 0 + 1 = 1 /\ 0 + T = T /\ \A t \in 1 .. T : 0 + t = t
  BY <1>1
<1>7. SubSeq(G, 1, T) = [t \in 1 .. T |-> G[t]]
  BY <1>5, <1>6
<1>8. \A t \in 1 .. T : G[t] = OneDeviceToken[t]
  BY <1>1, <1>4 DEF WholeSeq
<1>9. [t \in 1 .. T |-> G[t]] = [t \in 1 .. T |-> OneDeviceToken[t]]
  BY <1>8
<1>10. SubSeq(G, 1, T) = OneDeviceToken
  BY <1>3, <1>7, <1>9
<1> QED
  BY <1>10 DEF G, T

(* Without packing, no log-prob is scored by a shared logit.               *)
LEMMA ExtractUnshared ==
  ASSUME ~Packs(job), NEW f, NEW a, NEW b
  PROVE  Extract(f, a) = Extract(f, b)
<1>1. \A k : ~Shared(k)
  BY DEF Shared
<1> QED
  BY <1>1 DEF Extract

OneDeviceLogProbs == [t \in 1 .. Total |-> LogProb(OneDeviceOut[t], input.rolled[t])]

(* The log-probs of one device are extracted from its outputs. *)
LEMMA OneDeviceExtracts ==
  OneDevice = Extract(OneDeviceLogProbs, IF Packs(job) THEN OneDeviceOut[input.shared] ELSE <<>>)
BY DEF OneDevice, OneDeviceOut, OneDeviceLogProbs, Entries

(* gather_outputs_and_unpad: every rank has the log-probs of one device.   *)
LEMMA OutputsAreOneDevice ==
  ASSUME Running, NEW r \in Ranks,
         \A q \in Ranks : HasToken(job, LocalSize, Total, OneDeviceToken, OneDeviceOut,
                                   input.shared, x[q], q)
  PROVE  LET all == SubSeq(Gathered("token"), 1, Total)
         IN  Extract(IF job.path = "dualkv"
                     THEN [t \in 1 .. Total |-> LogProb(all[t], input.rolled[t])] ELSE all,
                     IF job.path = "dualkv" THEN all[input.shared] ELSE x[r].shared)
               = OneDevice
<1> DEFINE all == SubSeq(Gathered("token"), 1, Total)
           f == IF job.path = "dualkv"
                THEN [t \in 1 .. Total |-> LogProb(all[t], input.rolled[t])] ELSE all
           s == IF job.path = "dualkv" THEN all[input.shared] ELSE x[r].shared
           one == IF Packs(job) THEN OneDeviceOut[input.shared] ELSE <<>>
<1>1. all = OneDeviceToken
  BY GatheredTokens DEF HasToken
<1> HIDE DEF all
<1>2. f = OneDeviceLogProbs
  <2>1. CASE job.path = "dualkv"
    <3>1. \A t \in 1 .. Total : all[t] = OneDeviceOut[t]
      BY <1>1, <2>1 DEF OneDeviceToken
    <3> QED
      BY <2>1, <3>1 DEF OneDeviceLogProbs
  <2>2. CASE job.path # "dualkv"
    BY <1>1, <2>2 DEF OneDeviceToken, OneDeviceLogProbs
  <2> QED
    BY <2>1, <2>2
<1>3. CASE Packs(job)
  <2>1. input.shared \in 1 .. Total
    BY <1>3, SharedOfRank
  <2>2. job.path = "dualkv" \/ job.path = "fused"
    BY <1>3, JobsAssumption DEF Running, Packs, Paths
  <2>3. s = one
    <3>1. CASE job.path = "dualkv"
      BY <1>1, <1>3, <2>1, <3>1 DEF OneDeviceToken
    <3>2. CASE job.path = "fused"
      BY <1>3, <3>2 DEF HasToken
    <3> QED
      BY <2>2, <3>1, <3>2
  <2> QED
    BY <1>2, <2>3, OneDeviceExtracts DEF all
<1>4. CASE ~Packs(job)
  <2> HIDE DEF f, s, one
  <2>1. Extract(f, s) = Extract(f, one)
    BY <1>4, ExtractUnshared
  <2>2. Extract(f, s) = OneDevice
    BY <1>2, <2>1, OneDeviceExtracts DEF one
  <2> QED
    BY <2>2 DEF f, s, all
<1> QED
  BY <1>3, <1>4

-----------------------------------------------------------------------------
(* The backward pass.                                                      *)

(* The numbers of log-probs a logit is in.                                 *)
LEMMA UsesAreCounts ==
  ASSUME Running, NEW t, NEW s
  PROVE  /\ Uses(t, s) \in Nat
         /\ Uses(t, s) = 0 <=>
              \A ik \in ResponseTokens :
                ~(Shared(ik[2]) = s /\ input.scored[ik[1]][ik[2]] = t)
<1> DEFINE all == (1 .. Len(job.rows)) \X (1 .. RespLength)
           U == {ik \in ResponseTokens : Shared(ik[2]) = s /\ input.scored[ik[1]][ik[2]] = t}
<1>1. IsFiniteSet(all)
  <2>1. Len(job.rows) \in Int /\ RespLength \in Int /\ 1 \in Int
    BY BatchOfJob, JobsAssumption DEF Running
  <2>2. IsFiniteSet(1 .. Len(job.rows)) /\ IsFiniteSet(1 .. RespLength)
    BY <2>1, FS_Interval
  <2> QED
    BY <2>2, FS_Product
<1>2. U \in SUBSET all
  BY DEF ResponseTokens
<1>3. IsFiniteSet(U)
  BY <1>1, <1>2, FS_Subset
<1>4. Uses(t, s) = Cardinality(U)
  BY DEF Uses
<1>5. Cardinality(U) \in Nat /\ (Cardinality(U) = 0 <=> U = {})
  BY <1>3, FS_CardinalityType, FS_EmptySet
<1> QED
  BY <1>4, <1>5

(* The gradient of a token's output has the factor of one device.          *)
LEMMA GradientOfOutput ==
  ASSUME Running, NEW r \in Ranks, NEW t \in 1 .. LocalSize
  PROVE  OutputGrad(r, t) = Coefficient(r * LocalSize + t)
<1> DEFINE u == r * LocalSize + t  a == Uses(u, TRUE)  b == Uses(u, FALSE)
<1>1. /\ a \in Nat /\ b \in Nat /\ job.sp \in Nat
      /\ LocalSize \in Nat /\ r \in 0 .. job.sp - 1
  BY UsesAreCounts, SizesOfJob, Layout DEF Running, Ranks
<1>2. CASE job.path = "fused"
  <2>1. job.sp = 1
    BY <1>2 DEF Running, SupportedLayout
  <2>2. u = t
    BY <1>1, <2>1
  <2> HIDE DEF u
  <2>3. OutputGrad(r, t) = 1 * b + a
    BY <1>2, <2>1, <2>2 DEF OutputGrad, GradScaler, Global, u
  <2>4. Coefficient(u) = 1 * (a + b)
    BY <2>1 DEF Coefficient
  <2> HIDE DEF a, b
  <2>5. OutputGrad(r, t) = Coefficient(u)
    BY <1>1, <2>3, <2>4
  <2> QED
    BY <2>5 DEF u
<1>3. CASE job.path # "fused"
  <2>1. OutputGrad(r, t) = job.sp * (b + a)
    BY <1>3 DEF OutputGrad, GradScaler, Global
  <2>2. Coefficient(u) = job.sp * (a + b)
    BY DEF Coefficient
  <2> HIDE DEF u, a, b
  <2>3. OutputGrad(r, t) = Coefficient(u)
    BY <1>1, <2>1, <2>2
  <2> QED
    BY <2>3 DEF u
<1> QED
  BY <1>2, <1>3

(* The backward pass of the loss.                                          *)
LEMMA LossBackwardIsSplit ==
  ASSUME Running, NEW r \in Ranks
  PROVE  TokenShard([t \in 1 .. LocalSize |-> [h \in 1 .. job.heads |->
                       [from |-> <<Global(r, t), h>>, c |-> OutputGrad(r, t)]]],
                    OneDeviceGrad, r, LocalSize, Width(job) * job.sp, LocalSize * job.sp)
<1> DEFINE n == LocalSize  sp == job.sp  W == Width(job)  all == n * sp  heads == job.heads
           d == [t \in 1 .. n |-> [h \in 1 .. heads |->
                   [from |-> <<Global(r, t), h>>, c |-> OutputGrad(r, t)]]]
<1>1. n \in Nat \ {0} /\ sp \in Nat \ {0} /\ r \in 0 .. sp - 1 /\ heads = W * sp
  BY SizesOfJob, Layout DEF Running, Ranks
<1>2. Len(d) = n
  BY <1>1
<1>3. ASSUME NEW t \in 1 .. n
      PROVE  d[t] = [h \in 1 .. heads |-> OneDeviceGrad[r * n + t][h]]
  <2> DEFINE u == r * n + t
  <2>1. u \in 1 .. all
    <3> HIDE DEF n, sp
    <3> QED
      BY <1>1, IndexInWhole
  <2>2. Global(r, t) = u /\ OutputGrad(r, t) = Coefficient(u)
    BY GradientOfOutput DEF Global
  <2>3. d[t] = [h \in 1 .. heads |-> [from |-> <<u, h>>, c |-> Coefficient(u)]]
    BY <2>2
  <2>4. OneDeviceGrad = [i \in 1 .. all |-> [h \in 1 .. heads |->
                           [from |-> <<i, h>>, c |-> Coefficient(i)]]]
    BY DEF OneDeviceGrad
  <2> HIDE DEF u, all, d
  <2>5. OneDeviceGrad[u] = [h \in 1 .. heads |-> [from |-> <<u, h>>, c |-> Coefficient(u)]]
    BY <2>1, <2>4
  <2>6. d[t] = [h \in 1 .. heads |-> OneDeviceGrad[u][h]]
    BY <2>3, <2>5
  <2> QED
    BY <2>6 DEF u
<1> HIDE DEF d
<1>4. TokenShard(d, OneDeviceGrad, r, n, heads, all)
  BY <1>2, <1>3 DEF TokenShard
<1> QED
  BY <1>1, <1>4 DEF d

(* flash_attention's backward: a rank has the gradients of its KV heads.   *)
LEMMA AttentionBackwardIsSplit ==
  ASSUME Running, NEW r \in Ranks,
         Resharded(job, LocalSize, Total, OneDeviceAttended, x[r], r),
         HasGrad(job, LocalSize, OneDeviceGrad, x[r], r)
  PROVE  HasKVGrad(job, LocalSize, OneDeviceGrad,
           Put(r, [dq |-> x[r].dout,
                   dk |-> AttentionBackward(x[r].dout, x[r].k, x[r].attended)]), r)
<1> DEFINE n == LocalSize  sp == job.sp  W == Width(job)  KW == KVWidth(job)  all == n * sp
           dout == x[r].dout  k == x[r].k  att == x[r].attended
           d == AttentionBackward(dout, k, att)
           f == Put(r, [dq |-> dout, dk |-> d])
           Pairs(t, g) == {uh \in (1 .. Len(att)) \X (1 .. W) :
                             t \in Range(att[uh[1]]) /\ KVHead(uh[2], W, KW) = g}
<1>1. n \in Nat \ {0} /\ sp \in Nat \ {0} /\ W \in Nat \ {0} /\ KW \in Nat \ {0}
  BY SizesOfJob, Layout DEF Running
<1>2. all \in Nat \ {0}
  <2> HIDE DEF n, sp
  <2> QED
    BY <1>1
<1>3. /\ HeadShard(k, Copies(job, "k", all), r, all, KW, all)
      /\ HeadShard(dout, OneDeviceGrad, r, all, W, all)
      /\ Len(att) \in Total .. all /\ Total \in Nat
  BY SizesOfJob DEF Resharded, HasGrad, Attends
<1>4. f.dk = d /\ f.attended = att /\ "dk" \in DOMAIN f
  BY DEF Put, Resharded
<1> HIDE DEF n, sp, W, KW, all, dout, k, att
<1>5. /\ Len(k) = all /\ \A t \in 1 .. all : Len(k[t]) = KW
      /\ Len(dout[1]) = W
      /\ \A t \in 1 .. all : \A h \in 1 .. W : dout[t][h] = OneDeviceGrad[t][r * W + h]
  <2>1. /\ \A t \in 1 .. all :
             /\ k[t] = [g \in 1 .. KW |-> Copies(job, "k", all)[t][r * KW + g]]
             /\ dout[t] = [h \in 1 .. W |-> OneDeviceGrad[t][r * W + h]]
        /\ Len(k) = all
    BY <1>2, <1>3 DEF HeadShard
  <2>2. ASSUME NEW t \in 1 .. all
        PROVE  /\ Len(k[t]) = KW /\ Len(dout[t]) = W
               /\ \A h \in 1 .. W : dout[t][h] = OneDeviceGrad[t][r * W + h]
    <3>1. /\ k[t] = [g \in 1 .. KW |-> Copies(job, "k", all)[t][r * KW + g]]
          /\ dout[t] = [h \in 1 .. W |-> OneDeviceGrad[t][r * W + h]]
      BY <2>1
    <3>2. KW \in Nat /\ W \in Nat
      BY <1>1
    <3> QED
      BY <3>1, <3>2
  <2>3. 1 \in 1 .. all
    BY <1>2
  <2> QED
    BY <2>1, <2>2, <2>3
<1>6. d = [t \in 1 .. Len(k) |-> [g \in 1 .. Len(k[t]) |->
             {dout[a[1]][a[2]] : a \in
                {uh \in (1 .. Len(att)) \X (1 .. Len(dout[1])) :
                   t \in Range(att[uh[1]]) /\ KVHead(uh[2], Len(dout[1]), Len(k[t])) = g}}]]
  BY DEF AttentionBackward
<1> HIDE DEF d
<1>7. Len(d) = all
  BY <1>2, <1>5, <1>6
<1>8. ASSUME NEW t \in 1 .. all
      PROVE  d[t] = [g \in 1 .. KW |->
                       {OneDeviceGrad[a[1]][r * W + a[2]] : a \in Pairs(t, g)}]
  <2>1. d[t] = [g \in 1 .. KW |-> {dout[a[1]][a[2]] : a \in Pairs(t, g)}]
    BY <1>5, <1>6
  <2>2. ASSUME NEW g \in 1 .. KW, NEW a \in Pairs(t, g)
        PROVE  dout[a[1]][a[2]] = OneDeviceGrad[a[1]][r * W + a[2]]
    <3>1. a[1] \in 1 .. Len(att) /\ a[2] \in 1 .. W
      BY <2>2
    <3>2. a[1] \in 1 .. all
      BY <1>2, <1>3, <3>1
    <3> QED
      BY <1>5, <3>1, <3>2
  <2> HIDE DEF Pairs
  <2>3. ASSUME NEW g \in 1 .. KW
        PROVE  {dout[a[1]][a[2]] : a \in Pairs(t, g)} =
                 {OneDeviceGrad[a[1]][r * W + a[2]] : a \in Pairs(t, g)}
    BY <2>2
  <2> QED
    BY <2>1, <2>3
<1> HIDE DEF f
<1>9. HasKVGrad(job, n, OneDeviceGrad, f, r)
  BY <1>4, <1>7, <1>8 DEF HasKVGrad, sp, all, W, KW
<1> QED
  BY <1>9 DEF f, d, dout, k, att, n

(* What is in a sequence over a set is in the set.                         *)
LEMMA ElementsOfSeq ==
  ASSUME NEW U, NEW s, s \in Seq(U)
  PROVE  Range(s) \subseteq U
<1>1. s \in [1 .. Len(s) -> U]
  OBVIOUS
<1>2. Range(s) = {s[i] : i \in DOMAIN s}
  BY DEF Range
<1> QED
  BY <1>1, <1>2

(* An output adds nothing unless it is used, and only tokens of the job    *)
(* are.                                                                    *)
LEMMA UsedTokens ==
  ASSUME Running, NEW u, NEW H
  PROVE  /\ AllUses(u) \in Nat
         /\ Contribution(u, H).c # 0 <=> AllUses(u) > 0
         /\ AllUses(u) > 0 => u \in 1 .. Total
<1> DEFINE a == Uses(u, TRUE)  b == Uses(u, FALSE)  sp == job.sp
<1>1. a \in Nat /\ b \in Nat /\ sp \in Nat \ {0}
  BY UsesAreCounts, Layout DEF Running
<1>2. AllUses(u) = a + b /\ Contribution(u, H).c = sp * (a + b)
  BY DEF AllUses, Contribution, Coefficient
<1>3. ASSUME NEW i \in 1 .. Len(job.rows), NEW k \in 1 .. RespLength,
             k <= job.rows[i].rlen
      PROVE  input.scored[i][k] \in 1 .. Total
  <2>1. input.scored[i][k] = ScoredAt(job, Segments(job), i, k)
    BY DEF Running, Inputs
  <2>2. k \in Nat \ {0}
    BY JobsAssumption
  <2>3. ScoredAt(job, Segments(job), i, k) \in 1 .. Len(Packed(Segments(job)))
    BY <1>3, <2>2, ScoredInside DEF Running
  <2> QED
    BY <2>1, <2>3, SizesOfJob
<1>4. \A ik \in ResponseTokens : input.scored[ik[1]][ik[2]] \in 1 .. Total
  BY <1>3 DEF ResponseTokens
<1>5. ASSUME u \notin 1 .. Total PROVE a = 0 /\ b = 0
  <2>1. \A ik \in ResponseTokens : input.scored[ik[1]][ik[2]] # u
    BY <1>4, <1>5
  <2>2. \A s : Uses(u, s) = 0
    BY <2>1, UsesAreCounts, Zenon
  <2> QED
    BY <2>2
<1> HIDE DEF a, b, sp
<1>6. sp * (a + b) # 0 <=> a + b > 0
  <2>1. a + b \in Nat
    BY <1>1
  <2> DEFINE m == a + b
  <2>2. m \in Nat
    BY <2>1
  <2> HIDE DEF m
  <2>3. sp * m # 0 <=> m > 0
    <3>1. m = 0 => sp * m = 0
      BY <1>1
    <3>2. m > 0 => sp * m > 0
      BY <1>1, <2>2
    <3> QED
      BY <2>2, <3>1, <3>2
  <2> QED
    BY <2>3 DEF m
<1>7. AllUses(u) \in Nat /\ (AllUses(u) > 0 => u \in 1 .. Total)
  BY <1>1, <1>2, <1>5
<1> QED
  BY <1>2, <1>6, <1>7

(* The entries of the gradient of head g of token G on rank q.             *)
LEMMA GradsOfHead ==
  ASSUME Running, NEW q \in Ranks,
         Resharded(job, LocalSize, Total, OneDeviceAttended, x[q], q),
         HasKVGrad(job, LocalSize, OneDeviceGrad, x[q], q),
         NEW G \in 1 .. LocalSize * job.sp, NEW g \in 1 .. KVWidth(job), NEW e
  PROVE  e \in x[q].dk[G][g] /\ e.c # 0 <=>
           \E u \in 1 .. Total : \E h \in 1 .. Width(job) :
             /\ e = Contribution(u, q * Width(job) + h) /\ AllUses(u) > 0
             /\ G \in Range(OneDeviceAttended[u])
             /\ KVHead(h, Width(job), KVWidth(job)) = g
<1> DEFINE n == LocalSize  sp == job.sp  W == Width(job)  KW == KVWidth(job)  all == n * sp
           T == Total  att == x[q].attended  heads == job.heads
           Pairs == {uh \in (1 .. Len(att)) \X (1 .. W) :
                       G \in Range(att[uh[1]]) /\ KVHead(uh[2], W, KW) = g}
<1>1. /\ n \in Nat \ {0} /\ sp \in Nat \ {0} /\ W \in Nat \ {0} /\ KW \in Nat \ {0}
      /\ heads = W * sp /\ q \in 0 .. sp - 1 /\ T \in Nat
  BY SizesOfJob, Layout DEF Running, Ranks
<1>2. /\ Len(att) \in T .. all
      /\ \A u \in 1 .. T : att[u] = OneDeviceAttended[u]
  BY DEF Resharded, Attends
<1>3. x[q].dk[G][g] = {OneDeviceGrad[a[1]][q * W + a[2]] : a \in Pairs}
  BY DEF HasKVGrad
<1>4. ASSUME NEW u \in 1 .. all, NEW h \in 1 .. W
      PROVE  OneDeviceGrad[u][q * W + h] = Contribution(u, q * W + h)
  <2> DEFINE H == q * W + h
  <2>1. H \in 1 .. heads
    <3>1. q * W + h \in 1 .. W * sp
      <4> HIDE DEF W, sp
      <4> QED
        BY <1>1, IndexInWhole
    <3> QED
      BY <1>1, <3>1
  <2> HIDE DEF H
  <2>2. OneDeviceGrad[u][H] = Contribution(u, H)
    BY <2>1 DEF OneDeviceGrad, Contribution
  <2> QED
    BY <2>2 DEF H
<1>5. all \in Nat
  <2> HIDE DEF n, sp
  <2> QED
    BY <1>1
<1> HIDE DEF n, sp, W, KW, all, T, att, heads
<1>6. \A u \in 1 .. T : u \in 1 .. Len(att) /\ u \in 1 .. all
  BY <1>1, <1>2, <1>5
<1>7. \A u \in 1 .. Len(att) : u \in 1 .. all
  BY <1>1, <1>2, <1>5
<1>8. ASSUME e \in x[q].dk[G][g], e.c # 0
      PROVE  \E u \in 1 .. T : \E h \in 1 .. W :
               /\ e = Contribution(u, q * W + h) /\ AllUses(u) > 0
               /\ G \in Range(OneDeviceAttended[u]) /\ KVHead(h, W, KW) = g
  <2>1. PICK a \in Pairs : e = OneDeviceGrad[a[1]][q * W + a[2]]
    BY <1>3, <1>8
  <2> DEFINE u == a[1]  h == a[2]
  <2>2. /\ u \in 1 .. Len(att) /\ h \in 1 .. W
        /\ G \in Range(att[u]) /\ KVHead(h, W, KW) = g
        /\ e = OneDeviceGrad[u][q * W + h]
    BY <2>1
  <2> HIDE DEF u, h
  <2>3. e = Contribution(u, q * W + h)
    BY <1>4, <1>7, <2>2
  <2>4. AllUses(u) > 0 /\ u \in 1 .. T
    BY <1>8, <2>3, UsedTokens DEF T
  <2>5. G \in Range(OneDeviceAttended[u])
    BY <1>2, <2>2, <2>4
  <2> QED
    BY <2>2, <2>3, <2>4, <2>5
<1>9. ASSUME NEW u \in 1 .. T, NEW h \in 1 .. W,
             e = Contribution(u, q * W + h), AllUses(u) > 0,
             G \in Range(OneDeviceAttended[u]), KVHead(h, W, KW) = g
      PROVE  e \in x[q].dk[G][g] /\ e.c # 0
  <2>1. u \in 1 .. Len(att) /\ u \in 1 .. all /\ att[u] = OneDeviceAttended[u]
    BY <1>2, <1>6
  <2>2. <<u, h>> \in Pairs
    BY <1>9, <2>1
  <2>3. OneDeviceGrad[u][q * W + h] \in x[q].dk[G][g]
    BY <1>3, <2>2
  <2>4. e = OneDeviceGrad[u][q * W + h]
    BY <1>4, <1>9, <2>1
  <2>5. e.c # 0
    BY <1>9, UsedTokens
  <2> QED
    BY <2>3, <2>4, <2>5
<1>10. e \in x[q].dk[G][g] /\ e.c # 0 <=>
         \E u \in 1 .. T : \E h \in 1 .. W :
           /\ e = Contribution(u, q * W + h) /\ AllUses(u) > 0
           /\ G \in Range(OneDeviceAttended[u]) /\ KVHead(h, W, KW) = g
  BY <1>8, <1>9
<1> QED
  BY <1>10 DEF T, W, KW

(* all_to_all of the gradients, and the sum over the copies of a KV head.  *)
LEMMA ProjectionIsSplit ==
  ASSUME Running, NEW r \in Ranks, NEW t \in 1 .. LocalSize, NEW g \in 1 .. job.kv,
         \A q \in Ranks :
           /\ Resharded(job, LocalSize, Total, OneDeviceAttended, x[q], q)
           /\ HasKVGrad(job, LocalSize, OneDeviceGrad, x[q], q)
  PROVE  RepeatBackward(HeadsFromAll(r, "dk"))[t][g] =
           IF r * LocalSize + t <= Total THEN OneDeviceKVGrad[r * LocalSize + t][g] ELSE {}
<1> DEFINE n == LocalSize  sp == job.sp  W == Width(job)  KW == KVWidth(job)  all == n * sp
           T == Total  heads == job.heads  kv == job.kv  K == KW * sp  G == r * n + t
           s == HeadsFromAll(r, "dk")
           Of(e) == \E u \in 1 .. T : \E H \in 1 .. heads :
                      /\ e = Contribution(u, H) /\ AllUses(u) > 0
                      /\ KVHead(H, heads, kv) = g /\ G \in Range(OneDeviceAttended[u])
<1>1. /\ n \in Nat \ {0} /\ sp \in Nat \ {0} /\ W \in Nat \ {0} /\ KW \in Nat \ {0}
      /\ heads = W * sp /\ Ranks = 0 .. sp - 1 /\ T \in Nat \ {0}
      /\ job.kv * Repeats(job) = K
  BY SizesOfJob, Layout DEF Running, Ranks
<1>2. G \in 1 .. all /\ all \in Nat \ {0}
  <2> HIDE DEF n, sp
  <2>1. all \in Nat \ {0}
    BY <1>1
  <2>2. r * n + t \in 1 .. n * sp
    BY <1>1, IndexInWhole DEF n
  <2> QED
    BY <2>1, <2>2
<1>3. \A q \in Ranks : Len(x[q].dk) = all /\ Len(x[q].dk[1]) = KW
  <2> TAKE q \in Ranks
  <2>1. Len(x[q].dk) = all
    BY DEF HasKVGrad
  <2> DEFINE row(u) == [i \in 1 .. KW |-> x[q].dk[u][i]]
  <2>2. \A u \in 1 .. all : x[q].dk[u] = row(u)
    BY DEF HasKVGrad
  <2>3. x[q].dk[1] = row(1)
    BY <1>2, <2>2
  <2>4. Len(row(1)) = KW
    BY <1>1
  <2> QED
    BY <2>1, <2>3, <2>4
<1>4. s[t] = [i \in 1 .. K |-> x[(i - 1) \div KW].dk[G][((i - 1) % KW) + 1]] /\ Len(s) = n
  <2>1. all \div sp = n
    BY <1>1, Quotient
  <2> DEFINE row(c) == [h \in 1 .. K |-> x[(h - 1) \div KW].dk[r * n + c][((h - 1) % KW) + 1]]
  <2>2. s = [c \in 1 .. n |-> row(c)]
    BY <1>3, <2>1 DEF HeadsFromAll
  <2>3. t \in 1 .. n /\ n \in Nat
    BY <1>1
  <2> HIDE DEF row, s, n
  <2>4. s[t] = row(t) /\ Len(s) = n
    BY <2>2, <2>3
  <2> QED
    BY <2>4 DEF row, n
<1> DEFINE Sum(c, a) ==
      {e \in UNION {s[c][i] : i \in {i \in 1 .. Len(s[c]) : CopyOf(job, i) = a}} : e.c # 0}
<1>5. RepeatBackward(s) = [c \in 1 .. Len(s) |-> [a \in 1 .. kv |-> Sum(c, a)]]
  BY DEF RepeatBackward
<1> HIDE DEF n, sp, W, KW, all, T, heads, kv, G, s
<1>6. Len(s[t]) = K
  <2>1. K \in Nat
    BY <1>1
  <2> HIDE DEF K
  <2> QED
    BY <1>4, <2>1
<1>7. \A i \in 1 .. K : s[t][i] = x[(i - 1) \div KW].dk[G][((i - 1) % KW) + 1]
  BY <1>4
<1>8. RepeatBackward(s)[t][g] =
        {e \in UNION {s[t][i] : i \in {i \in 1 .. K : CopyOf(job, i) = g}} : e.c # 0}
  <2> HIDE DEF Sum
  <2>1. RepeatBackward(s)[t][g] = Sum(t, g)
    BY <1>4, <1>5 DEF kv, n
  <2> QED
    BY <1>6, <2>1 DEF Sum
<1>9. ASSUME NEW e \in RepeatBackward(s)[t][g] PROVE Of(e)
  <2>1. PICK i \in 1 .. K : CopyOf(job, i) = g /\ e \in s[t][i] /\ e.c # 0
    BY <1>8, <1>9
  <2> DEFINE q == (i - 1) \div KW  a == ((i - 1) % KW) + 1
  <2>2. q \in Ranks /\ a \in 1 .. KW /\ q * KW + a = i
    BY <1>1, PartAndIndex
  <2>3. e \in x[q].dk[G][a]
    BY <1>7, <2>1
  <2> HIDE DEF q, a
  <2>4. PICK u \in 1 .. T : \E h \in 1 .. W :
          /\ e = Contribution(u, q * W + h) /\ AllUses(u) > 0
          /\ G \in Range(OneDeviceAttended[u]) /\ KVHead(h, W, KW) = a
    BY <1>2, <2>1, <2>2, <2>3, GradsOfHead DEF T, W, KW, all, n, sp
  <2>5. PICK h \in 1 .. W :
          /\ e = Contribution(u, q * W + h) /\ AllUses(u) > 0
          /\ G \in Range(OneDeviceAttended[u]) /\ KVHead(h, W, KW) = a
    BY <2>4
  <2> DEFINE H == q * W + h
  <2>6. H \in 1 .. heads /\ CopyOf(job, q * KW + KVHead(h, W, KW)) = KVHead(H, heads, kv)
    BY <2>2, HeadsOfRank DEF Running, Ranks, W, KW, heads, kv
  <2> HIDE DEF H
  <2>7. KVHead(H, heads, kv) = g
    BY <2>1, <2>2, <2>5, <2>6
  <2>8. e = Contribution(u, H)
    BY <2>5 DEF H
  <2> QED
    BY <2>5, <2>6, <2>7, <2>8
<1>10. ASSUME NEW e, Of(e) PROVE e \in RepeatBackward(s)[t][g]
  <2>1. PICK u \in 1 .. T : \E H \in 1 .. heads :
          /\ e = Contribution(u, H) /\ AllUses(u) > 0
          /\ KVHead(H, heads, kv) = g /\ G \in Range(OneDeviceAttended[u])
    BY <1>10
  <2>2. PICK H \in 1 .. heads :
          /\ e = Contribution(u, H) /\ AllUses(u) > 0
          /\ KVHead(H, heads, kv) = g /\ G \in Range(OneDeviceAttended[u])
    BY <2>1
  <2>3. PICK q \in 0 .. job.sp - 1 : \E h \in 1 .. W : H = q * W + h
    BY HeadOfSomeRank DEF Running, W, heads
  <2>4. PICK h \in 1 .. W : H = q * W + h
    BY <2>3
  <2> DEFINE a == KVHead(h, W, KW)  i == q * KW + a
  <2>5. /\ a \in 1 .. KW /\ CopyOf(job, i) = KVHead(H, heads, kv) /\ q \in Ranks
        /\ i \in 1 .. K
    BY <1>1, <2>4, HeadsOfRank DEF Running, Ranks, W, KW, heads, kv
  <2>6. e \in x[q].dk[G][a] /\ e.c # 0
    BY <1>2, <2>2, <2>4, <2>5, GradsOfHead DEF T, W, KW, all, n, sp
  <2>7. (i - 1) \div KW = q /\ ((i - 1) % KW) + 1 = a
    <3> HIDE DEF a
    <3>1. q \in Nat /\ q * KW \in Nat /\ KW * q = q * KW
      BY <1>1, <2>5
    <3>2. i - 1 \in Nat /\ i - 1 = q * KW + (a - 1) /\ a - 1 \in 0 .. KW - 1
      BY <1>1, <2>5, <3>1
    <3> HIDE DEF i
    <3>3. KW * q <= i - 1 /\ i - 1 < KW * q + KW
      BY <1>1, <3>1, <3>2
    <3>4. (i - 1) \div KW = q
      BY <1>1, <3>1, <3>2, <3>3, DivUnique
    <3> DEFINE m == i - 1
    <3>5. m \in Int /\ m \div KW = q
      BY <3>2, <3>4
    <3> HIDE DEF m
    <3>6. m % KW = a - 1
      <4> DEFINE p == KW * q
      <4>1. m = KW * (m \div KW) + (m % KW)
        BY <1>1, <3>5
      <4>2. m = p + (m % KW) /\ m = p + (a - 1) /\ p \in Nat /\ a - 1 \in Nat
        BY <3>1, <3>2, <3>5, <4>1 DEF m
      <4>3. m % KW \in Int
        BY <1>1, <3>5
      <4> HIDE DEF p
      <4> QED
        BY <4>2, <4>3
    <3> QED
      BY <1>1, <2>5, <3>4, <3>6 DEF m
  <2> HIDE DEF a, i
  <2>8. e \in s[t][i]
    BY <1>7, <2>5, <2>6, <2>7
  <2> QED
    BY <1>8, <2>2, <2>5, <2>6, <2>8
<1>11. \A e : Of(e) => G \in 1 .. T
  <2> TAKE e
  <2> HAVE Of(e)
  <2>1. PICK u \in 1 .. T : G \in Range(OneDeviceAttended[u])
    OBVIOUS
  <2> DEFINE a == OneDeviceAttended[u]
  <2>2. a \in Seq(1 .. T)
    BY OneDeviceAttends DEF T
  <2> HIDE DEF a
  <2>3. Range(a) \subseteq 1 .. T
    BY <2>2, ElementsOfSeq
  <2> QED
    BY <2>1, <2>3 DEF a
<1>12. CASE G <= T
  <2>1. G \in 1 .. T
    BY <1>1, <1>2, <1>12
  <2>2. OneDeviceKVGrad[G][g] =
          {Contribution(a[1], a[2]) : a \in
             {uh \in (1 .. T) \X (1 .. heads) :
                /\ AllUses(uh[1]) > 0 /\ KVHead(uh[2], heads, kv) = g
                /\ G \in Range(OneDeviceAttended[uh[1]])}}
    BY <2>1 DEF OneDeviceKVGrad, T, heads, kv
  <2> DEFINE pairs == {uh \in (1 .. T) \X (1 .. heads) :
                        /\ AllUses(uh[1]) > 0 /\ KVHead(uh[2], heads, kv) = g
                        /\ G \in Range(OneDeviceAttended[uh[1]])}
  <2>3. ASSUME NEW e PROVE e \in OneDeviceKVGrad[G][g] <=> Of(e)
    <3>1. ASSUME e \in OneDeviceKVGrad[G][g] PROVE Of(e)
      <4>1. PICK a \in pairs : e = Contribution(a[1], a[2])
        BY <2>2, <3>1
      <4>2. /\ a[1] \in 1 .. T /\ a[2] \in 1 .. heads
            /\ e = Contribution(a[1], a[2]) /\ AllUses(a[1]) > 0
            /\ KVHead(a[2], heads, kv) = g /\ G \in Range(OneDeviceAttended[a[1]])
        BY <4>1
      <4> QED
        BY <4>2
    <3>2. ASSUME NEW u \in 1 .. T, NEW H \in 1 .. heads,
                 e = Contribution(u, H), AllUses(u) > 0,
                 KVHead(H, heads, kv) = g, G \in Range(OneDeviceAttended[u])
          PROVE  e \in OneDeviceKVGrad[G][g]
      <4>1. <<u, H>> \in pairs
        BY <3>2
      <4> HIDE DEF pairs
      <4>2. Contribution(<<u, H>>[1], <<u, H>>[2]) \in OneDeviceKVGrad[G][g]
        BY <2>2, <4>1 DEF pairs
      <4> QED
        BY <3>2, <4>2
    <3> QED
      BY <3>1, <3>2
  <2>4. RepeatBackward(s)[t][g] = OneDeviceKVGrad[G][g]
    BY <1>9, <1>10, <2>3
  <2> QED
    BY <1>12, <2>4 DEF s, G, T, n
<1>13. CASE ~(G <= T)
  <2>1. \A e : ~Of(e)
    <3> HIDE DEF Of
    <3> QED
      BY <1>1, <1>2, <1>11, <1>13
  <2>2. RepeatBackward(s)[t][g] = {}
    <3> HIDE DEF Of
    <3> QED
      BY <1>9, <2>1
  <2> QED
    BY <1>13, <2>2 DEF s, G, T, n
<1> QED
  BY <1>12, <1>13

-----------------------------------------------------------------------------
(* Every step keeps the invariant.                                         *)

(* What one device computes depends on the job and the input only.         *)
LEMMA OneDeviceKept ==
  ASSUME job' = job, input' = input
  PROVE  /\ Ranks' = Ranks /\ LocalSize' = LocalSize /\ Total' = Total
         /\ OneDeviceAttended' = OneDeviceAttended /\ OneDeviceOut' = OneDeviceOut
         /\ OneDeviceToken' = OneDeviceToken /\ OneDeviceGrad' = OneDeviceGrad
         /\ OneDeviceKVGrad' = OneDeviceKVGrad /\ OneDevice' = OneDevice
         /\ Running' = Running
<1>1. Ranks' = Ranks
  BY DEF Ranks
<1>2. Total' = Total
  BY DEF Total
<1>3. LocalSize' = LocalSize
  BY <1>2 DEF LocalSize, PadSize
<1>4. OneDeviceAttended' = OneDeviceAttended
  BY DEF OneDeviceAttended
<1>5. OneDeviceOut' = OneDeviceOut
  BY <1>2, <1>4 DEF OneDeviceOut
<1>6. OneDeviceToken' = OneDeviceToken
  BY <1>2, <1>5 DEF OneDeviceToken
<1>7. \A t : Uses(t, TRUE)' = Uses(t, TRUE) /\ Uses(t, FALSE)' = Uses(t, FALSE)
  BY DEF Uses, ResponseTokens, Shared
<1>8. \A t : Coefficient(t)' = Coefficient(t) /\ AllUses(t)' = AllUses(t)
  BY <1>7 DEF Coefficient, AllUses
<1>9. OneDeviceGrad' = OneDeviceGrad
  BY <1>3, <1>8 DEF OneDeviceGrad
<1>10. \A u, H : Contribution(u, H)' = Contribution(u, H)
  BY <1>8 DEF Contribution
<1>11. OneDeviceKVGrad' = OneDeviceKVGrad
  BY <1>2, <1>4, <1>8, <1>10 DEF OneDeviceKVGrad
<1>12. OneDevice' = OneDevice
  BY <1>2 DEF OneDevice, Extract, ResponseTokens, Shared, OneDeviceAttended
<1>13. Running' = Running
  BY DEF Running
<1> QED
  BY <1>1, <1>2, <1>3, <1>4, <1>5, <1>6, <1>9, <1>11, <1>12, <1>13

(* The ten stages a job goes through. *)
LEMMA StageNames ==
  /\ Stages[1] = "gather_seq_scatter_heads" /\ Stages[2] = "flash_attention"
  /\ Stages[3] = "gather_heads_scatter_seq" /\ Stages[4] = "loss_head"
  /\ Stages[5] = "gather_outputs" /\ Stages[6] = "backward" /\ Stages[7] = "out_backward"
  /\ Stages[8] = "attention_backward" /\ Stages[9] = "projection_backward"
  /\ Stages[10] = "done"
  /\ \A k \in 1 .. 10 : Stages[k] \in Range(Stages)
<1>1. DOMAIN Stages = 1 .. 10
  BY DEF Stages
<1>2. \A k \in 1 .. 10 : Stages[k] \in Range(Stages)
  BY <1>1 DEF Range
<1> QED
  BY <1>2 DEF Stages

(* What a step has to show of the tensors it leaves.                       *)
LEMMA NextStage ==
  ASSUME SplitInv, job' = job, input' = input,
         pc' \in Range(Stages), pc' # Stages[1],
         \A r \in Ranks :
           /\ Resharded(job, LocalSize, Total, OneDeviceAttended, x'[r], r)
           /\ pc' = Stages[3] => HasOutput(job, LocalSize, Total, OneDeviceOut, x'[r], r)
           /\ pc' = Stages[4] => HasOwnOutput(job, LocalSize, Total, OneDeviceOut, x'[r], r)
           /\ pc' = Stages[5] => HasToken(job, LocalSize, Total, OneDeviceToken,
                                          OneDeviceOut, input.shared, x'[r], r)
           /\ pc' = Stages[7] => HasOwnGrad(job, LocalSize, OneDeviceGrad, x'[r], r)
           /\ pc' = Stages[8] => HasGrad(job, LocalSize, OneDeviceGrad, x'[r], r)
           /\ pc' = Stages[9] => HasKVGrad(job, LocalSize, OneDeviceGrad, x'[r], r)
           /\ pc' = Stages[10] => HasGradients(job, LocalSize, Total, OneDeviceKVGrad,
                                               grads'[r], r)
           /\ res'[r] = <<>> \/ res'[r] = OneDevice
  PROVE  SplitInv'
<1>1. /\ Ranks' = Ranks /\ LocalSize' = LocalSize /\ Total' = Total
      /\ OneDeviceAttended' = OneDeviceAttended /\ OneDeviceOut' = OneDeviceOut
      /\ OneDeviceToken' = OneDeviceToken /\ OneDeviceGrad' = OneDeviceGrad
      /\ OneDeviceKVGrad' = OneDeviceKVGrad /\ OneDevice' = OneDevice
      /\ Running'
  BY OneDeviceKept DEF SplitInv
<1> DEFINE Kept(r) ==
      /\ (pc = Stages[1] => AtStart(x[r], r))'
      /\ (pc # Stages[1] => Resharded(job, LocalSize, Total, OneDeviceAttended, x[r], r))'
      /\ (pc = Stages[3] => HasOutput(job, LocalSize, Total, OneDeviceOut, x[r], r))'
      /\ (pc = Stages[4] => HasOwnOutput(job, LocalSize, Total, OneDeviceOut, x[r], r))'
      /\ (pc = Stages[5] => HasToken(job, LocalSize, Total, OneDeviceToken, OneDeviceOut,
                                     input.shared, x[r], r))'
      /\ (pc = Stages[7] => HasOwnGrad(job, LocalSize, OneDeviceGrad, x[r], r))'
      /\ (pc = Stages[8] => HasGrad(job, LocalSize, OneDeviceGrad, x[r], r))'
      /\ (pc = Stages[9] => HasKVGrad(job, LocalSize, OneDeviceGrad, x[r], r))'
      /\ (pc = Stages[10] => HasGradients(job, LocalSize, Total, OneDeviceKVGrad, grads[r], r))'
      /\ (res[r] = <<>> \/ res[r] = OneDevice)'
<1>2. ASSUME NEW r \in Ranks PROVE Kept(r)
  BY <1>1
<1> HIDE DEF Kept
<1>3. \A r \in Ranks' : Kept(r)
  BY <1>1, <1>2
<1> QED
  BY <1>1, <1>3 DEF SplitInv, Kept

(* Stage 1: every rank gets its heads of every token. *)
LEMMA GatherKeeps ==
  ASSUME SplitInv, GatherSeqScatterHeads
  PROVE  SplitInv'
<1>1. /\ pc = Stages[1] /\ pc' = Stages[2] /\ job' = job /\ input' = input
      /\ res' = res /\ grads' = grads
  BY StageNames DEF GatherSeqScatterHeads, Step
<1>2. ASSUME NEW r \in Ranks
      PROVE  /\ Resharded(job, LocalSize, Total, OneDeviceAttended, x'[r], r)
             /\ res'[r] = <<>> \/ res'[r] = OneDevice
  <2> DEFINE new == [q |-> SeqFromAll(r, "q"), k |-> SeqFromAll(r, "k"),
                     v |-> SeqFromAll(r, "v"), pos |-> Gathered("pos"),
                     attended |-> Attended(job, input.attended, Gathered("pos"))]
  <2>1. x'[r] = Put(r, new)
    BY DEF GatherSeqScatterHeads
  <2>2. Resharded(job, LocalSize, Total, OneDeviceAttended, Put(r, new), r)
    BY <1>1, GatherIsSplit DEF SplitInv
  <2> HIDE DEF new
  <2> QED
    BY <1>1, <2>1, <2>2 DEF SplitInv
<1> QED
  BY <1>1, <1>2, NextStage, StageNames

(* Stage 2: the outputs of its heads are those of one device. *)
LEMMA AttentionKeeps ==
  ASSUME SplitInv, FlashAttention
  PROVE  SplitInv'
<1>1. /\ pc = Stages[2] /\ pc' = Stages[3] /\ job' = job /\ input' = input
      /\ res' = res /\ grads' = grads
  BY StageNames DEF FlashAttention, Step
<1>2. ASSUME NEW r \in Ranks
      PROVE  /\ Resharded(job, LocalSize, Total, OneDeviceAttended, x'[r], r)
             /\ HasOutput(job, LocalSize, Total, OneDeviceOut, x'[r], r)
             /\ res'[r] = <<>> \/ res'[r] = OneDevice
  <2> DEFINE o == PadOutput(Attention(x[r].q, x[r].k, x[r].v, x[r].attended), Len(x[r].q))
             new == [out |-> o]
  <2>1. x'[r] = Put(r, new)
    BY DEF FlashAttention
  <2>2. Resharded(job, LocalSize, Total, OneDeviceAttended, x[r], r)
    BY <1>1, StageNames DEF SplitInv
  <2>3. HeadShard(o, OneDeviceOut, r, LocalSize * job.sp, Width(job), Total)
    BY <2>2, AttentionIsSplit DEF SplitInv
  <2> HIDE DEF o
  <2>4. DOMAIN new = {"out"} /\ Put(r, new).out = o /\ "out" \in DOMAIN Put(r, new)
    BY DEF Put
  <2>5. DOMAIN new \cap {"q", "k", "v", "attended"} = {}
    BY <2>4
  <2> HIDE DEF new
  <2>6. Resharded(job, LocalSize, Total, OneDeviceAttended, Put(r, new), r)
    BY <2>2, <2>5, ReshardedKept
  <2> QED
    BY <1>1, <2>1, <2>3, <2>4, <2>6 DEF SplitInv, HasOutput
<1> QED
  BY <1>1, <1>2, NextStage, StageNames

(* Stage 3: every rank gets the outputs of all heads of its tokens. *)
LEMMA GatherHeadsKeeps ==
  ASSUME SplitInv, GatherHeadsScatterSeq
  PROVE  SplitInv'
<1>1. /\ pc = Stages[3] /\ pc' = Stages[4] /\ job' = job /\ input' = input
      /\ res' = res /\ grads' = grads
  BY StageNames DEF GatherHeadsScatterSeq, Step
<1>2. ASSUME NEW r \in Ranks
      PROVE  /\ Resharded(job, LocalSize, Total, OneDeviceAttended, x'[r], r)
             /\ HasOwnOutput(job, LocalSize, Total, OneDeviceOut, x'[r], r)
             /\ res'[r] = <<>> \/ res'[r] = OneDevice
  <2> DEFINE o == HeadsFromAll(r, "out")  new == [out |-> o]
  <2>1. x'[r] = Put(r, new)
    BY DEF GatherHeadsScatterSeq
  <2>2. \A q \in Ranks : HeadShard(x[q]["out"], OneDeviceOut, q, LocalSize * job.sp,
                                   Width(job), Total)
    BY <1>1 DEF SplitInv, HasOutput
  <2>3. /\ LocalSize \in Nat \ {0} /\ Width(job) \in Nat \ {0} /\ job.sp \in Nat \ {0}
        /\ Total \in Nat \ {0}
    BY SizesOfJob, Layout DEF SplitInv, Running
  <2>4. TokenShard(o, OneDeviceOut, r, LocalSize, Width(job) * job.sp, Total)
    BY <2>2, <2>3, HeadsFromAllShards
  <2> HIDE DEF o
  <2>5. DOMAIN new = {"out"} /\ Put(r, new).out = o /\ "out" \in DOMAIN Put(r, new)
    BY DEF Put
  <2>6. DOMAIN new \cap {"q", "k", "v", "attended"} = {}
    BY <2>5
  <2>7. Resharded(job, LocalSize, Total, OneDeviceAttended, x[r], r)
    BY <1>1, StageNames DEF SplitInv
  <2> HIDE DEF new
  <2>8. Resharded(job, LocalSize, Total, OneDeviceAttended, Put(r, new), r)
    BY <2>6, <2>7, ReshardedKept
  <2> QED
    BY <1>1, <2>1, <2>4, <2>5, <2>8 DEF SplitInv, HasOwnOutput
<1> QED
  BY <1>1, <1>2, NextStage, StageNames

(* Stage 4: and the loss head makes the log-probs of one device of them. *)
LEMMA LossHeadKeeps ==
  ASSUME SplitInv, LossHead
  PROVE  SplitInv'
<1>1. ~LossHeadRaises
  <2>1. CASE Packs(job)
    BY <2>1, SharedOfRank DEF SplitInv
  <2>2. CASE ~Packs(job)
    BY <2>2 DEF Packs, LossHeadRaises
  <2> QED
    BY <2>1, <2>2
<1>2. /\ pc = Stages[4] /\ pc' = Stages[5] /\ job' = job /\ input' = input
      /\ res' = res /\ grads' = grads
  BY <1>1, StageNames DEF LossHead, Step
<1>3. ASSUME NEW r \in Ranks
      PROVE  /\ Resharded(job, LocalSize, Total, OneDeviceAttended, x'[r], r)
             /\ HasToken(job, LocalSize, Total, OneDeviceToken, OneDeviceOut,
                         input.shared, x'[r], r)
             /\ res'[r] = <<>> \/ res'[r] = OneDevice
  <2> DEFINE tok == [t \in 1 .. LocalSize |->
                       IF job.path = "dualkv" THEN x[r].out[t]
                       ELSE LogProb(x[r].out[t], Labels(r)[t])]
             s == IF job.path = "fused" THEN x[r].out[input.shared] ELSE <<>>
             new == [token |-> tok, shared |-> s]
  <2>1. x'[r] = Put(r, new)
    BY <1>1 DEF LossHead
  <2>2. HasOwnOutput(job, LocalSize, Total, OneDeviceOut, x[r], r)
    BY <1>2 DEF SplitInv
  <2>3. /\ SeqSlice(tok, OneDeviceToken, r, LocalSize, Total)
        /\ job.path = "fused" => s = OneDeviceOut[input.shared]
    <3> DEFINE f == x[r]
    <3>1. /\ SeqSlice([t \in 1 .. LocalSize |->
                         IF job.path = "dualkv" THEN f.out[t]
                         ELSE LogProb(f.out[t], Labels(r)[t])],
                      OneDeviceToken, r, LocalSize, Total)
          /\ job.path = "fused" => f.out[input.shared] = OneDeviceOut[input.shared]
      <4>1. Running /\ HasOwnOutput(job, LocalSize, Total, OneDeviceOut, f, r)
        BY <2>2 DEF SplitInv
      <4> HIDE DEF f
      <4> QED
        BY <4>1, LossHeadIsSplit, Zenon
    <3> QED
      BY <3>1
  <2> HIDE DEF tok, s
  <2>4. /\ DOMAIN new = {"token", "shared"} /\ Put(r, new).token = tok
        /\ Put(r, new).shared = s /\ {"token", "shared"} \subseteq DOMAIN Put(r, new)
    BY DEF Put
  <2>5. DOMAIN new \cap {"q", "k", "v", "attended"} = {}
    BY <2>4
  <2>6. Resharded(job, LocalSize, Total, OneDeviceAttended, x[r], r)
    BY <1>2, StageNames DEF SplitInv
  <2> HIDE DEF new
  <2>7. Resharded(job, LocalSize, Total, OneDeviceAttended, Put(r, new), r)
    BY <2>5, <2>6, ReshardedKept
  <2> QED
    BY <1>2, <2>1, <2>3, <2>4, <2>7 DEF SplitInv, HasToken
<1> QED
  BY <1>2, <1>3, NextStage, StageNames

(* Stage 5: gathered, unpadded and extracted, they are the result of one
   device. *)
LEMMA GatherOutputsKeeps ==
  ASSUME SplitInv, GatherOutputs
  PROVE  SplitInv'
<1>1. /\ pc = Stages[5] /\ pc' = Stages[6] /\ job' = job /\ input' = input
      /\ x' = x /\ grads' = grads
  BY StageNames DEF GatherOutputs, Step
<1>2. \A q \in Ranks : HasToken(job, LocalSize, Total, OneDeviceToken, OneDeviceOut,
                                input.shared, x[q], q)
  BY <1>1 DEF SplitInv
<1>3. ASSUME NEW r \in Ranks
      PROVE  /\ Resharded(job, LocalSize, Total, OneDeviceAttended, x'[r], r)
             /\ res'[r] = OneDevice
  <2> DEFINE all == SubSeq(Gathered("token"), 1, Total)
             f == IF job.path = "dualkv"
                  THEN [t \in 1 .. Total |-> LogProb(all[t], input.rolled[t])] ELSE all
             s(q) == IF job.path = "dualkv" THEN all[input.shared] ELSE x[q].shared
  <2>1. res' = [q \in Ranks |-> Extract(f, s(q))]
    BY DEF GatherOutputs
  <2>2. Extract(f, s(r)) = OneDevice
    BY <1>2, OutputsAreOneDevice DEF SplitInv
  <2> HIDE DEF f, s
  <2>3. res'[r] = OneDevice
    BY <2>1, <2>2
  <2> QED
    BY <1>1, <2>3, StageNames DEF SplitInv
<1> QED
  BY <1>1, <1>3, NextStage, StageNames

(* Stage 6: the gradient of the loss reaches the rank that has the token. *)
LEMMA LossBackwardKeeps ==
  ASSUME SplitInv, LossBackward
  PROVE  SplitInv'
<1>1. /\ pc = Stages[6] /\ pc' = Stages[7] /\ job' = job /\ input' = input
      /\ res' = res /\ grads' = grads
  BY StageNames DEF LossBackward, Step
<1>2. ASSUME NEW r \in Ranks
      PROVE  /\ Resharded(job, LocalSize, Total, OneDeviceAttended, x'[r], r)
             /\ HasOwnGrad(job, LocalSize, OneDeviceGrad, x'[r], r)
             /\ res'[r] = <<>> \/ res'[r] = OneDevice
  <2> DEFINE d == [t \in 1 .. LocalSize |-> [h \in 1 .. job.heads |->
                     [from |-> <<Global(r, t), h>>, c |-> OutputGrad(r, t)]]]
             new == [dout |-> d]
  <2>1. x'[r] = Put(r, new)
    BY DEF LossBackward
  <2>2. TokenShard(d, OneDeviceGrad, r, LocalSize, Width(job) * job.sp, LocalSize * job.sp)
    BY LossBackwardIsSplit DEF SplitInv
  <2> HIDE DEF d
  <2>3. DOMAIN new = {"dout"} /\ Put(r, new).dout = d /\ "dout" \in DOMAIN Put(r, new)
    BY DEF Put
  <2>4. DOMAIN new \cap {"q", "k", "v", "attended"} = {}
    BY <2>3
  <2>5. Resharded(job, LocalSize, Total, OneDeviceAttended, x[r], r)
    BY <1>1, StageNames DEF SplitInv
  <2> HIDE DEF new
  <2>6. Resharded(job, LocalSize, Total, OneDeviceAttended, Put(r, new), r)
    BY <2>4, <2>5, ReshardedKept
  <2> QED
    BY <1>1, <2>1, <2>2, <2>3, <2>6 DEF SplitInv, HasOwnGrad
<1> QED
  BY <1>1, <1>2, NextStage, StageNames

(* Stage 7: the gradients of the outputs go back to the ranks that have the
   heads. *)
LEMMA OutBackwardKeeps ==
  ASSUME SplitInv, OutBackward
  PROVE  SplitInv'
<1>1. /\ pc = Stages[7] /\ pc' = Stages[8] /\ job' = job /\ input' = input
      /\ res' = res /\ grads' = grads
  BY StageNames DEF OutBackward, Step
<1>2. ASSUME NEW r \in Ranks
      PROVE  /\ Resharded(job, LocalSize, Total, OneDeviceAttended, x'[r], r)
             /\ HasGrad(job, LocalSize, OneDeviceGrad, x'[r], r)
             /\ res'[r] = <<>> \/ res'[r] = OneDevice
  <2> DEFINE d == SeqFromAll(r, "dout")  new == [dout |-> d]
  <2>1. x'[r] = Put(r, new)
    BY DEF OutBackward
  <2>2. \A q \in Ranks : TokenShard(x[q]["dout"], OneDeviceGrad, q, LocalSize,
                                    Width(job) * job.sp, LocalSize * job.sp)
    BY <1>1 DEF SplitInv, HasOwnGrad
  <2>3. LocalSize \in Nat \ {0} /\ Width(job) \in Nat \ {0} /\ job.sp \in Nat \ {0}
    BY SizesOfJob, Layout DEF SplitInv, Running
  <2>4. HeadShard(d, OneDeviceGrad, r, LocalSize * job.sp, Width(job), LocalSize * job.sp)
    BY <2>2, <2>3, SeqFromAllShards
  <2> HIDE DEF d
  <2>5. DOMAIN new = {"dout"} /\ Put(r, new).dout = d /\ "dout" \in DOMAIN Put(r, new)
    BY DEF Put
  <2>6. DOMAIN new \cap {"q", "k", "v", "attended"} = {}
    BY <2>5
  <2>7. Resharded(job, LocalSize, Total, OneDeviceAttended, x[r], r)
    BY <1>1, StageNames DEF SplitInv
  <2> HIDE DEF new
  <2>8. Resharded(job, LocalSize, Total, OneDeviceAttended, Put(r, new), r)
    BY <2>6, <2>7, ReshardedKept
  <2> QED
    BY <1>1, <2>1, <2>4, <2>5, <2>8 DEF SplitInv, HasGrad
<1> QED
  BY <1>1, <1>2, NextStage, StageNames

(* Stage 8: the gradients of q, k and v of a head, on its rank. *)
LEMMA AttentionBackwardKeeps ==
  ASSUME SplitInv, FlashAttentionBackward
  PROVE  SplitInv'
<1>1. /\ pc = Stages[8] /\ pc' = Stages[9] /\ job' = job /\ input' = input
      /\ res' = res /\ grads' = grads
  BY StageNames DEF FlashAttentionBackward, Step
<1>2. ASSUME NEW r \in Ranks
      PROVE  /\ Resharded(job, LocalSize, Total, OneDeviceAttended, x'[r], r)
             /\ HasKVGrad(job, LocalSize, OneDeviceGrad, x'[r], r)
             /\ res'[r] = <<>> \/ res'[r] = OneDevice
  <2> DEFINE new == [dq |-> x[r].dout,
                     dk |-> AttentionBackward(x[r].dout, x[r].k, x[r].attended)]
  <2>1. x'[r] = Put(r, new)
    BY DEF FlashAttentionBackward
  <2>2. /\ Resharded(job, LocalSize, Total, OneDeviceAttended, x[r], r)
        /\ HasGrad(job, LocalSize, OneDeviceGrad, x[r], r)
    BY <1>1, StageNames DEF SplitInv
  <2>3. HasKVGrad(job, LocalSize, OneDeviceGrad, Put(r, new), r)
    BY <2>2, AttentionBackwardIsSplit DEF SplitInv
  <2>4. DOMAIN new \cap {"q", "k", "v", "attended"} = {}
    OBVIOUS
  <2> HIDE DEF new
  <2>5. Resharded(job, LocalSize, Total, OneDeviceAttended, Put(r, new), r)
    BY <2>2, <2>4, ReshardedKept
  <2> QED
    BY <1>1, <2>1, <2>3, <2>5 DEF SplitInv
<1> QED
  BY <1>1, <1>2, NextStage, StageNames

(* Stage 9: and they go back to the ranks that have the tokens, KV copies
   added up. *)
LEMMA ProjectionBackwardKeeps ==
  ASSUME SplitInv, ProjectionBackward
  PROVE  SplitInv'
<1>1. /\ pc = Stages[9] /\ pc' = Stages[10] /\ job' = job /\ input' = input
      /\ x' = x /\ res' = res
  BY StageNames DEF ProjectionBackward, Step
<1>2. \A q \in Ranks : /\ Resharded(job, LocalSize, Total, OneDeviceAttended, x[q], q)
                       /\ HasKVGrad(job, LocalSize, OneDeviceGrad, x[q], q)
  BY <1>1, StageNames DEF SplitInv
<1>3. ASSUME NEW r \in Ranks
      PROVE  HasGradients(job, LocalSize, Total, OneDeviceKVGrad, grads'[r], r)
  <2> DEFINE dk == RepeatBackward(HeadsFromAll(r, "dk"))
  <2>1. grads'[r].dk = dk
    BY DEF ProjectionBackward
  <2>2. \A t \in 1 .. LocalSize : \A g \in 1 .. job.kv :
          dk[t][g] = IF r * LocalSize + t <= Total
                     THEN OneDeviceKVGrad[r * LocalSize + t][g] ELSE {}
    BY <1>2, ProjectionIsSplit DEF SplitInv
  <2> HIDE DEF dk
  <2> QED
    BY <2>1, <2>2 DEF HasGradients
<1> QED
  BY <1>1, <1>2, <1>3, NextStage, StageNames DEF SplitInv

-----------------------------------------------------------------------------
(* A run of a job starts with the slices of the projections.               *)
LEMMA StartIsSplit ==
  ASSUME Init, \A j \in Jobs : SupportedLayout(j)
  PROVE  SplitInv
<1>1. Running /\ pc = Stages[1]
  BY StageNames DEF Init, Running
<1>2. ASSUME NEW r \in Ranks PROVE AtStart(x[r], r) /\ res[r] = <<>>
  BY DEF Init, AtStart
<1>3. \A k \in 2 .. 10 : pc # Stages[k]
  BY <1>1 DEF Stages
<1> QED
  BY <1>1, <1>2, <1>3, StageNames DEF SplitInv

(***************************************************************************)
(* SplitInv is an invariant of every run whose jobs have a layout the      *)
(* wrapper supports.                                                       *)
(***************************************************************************)
THEOREM SplitInvariant ==
  ASSUME \A j \in Jobs : SupportedLayout(j)
  PROVE  Spec => []SplitInv
<1>1. Init => SplitInv
  BY StartIsSplit
<1>2. SplitInv /\ [Next]_vars => SplitInv'
  <2> SUFFICES ASSUME SplitInv, [Next]_vars PROVE SplitInv'
    OBVIOUS
  <2>1. CASE GatherSeqScatterHeads
    BY <2>1, GatherKeeps
  <2>2. CASE FlashAttention
    BY <2>2, AttentionKeeps
  <2>3. CASE GatherHeadsScatterSeq
    BY <2>3, GatherHeadsKeeps
  <2>4. CASE LossHead
    BY <2>4, LossHeadKeeps
  <2>5. CASE GatherOutputs
    BY <2>5, GatherOutputsKeeps
  <2>6. CASE LossBackward
    BY <2>6, LossBackwardKeeps
  <2>7. CASE OutBackward
    BY <2>7, OutBackwardKeeps
  <2>8. CASE FlashAttentionBackward
    BY <2>8, AttentionBackwardKeeps
  <2>9. CASE ProjectionBackward
    BY <2>9, ProjectionBackwardKeeps
  <2>10. CASE UNCHANGED vars
    <3>1. /\ job' = job /\ input' = input /\ pc' = pc /\ x' = x /\ res' = res /\ grads' = grads
      BY <2>10 DEF vars
    <3>2. CASE pc # Stages[1]
      <4>1. pc' \in Range(Stages) /\ pc' # Stages[1]
        BY <3>1, <3>2 DEF SplitInv
      <4>2. ASSUME NEW r \in Ranks
            PROVE  /\ Resharded(job, LocalSize, Total, OneDeviceAttended, x'[r], r)
                   /\ pc' = Stages[3] => HasOutput(job, LocalSize, Total, OneDeviceOut, x'[r], r)
                   /\ pc' = Stages[4] => HasOwnOutput(job, LocalSize, Total, OneDeviceOut,
                                                      x'[r], r)
                   /\ pc' = Stages[5] => HasToken(job, LocalSize, Total, OneDeviceToken,
                                                  OneDeviceOut, input.shared, x'[r], r)
                   /\ pc' = Stages[7] => HasOwnGrad(job, LocalSize, OneDeviceGrad, x'[r], r)
                   /\ pc' = Stages[8] => HasGrad(job, LocalSize, OneDeviceGrad, x'[r], r)
                   /\ pc' = Stages[9] => HasKVGrad(job, LocalSize, OneDeviceGrad, x'[r], r)
                   /\ pc' = Stages[10] => HasGradients(job, LocalSize, Total,
                                                       OneDeviceKVGrad, grads'[r], r)
                   /\ res'[r] = <<>> \/ res'[r] = OneDevice
        BY <3>1, <3>2, Zenon DEF SplitInv
      <4> QED
        BY <3>1, <4>1, <4>2, NextStage
    <3>3. CASE pc = Stages[1]
      <4>1. /\ Ranks' = Ranks /\ OneDevice' = OneDevice /\ Running'
        BY <3>1, OneDeviceKept DEF SplitInv
      <4>2. ASSUME NEW r \in Ranks
            PROVE  AtStart(x[r], r)' /\ (res[r] = <<>> \/ res[r] = OneDevice)'
        <5>1. AtStart(x[r], r) /\ (res[r] = <<>> \/ res[r] = OneDevice)
          BY <3>3 DEF SplitInv
        <5>2. AtStart(x[r], r)'
          BY <3>1, <5>1 DEF AtStart, Projection, Global, SliceOf, PadPos, LocalSize, PadSize,
                            Total
        <5> QED
          BY <3>1, <4>1, <5>1, <5>2
      <4>3. /\ pc' = Stages[1] /\ pc' \in Range(Stages)
            /\ pc' # Stages[3] /\ pc' # Stages[4] /\ pc' # Stages[5] /\ pc' # Stages[7]
            /\ pc' # Stages[8] /\ pc' # Stages[9] /\ pc' # Stages[10]
        BY <3>1, <3>3, StageNames
      <4> QED
        BY <4>1, <4>2, <4>3 DEF SplitInv
    <3> QED
      BY <3>2, <3>3
  <2> QED
    BY <2>1, <2>2, <2>3, <2>4, <2>5, <2>6, <2>7, <2>8, <2>9, <2>10 DEF Next
<1> QED
  BY <1>1, <1>2, PTL DEF Spec

(***************************************************************************)
(* Splitting tokens and heads over the ranks changes no log-prob, whatever *)
(* the numbers of ranks, heads, KV heads, rows and tokens.                 *)
(***************************************************************************)
THEOREM SplitLogProbs ==
  ASSUME \A j \in Jobs : SupportedLayout(j)
  PROVE  Spec => []SameAsOneDevice
<1>1. SplitInv => SameAsOneDevice
  BY DEF SplitInv, SameAsOneDevice
<1> QED
  BY <1>1, SplitInvariant, PTL

(***************************************************************************)
(* Nor the gradient of a projection of K or V: every rank ends with its    *)
(* tokens' part of the one of one device, and nothing for the padding.     *)
(***************************************************************************)
THEOREM SplitGradients ==
  ASSUME \A j \in Jobs : SupportedLayout(j)
  PROVE  Spec => []GradientAsOneDevice
<1>1. SplitInv => GradientAsOneDevice
  <2> SUFFICES ASSUME SplitInv, pc = "done" PROVE GradientAsOneDevice
    BY DEF GradientAsOneDevice
  <2>1. ASSUME NEW t \in 1 .. Total, NEW g \in 1 .. job.kv
        PROVE  OneDeviceKVGrad[t][g] = OneDeviceGradient(t, g)
    <3> DEFINE pairs == {uh \in (1 .. Total) \X (1 .. job.heads) :
                          /\ AllUses(uh[1]) > 0 /\ KVHead(uh[2], job.heads, job.kv) = g
                          /\ t \in Range(OneDeviceAttended[uh[1]])}
               grad(a) == [from |-> a, c |-> job.sp * AllUses(a[1])]
    <3>1. OneDeviceKVGrad[t][g] = {Contribution(a[1], a[2]) : a \in pairs}
      BY DEF OneDeviceKVGrad
    <3>2. OneDeviceGradient(t, g) = {grad(a) : a \in pairs}
      BY DEF OneDeviceGradient, AllUses
    <3>3. \A a \in pairs : <<a[1], a[2]>> = a
      OBVIOUS
    <3>4. \A a : Contribution(a[1], a[2]) = grad(<<a[1], a[2]>>)
      BY DEF Contribution, Coefficient, AllUses
    <3> HIDE DEF pairs, grad
    <3>5. \A a \in pairs : Contribution(a[1], a[2]) = grad(a)
      BY <3>3, <3>4
    <3>6. {Contribution(a[1], a[2]) : a \in pairs} = {grad(a) : a \in pairs}
      BY <3>5
    <3> QED
      BY <3>1, <3>2, <3>6
  <2>2. ASSUME NEW r \in Ranks, NEW t \in 1 .. LocalSize, NEW g \in 1 .. job.kv
        PROVE  grads[r].dk[t][g] = IF Global(r, t) <= Total
                                   THEN OneDeviceGradient(Global(r, t), g) ELSE {}
    <3> DEFINE u == r * LocalSize + t
    <3>1. u = Global(r, t) /\ u \in Nat \ {0} /\ Total \in Nat
      <4>1. LocalSize \in Nat \ {0} /\ r \in Nat /\ Total \in Nat
        BY SizesOfJob, Layout DEF SplitInv, Running, Ranks
      <4>2. r * LocalSize \in Nat
        BY <4>1
      <4> QED
        BY <4>1, <4>2 DEF Global
    <3>2. HasGradients(job, LocalSize, Total, OneDeviceKVGrad, grads[r], r)
      BY StageNames DEF SplitInv
    <3>3. grads[r].dk[t][g] = IF u <= Total THEN OneDeviceKVGrad[u][g] ELSE {}
      BY <3>2 DEF HasGradients
    <3> HIDE DEF u
    <3>4. u <= Total => OneDeviceKVGrad[u][g] = OneDeviceGradient(u, g)
      BY <2>1, <3>1
    <3> QED
      BY <3>1, <3>3, <3>4
  <2> QED
    BY <2>2 DEF GradientAsOneDevice
<1> QED
  BY <1>1, SplitInvariant, PTL

=============================================================================
