------------------------------ MODULE TextProofs ------------------------------
(***************************************************************************)
(* Theorems about the programs that speak over a serial line or to a       *)
(* terminal, for every value of the constants.                             *)
(***************************************************************************)
EXTENDS MCText, SequenceTheorems, WellFoundedInduction, TLAPS

-----------------------------------------------------------------------------
(***************************************************************************)
(* Induction.                                                              *)
(***************************************************************************)
\* Every set of natural numbers that is not empty has a least element.
LEMMA LeastElement ==
  ASSUME NEW T, T \subseteq Nat, T # {}
  PROVE  \E x \in T : \A y \in T : x <= y
<1> DEFINE R == OpToRel(<, Nat)
<1>1. IsWellFoundedOn(R, Nat)
  BY NatLessThanWellFounded
<1>2. \A y, x \in Nat : <<y, x>> \in R <=> y < x
  BY DEF OpToRel
<1> HIDE DEF R
<1>3. PICK x \in T : \A y \in T : ~(<<y, x>> \in R)
  BY <1>1, WFMin
<1>4. ASSUME NEW y \in T
      PROVE  x <= y
  <2>1. x \in Nat /\ y \in Nat
    OBVIOUS
  <2>2. ~(y < x)
    BY <1>2, <1>3, <2>1
  <2> QED
    BY <2>1, <2>2
<1> QED
  BY <1>4

\* A set that holds zero and with each number the next holds all.
LEMMA Induction ==
  ASSUME NEW S, 0 \in S, \A n \in Nat : n \in S => n + 1 \in S
  PROVE  Nat \subseteq S
<1> DEFINE T == Nat \ S
<1> SUFFICES ASSUME T # {} PROVE FALSE
  OBVIOUS
<1>1. PICK x \in T : \A y \in T : x <= y
  BY LeastElement
<1>2. x # 0 /\ x - 1 \in Nat
  OBVIOUS
<1>3. x - 1 \in S
  BY <1>1, <1>2
<1> QED
  BY <1>2, <1>3

\* Flattening: what grows by one sequence after the other is the whole.
LEMMA Flattened ==
  ASSUME NEW seqs, NEW n \in Nat \ {0}, Len(seqs) = n, NEW whole,
         whole[1] = seqs[1],
         \A i \in 1 .. n - 1 : whole[i + 1] = whole[i] \o seqs[i + 1]
  PROVE  FlattenSeq(seqs) = whole[n]
<1> DEFINE h == [i \in 1 .. n |-> whole[i]]
           Grows(g) == g = [i \in 1 .. n |-> IF i = 1 THEN seqs[i] ELSE g[i - 1] \o seqs[i]]
           flatten == CHOOSE g : Grows(g)
<1>1. FlattenSeq(seqs) = flatten[n]
  BY DEF FlattenSeq
<1>2. Grows(h)
  <2> DEFINE step(i) == IF i = 1 THEN seqs[i] ELSE h[i - 1] \o seqs[i]
  <2>1. ASSUME NEW i \in 1 .. n
        PROVE  whole[i] = step(i)
    <3>1. i # 1 => i - 1 \in 1 .. n
      OBVIOUS
    <3>2. i # 1 => h[i - 1] = whole[i - 1]
      BY <3>1
    <3>3. CASE i = 1
      BY <3>3
    <3>4. CASE i # 1
      <4>1. i - 1 \in 1 .. n - 1 /\ i - 1 + 1 = i
        BY <3>4
      <4>2. whole[i] = whole[i - 1] \o seqs[i]
        BY <4>1
      <4> QED
        BY <3>2, <3>4, <4>2
    <3> QED
      BY <3>3, <3>4
  <2> HIDE DEF step
  <2>2. [i \in 1 .. n |-> whole[i]] = [i \in 1 .. n |-> step(i)]
    BY <2>1
  <2> QED
    BY <2>2 DEF step
<1>10. h[n] = whole[n]
  OBVIOUS
<1> HIDE DEF Grows, h
<1>3. Grows(flatten)
  BY <1>2
<1> HIDE DEF flatten
<1> DEFINE g == flatten
<1> DEFINE next(f, i) == f[i] \o seqs[i + 1]
<1>4. ASSUME NEW f, Grows(f), NEW i \in 0 .. n - 1
      PROVE  f[i + 1] = IF i = 0 THEN seqs[1] ELSE next(f, i)
  <2>1. i + 1 \in 1 .. n /\ (i + 1 = 1 <=> i = 0) /\ i + 1 - 1 = i
    OBVIOUS
  <2> DEFINE step(j) == IF j = 1 THEN seqs[j] ELSE f[j - 1] \o seqs[j]
             all == [j \in 1 .. n |-> step(j)]
  <2>2. f = all
    BY <1>4 DEF Grows
  <2> HIDE DEF step
  <2>3. all[i + 1] = step(i + 1)
    BY <2>1
  <2> HIDE DEF all
  <2>4. f[i + 1] = IF i + 1 = 1 THEN seqs[i + 1] ELSE f[i + 1 - 1] \o seqs[i + 1]
    BY <2>2, <2>3 DEF step
  <2> QED
    BY <2>1, <2>4
<1> HIDE DEF g
<1> DEFINE S == {i \in Nat : i \in 1 .. n => g[i] = h[i]}
<1>5. 0 \in S
  OBVIOUS
<1>6. ASSUME NEW i \in Nat, i \in S
      PROVE  i + 1 \in S
  <2> SUFFICES ASSUME i + 1 \in 1 .. n PROVE g[i + 1] = h[i + 1]
    OBVIOUS
  <2>1. i \in 0 .. n - 1 /\ Grows(g) /\ Grows(h)
    BY <1>2, <1>3 DEF g
  <2>2. /\ g[i + 1] = IF i = 0 THEN seqs[1] ELSE next(g, i)
        /\ h[i + 1] = IF i = 0 THEN seqs[1] ELSE next(h, i)
    BY <1>4, <2>1
  <2>3. i # 0 => g[i] = h[i]
    BY <1>6, <2>1
  <2> QED
    BY <2>2, <2>3
<1> HIDE DEF S
<1>7. Nat \subseteq S
  BY <1>5, <1>6, Induction
<1>8. n \in S
  BY <1>7
<1>9. g[n] = h[n]
  BY <1>8 DEF S
<1> QED
  BY <1>1, <1>9, <1>10 DEF g

-----------------------------------------------------------------------------
(***************************************************************************)
(* The output buffer: vectors that stand one behind the other in a memory. *)
(***************************************************************************)
Vector == [base : Nat \ {0}, len : Nat]

\* The last byte of a vector.
stop(v, k) == v[k].base + v[k].len - 1

\* Each vector begins where the one before it ends, and they end in the memory.
Adjacent(v, n) ==
  /\ \A i \in 1 .. Len(v) - 1 : v[i + 1].base = stop(v, i) + 1
  /\ \A i \in 1 .. Len(v) : stop(v, i) <= n

\* The bytes of the first k vectors.
bytes(m, v, k) == FlattenSeq([i \in 1 .. k |-> SubSeq(m, v[i].base, stop(v, i))])

\* Vectors that follow each other begin in their order.
LEMMA VectorsRise ==
  ASSUME NEW v \in Seq(Vector), NEW n, Adjacent(v, n), NEW k \in 1 .. Len(v)
  PROVE  v[1].base <= v[k].base
<1> DEFINE S == {j \in Nat : j + 1 \in 1 .. Len(v) => v[1].base <= v[j + 1].base}
<1>0. Len(v) \in Nat /\ \A i \in 1 .. Len(v) : v[i] \in Vector
  BY LenProperties, ElementOfSeq
<1>1. 0 \in S
  <2>1. 1 \in 1 .. Len(v) => v[1].base \in Nat
    BY <1>0 DEF Vector
  <2> QED
    BY <2>1
<1>2. ASSUME NEW j \in Nat, j \in S
      PROVE  j + 1 \in S
  <2> SUFFICES ASSUME j + 1 + 1 \in 1 .. Len(v) PROVE v[1].base <= v[j + 1 + 1].base
    OBVIOUS
  <2>1. j + 1 \in 1 .. Len(v) - 1 /\ j + 1 \in 1 .. Len(v) /\ 1 \in 1 .. Len(v)
    BY <1>0
  <2>2. v[1].base <= v[j + 1].base
    BY <1>2, <2>1
  <2>3. v[j + 1 + 1].base = v[j + 1].base + v[j + 1].len - 1 + 1
    BY <2>1 DEF Adjacent, stop
  <2>4. v[1].base \in Nat /\ v[j + 1].base \in Nat /\ v[j + 1].len \in Nat
    BY <1>0, <2>1 DEF Vector
  <2> QED
    BY <2>2, <2>3, <2>4, SMTT(40)
<1> HIDE DEF S
<1>3. Nat \subseteq S
  BY <1>1, <1>2, Induction
<1>4. k - 1 \in Nat /\ k - 1 + 1 = k
  BY <1>0
<1>5. k - 1 \in S
  BY <1>3, <1>4
<1> QED
  BY <1>4, <1>5 DEF S

\* Their bytes are a stretch of the memory.
LEMMA VectorsStand ==
  ASSUME NEW C, NEW m \in Seq(C), NEW v \in Seq(Vector), Adjacent(v, Len(m)),
         NEW k \in 1 .. Len(v)
  PROVE  bytes(m, v, k) = SubSeq(m, v[1].base, stop(v, k))
<1> DEFINE first == v[1].base
           part(i) == SubSeq(m, v[i].base, stop(v, i))
           parts == [i \in 1 .. k |-> part(i)]
           stretch(i) == SubSeq(m, first, stop(v, i))
           h == [i \in 1 .. k |-> stretch(i)]
<1>0. /\ Len(v) \in Nat /\ Len(m) \in Nat /\ k \in Nat \ {0}
      /\ \A i \in 1 .. Len(v) : v[i].base \in Nat \ {0} /\ v[i].len \in Nat
  <2>1. Len(v) \in Nat /\ Len(m) \in Nat
    BY LenProperties
  <2>2. \A i \in 1 .. Len(v) : v[i] \in Vector
    BY ElementOfSeq
  <2> QED
    BY <2>1, <2>2 DEF Vector
<1>1. ASSUME NEW i \in 1 .. k - 1
      PROVE  stretch(i) \o part(i + 1) = stretch(i + 1)
  <2>1. i \in 1 .. Len(v) - 1 /\ i \in 1 .. Len(v) /\ i + 1 \in 1 .. Len(v)
    BY <1>0
  <2>2. v[i + 1].base = stop(v, i) + 1
    BY <2>1 DEF Adjacent
  <2>3. stop(v, i + 1) <= Len(m) /\ stop(v, i) <= Len(m)
    BY <2>1 DEF Adjacent
  <2>4. first <= v[i].base /\ first \in Nat \ {0}
    BY <1>0, <2>1, VectorsRise
  <2>5. /\ stop(v, i + 1) = v[i + 1].base + v[i + 1].len - 1
        /\ v[i + 1].base \in Nat /\ v[i + 1].len \in Nat
        /\ stop(v, i) = v[i].base + v[i].len - 1
        /\ v[i].base \in Nat /\ v[i].len \in Nat
    BY <1>0, <2>1 DEF stop
  <2> DEFINE a == first
             b == stop(v, i)
             c == stop(v, i + 1)
  <2>7. part(i + 1) = SubSeq(m, b + 1, c)
    BY <2>2
  <2> HIDE DEF part, first
  <2>6. a \in 1 .. Len(m) + 1 /\ b \in a - 1 .. Len(m) /\ c \in b .. Len(m)
    <3> DEFINE base == v[i].base
               size == v[i].len
               base1 == v[i + 1].base
               size1 == v[i + 1].len
               end == Len(m)
    <3>1. a \in Nat \ {0} /\ a <= base
      BY <2>4
    <3>2. b = base + size - 1 /\ base \in Nat /\ size \in Nat /\ b <= end
      BY <2>3, <2>5
    <3>3. c = base1 + size1 - 1 /\ base1 = b + 1 /\ size1 \in Nat /\ c <= end
      BY <2>2, <2>3, <2>5
    <3>4. end \in Nat
      BY <1>0
    <3> HIDE DEF a, b, c, base, size, base1, size1, end
    <3>5. /\ b \in Int /\ a - 1 <= b
          /\ c \in Int /\ b <= c
      BY <3>1, <3>2, <3>3
    <3>6. a \in 1 .. end + 1 /\ b \in a - 1 .. end /\ c \in b .. end
      BY <3>1, <3>2, <3>3, <3>4, <3>5
    <3> QED
      BY <3>6 DEF end
  <2> HIDE DEF a, b, c
  <2>8. SubSeq(m, a, b) \o SubSeq(m, b + 1, c) = SubSeq(m, a, c)
    BY <2>6, ConcatAdjacentSubSeq
  <2> QED
    BY <2>7, <2>8 DEF a, b, c
<1>2. stretch(1) = part(1)
  OBVIOUS
<1> HIDE DEF part
<1>3. Len(parts) = k /\ \A i \in 1 .. k : parts[i] = part(i)
  BY <1>0
<1> HIDE DEF parts, part, stretch
<1>4. \A i \in 1 .. k : h[i] = stretch(i)
  OBVIOUS
<1> HIDE DEF h
<1>5. h[1] = parts[1]
  <2>1. 1 \in 1 .. k
    BY <1>0
  <2> QED
    BY <1>2, <1>3, <1>4, <2>1
<1>6. ASSUME NEW i \in 1 .. k - 1
      PROVE  h[i + 1] = h[i] \o parts[i + 1]
  <2>1. i \in 1 .. k /\ i + 1 \in 1 .. k
    BY <1>0
  <2> QED
    BY <1>1, <1>3, <1>4, <2>1
<1>7. k \in 1 .. k
  BY <1>0
<1>8. FlattenSeq(parts) = h[k]
  <2>1. k \in Nat \ {0} /\ Len(parts) = k
    BY <1>0, <1>3
  <2> QED
    BY <1>5, <1>6, <2>1, Flattened, ZenonT(60)
<1> QED
  BY <1>4, <1>7, <1>8 DEF bytes, parts, part, stretch

\* The number of bytes of the first k vectors.
size(v, k) == IF k = 0 THEN 0 ELSE stop(v, k) - v[1].base + 1

\* The next vector adds its length, and begins behind the bytes before it.
LEMMA SizesAdd ==
  ASSUME NEW v \in Seq(Vector), NEW n, Adjacent(v, n), NEW k \in 0 .. Len(v) - 1
  PROVE  /\ size(v, k) \in Nat
         /\ size(v, k + 1) = size(v, k) + v[k + 1].len
         /\ v[k + 1].base = v[1].base + size(v, k)
<1>0. Len(v) \in Nat /\ \A i \in 1 .. Len(v) : v[i].base \in Nat \ {0} /\ v[i].len \in Nat
  <2>1. Len(v) \in Nat /\ \A i \in 1 .. Len(v) : v[i] \in Vector
    BY LenProperties, ElementOfSeq
  <2> QED
    BY <2>1 DEF Vector
<1>1. CASE k = 0
  <2>1. 1 \in 1 .. Len(v)
    BY <1>0, <1>1
  <2>3. v[1].base \in Nat /\ v[1].len \in Nat
    BY <1>0, <2>1
  <2>2. size(v, 0) = 0 /\ size(v, 1) = stop(v, 1) - v[1].base + 1
    BY DEF size
  <2>4. size(v, 1) = v[1].len /\ v[1].base = v[1].base + 0
    BY <2>2, <2>3 DEF stop
  <2> QED
    BY <1>1, <2>2, <2>3, <2>4
<1>2. CASE k # 0
  <2>1. k \in 1 .. Len(v) /\ k \in 1 .. Len(v) - 1 /\ k + 1 \in 1 .. Len(v) /\ 1 \in 1 .. Len(v)
    BY <1>0, <1>2
  <2> DEFINE a == v[1].base
             b == v[k].base
             c == v[k].len
             d == v[k + 1].base
             e == v[k + 1].len
  <2>2. d = b + c - 1 + 1
    BY <2>1 DEF Adjacent, stop
  <2>3. a <= b
    BY <2>1, VectorsRise
  <2>4. a \in Nat /\ b \in Nat /\ c \in Nat /\ d \in Nat /\ e \in Nat
    BY <1>0, <2>1
  <2>8. stop(v, k) = b + c - 1 /\ stop(v, k + 1) = d + e - 1
    BY DEF stop
  <2>9. k + 1 # 0
    BY <2>1
  <2>10. size(v, k) = stop(v, k) - v[1].base + 1
    BY <1>2 DEF size
  <2>11. size(v, k + 1) = stop(v, k + 1) - v[1].base + 1
    BY <2>9 DEF size
  <2>5. size(v, k) = stop(v, k) - a + 1
    BY <2>10
  <2>6. size(v, k + 1) = stop(v, k + 1) - a + 1
    BY <2>11
  <2> HIDE DEF a, b, c, d, e
  <2>7. /\ size(v, k) \in Nat
        /\ size(v, k + 1) = size(v, k) + e
        /\ d = a + size(v, k)
    BY <2>2, <2>3, <2>4, <2>5, <2>6, <2>8
  <2> QED
    BY <2>7 DEF a, d, e
<1> QED
  BY <1>1, <1>2

\* They are as many as were counted.
LEMMA BytesCounted ==
  ASSUME NEW C, NEW m \in Seq(C), NEW v \in Seq(Vector), Adjacent(v, Len(m)),
         NEW k \in 0 .. Len(v)
  PROVE  /\ bytes(m, v, k) \in Seq(C)
         /\ Len(bytes(m, v, k)) = size(v, k)
         /\ size(v, k) \in Nat
<1>0. /\ Len(v) \in Nat /\ Len(m) \in Nat
      /\ \A i \in 1 .. Len(m) : m[i] \in C
      /\ \A i \in 1 .. Len(v) : v[i].base \in Nat \ {0} /\ v[i].len \in Nat
  <2>1. Len(v) \in Nat /\ Len(m) \in Nat
    BY LenProperties
  <2>2. \A i \in 1 .. Len(v) : v[i] \in Vector
    BY ElementOfSeq
  <2>3. \A i \in 1 .. Len(m) : m[i] \in C
    BY ElementOfSeq
  <2> QED
    BY <2>1, <2>2, <2>3 DEF Vector
<1>1. CASE k = 0
  <2>1. [i \in 1 .. 0 |-> SubSeq(m, v[i].base, stop(v, i))] = << >>
    OBVIOUS
  <2>2. FlattenSeq(<< >>) = << >>
    BY DEF FlattenSeq
  <2>3. bytes(m, v, k) = << >>
    BY <1>1, <2>1, <2>2 DEF bytes
  <2> QED
    BY <1>1, <2>3, EmptySeq DEF size
<1>2. CASE k # 0
  <2>1. k \in 1 .. Len(v) /\ 1 \in 1 .. Len(v)
    BY <1>0, <1>2
  <2> DEFINE a == v[1].base
             b == v[k].base
             c == v[k].len
             z == stop(v, k)
  <2>2. bytes(m, v, k) = SubSeq(m, a, z)
    BY <2>1, VectorsStand
  <2>3. a <= b
    BY <2>1, VectorsRise
  <2>4. z = b + c - 1 /\ z <= Len(m)
    BY <2>1 DEF Adjacent, stop
  <2>5. a \in Nat \ {0} /\ b \in Nat /\ c \in Nat
    BY <1>0, <2>1
  <2>6. size(v, k) = z - a + 1
    BY <1>2 DEF size
  <2> HIDE DEF a, b, c, z
  <2>7. a \in Int /\ z \in Int /\ z - a + 1 \in Nat /\ (a <= z \/ z - a + 1 = 0)
    BY <2>3, <2>4, <2>5
  <2>8. \A i \in a .. z : m[i] \in C
    BY <1>0, <2>4, <2>5, <2>7
  <2>9. SubSeq(m, a, z) \in Seq(C) /\ Len(SubSeq(m, a, z)) = IF a <= z THEN z - a + 1 ELSE 0
    BY <2>7, <2>8, SubSeqProperties
  <2> QED
    BY <2>2, <2>6, <2>7, <2>9
<1> QED
  BY <1>1, <1>2

\* i vectors are complete with n bytes: what TuiOutput's completed chooses.
Completes(m, v, n, i) ==
  LET sum(k) == Len(bytes(m, v, k))
  IN /\ sum(i) <= n /\ (i > 0 => sum(i - 1) < n)
     /\ (i < Len(v) /\ sum(i) < n => sum(i + 1) > n)

\* There is such a number.
LEMMA SomeComplete ==
  ASSUME NEW C, NEW m \in Seq(C), NEW v \in Seq(Vector), Adjacent(v, Len(m)),
         NEW n \in 1 .. Len(bytes(m, v, Len(v)))
  PROVE  \E i \in 0 .. Len(v) : Completes(m, v, n, i)
<1> DEFINE sum(k) == Len(bytes(m, v, k))
           T == {k \in 0 .. Len(v) : sum(k) >= n}
<1>0. Len(v) \in Nat
  BY LenProperties
<1>1. \A k \in 0 .. Len(v) : sum(k) \in Nat
  BY BytesCounted
<1>2. sum(0) = 0
  <2>1. 0 \in 0 .. Len(v) /\ size(v, 0) = 0
    BY <1>0 DEF size
  <2> QED
    BY <2>1, BytesCounted
<1> HIDE DEF sum
<1>3. n \in 1 .. sum(Len(v)) /\ Len(v) \in 0 .. Len(v)
  BY <1>0 DEF sum
<1>4. T \subseteq Nat /\ T # {}
  BY <1>0, <1>1, <1>3
<1>5. PICK k \in T : \A j \in T : k <= j
  BY <1>4, LeastElement
<1>6. k \in 1 .. Len(v) /\ sum(k) >= n
  BY <1>2, <1>3, <1>5
<1>7. \A j \in 0 .. k - 1 : sum(j) < n
  <2> SUFFICES ASSUME NEW j \in 0 .. k - 1 PROVE sum(j) < n
    OBVIOUS
  <2>1. j \in 0 .. Len(v) /\ ~(k <= j) /\ sum(j) \in Nat
    BY <1>0, <1>1, <1>6
  <2> QED
    BY <1>3, <1>5, <2>1
<1> HIDE DEF T
<1>8. CASE sum(k) = n
  <2>1. sum(k) <= n /\ (k > 0 => sum(k - 1) < n) /\ ~(sum(k) < n)
    BY <1>0, <1>3, <1>6, <1>7, <1>8
  <2>2. k \in 0 .. Len(v)
    BY <1>6
  <2>3. Completes(m, v, n, k)
    BY <2>1 DEF Completes, sum
  <2> QED
    BY <2>2, <2>3
<1>9. CASE sum(k) # n
  <2> DEFINE i == k - 1
  <2>1. i \in 0 .. Len(v) /\ i + 1 = k /\ i \in 0 .. k - 1
    BY <1>0, <1>6
  <2>2. sum(i) < n /\ sum(i) \in Nat /\ sum(k) \in Nat
    BY <1>1, <1>6, <1>7, <2>1
  <2>3. i > 0 => sum(i - 1) < n
    BY <1>7, <2>1
  <2> HIDE DEF i
  <2>4. sum(i) <= n /\ sum(i + 1) > n
    BY <1>3, <1>6, <1>9, <2>1, <2>2
  <2>5. Completes(m, v, n, i)
    BY <2>3, <2>4 DEF Completes, sum
  <2> QED
    BY <2>1, <2>5
<1> QED
  BY <1>8, <1>9

\* Vectors that begin n bytes later and end where the others end hold what is left.
LEMMA WhatIsLeft ==
  ASSUME NEW C, NEW m \in Seq(C), NEW v \in Seq(Vector), Adjacent(v, Len(m)),
         NEW r \in Seq(Vector), Adjacent(r, Len(m)),
         NEW n \in 1 .. Len(bytes(m, v, Len(v))),
         r = << >> => n = size(v, Len(v)),
         r # << >> => r[1].base = v[1].base + n /\ stop(r, Len(r)) = stop(v, Len(v))
  PROVE  bytes(m, v, Len(v)) = SubSeq(bytes(m, v, Len(v)), 1, n) \o bytes(m, r, Len(r))
<1> DEFINE all == bytes(m, v, Len(v))
           a == v[1].base
           z == stop(v, Len(v))
<1>0. Len(v) \in Nat /\ Len(m) \in Nat /\ Len(r) \in Nat /\ (r # << >> => Len(r) # 0)
  BY LenProperties, EmptySeq
<1>1. all \in Seq(C) /\ Len(all) = size(v, Len(v)) /\ Len(all) \in Nat
  <2>1. Len(v) \in 0 .. Len(v)
    BY <1>0
  <2> QED
    BY <2>1, BytesCounted
<1>2. Len(v) # 0
  BY <1>1 DEF size
<1>3. Len(v) \in 1 .. Len(v) /\ 1 \in 1 .. Len(v)
  BY <1>0, <1>2
<1>4. a \in Nat \ {0} /\ z <= Len(m) /\ Len(all) = z - a + 1 /\ z \in Int
  <2>1. v[1] \in Vector /\ v[Len(v)] \in Vector
    BY <1>3, ElementOfSeq
  <2>2. z \in Int
    BY <2>1 DEF Vector, stop
  <2> QED
    BY <1>1, <1>2, <1>3, <2>1, <2>2 DEF size, Adjacent, Vector
<1>5. all = SubSeq(m, a, z)
  BY <1>3, VectorsStand
<1>6. CASE r = << >>
  <2>1. SubSeq(all, 1, n) = all
    BY <1>1, <1>6, SubSeqFull
  <2>2. bytes(m, r, Len(r)) = << >>
    <3>1. Len(r) = 0
      BY <1>6
    <3>2. [i \in 1 .. 0 |-> SubSeq(m, r[i].base, stop(r, i))] = << >>
      OBVIOUS
    <3>3. FlattenSeq(<< >>) = << >>
      BY DEF FlattenSeq
    <3> QED
      BY <3>1, <3>2, <3>3 DEF bytes
  <2> QED
    BY <1>1, <2>1, <2>2, ConcatEmptySeq
<1>7. CASE r # << >>
  <2>1. Len(r) \in 1 .. Len(r)
    BY <1>0, <1>7
  <2>2. bytes(m, r, Len(r)) = SubSeq(m, a + n, z)
    BY <1>7, <2>1, VectorsStand
  <2> HIDE DEF all, a, z
  <2>3. n \in 1 .. Len(all)
    BY DEF all
  <2>4. /\ a \in 1 .. Len(m) /\ z \in 1 .. Len(m)
        /\ 1 \in 1 .. z - a + 1 /\ n \in 1 .. z - a + 1
        /\ a + 1 - 1 = a /\ a + n - 1 + 1 = a + n
    BY <1>0, <1>4, <2>3
  <2>5. SubSeq(SubSeq(m, a, z), 1, n) = SubSeq(m, a + 1 - 1, a + n - 1)
    BY <2>4, SubSeqOfSubSeq
  <2>6. SubSeq(all, 1, n) = SubSeq(m, a, a + n - 1)
    BY <1>5, <2>4, <2>5
  <2> DEFINE b == a + n - 1
  <2>7. a \in 1 .. Len(m) + 1 /\ b \in a - 1 .. Len(m) /\ z \in b .. Len(m) /\ b + 1 = a + n
    BY <1>0, <2>4
  <2> HIDE DEF b
  <2>8. SubSeq(m, a, b) \o SubSeq(m, b + 1, z) = SubSeq(m, a, z)
    BY <2>7, ConcatAdjacentSubSeq
  <2>9. all = SubSeq(all, 1, n) \o bytes(m, r, Len(r))
    BY <1>5, <2>2, <2>6, <2>7, <2>8 DEF b
  <2> QED
    BY <2>9 DEF all
<1> QED
  BY <1>6, <1>7

\* What TuiOutput's advance_iovecs leaves.
Remainder(m, v, n, i) ==
  LET rest == n - Len(bytes(m, v, i))
      left == SubSeq(v, i + 1, Len(v))
  IN IF rest = 0 THEN left ELSE [left EXCEPT ![1] = [base |-> @.base + rest, len |-> @.len - rest]]

\* A kernel that takes n bytes leaves vectors that hold the others.
LEMMA Advanced ==
  ASSUME NEW C, NEW m \in Seq(C), NEW v \in Seq(Vector), Adjacent(v, Len(m)),
         NEW n \in 1 .. Len(bytes(m, v, Len(v))),
         NEW i \in 0 .. Len(v), Completes(m, v, n, i)
  PROVE  /\ Remainder(m, v, n, i) \in Seq(Vector)
         /\ Adjacent(Remainder(m, v, n, i), Len(m))
         /\ Len(Remainder(m, v, n, i)) <= Len(v)
         /\ bytes(m, v, Len(v)) = SubSeq(bytes(m, v, Len(v)), 1, n)
              \o bytes(m, Remainder(m, v, n, i), Len(Remainder(m, v, n, i)))
<1> DEFINE r == Remainder(m, v, n, i)
           left == SubSeq(v, i + 1, Len(v))
           rest == n - size(v, i)
<1>0. /\ Len(v) \in Nat /\ Len(m) \in Nat /\ i \in Nat
      /\ \A j \in 1 .. Len(v) : v[j] \in Vector
  BY LenProperties, ElementOfSeq
<1>1. \A k \in 0 .. Len(v) : Len(bytes(m, v, k)) = size(v, k) /\ size(v, k) \in Nat
  BY BytesCounted
<1>2. n \in Nat \ {0} /\ n <= size(v, Len(v)) /\ size(v, Len(v)) \in Nat
  <2>1. Len(v) \in 0 .. Len(v)
    BY <1>0
  <2> QED
    BY <1>1, <2>1
<1>3. /\ size(v, i) \in Nat /\ size(v, i) <= n
      /\ (i < Len(v) /\ size(v, i) < n => size(v, i + 1) > n)
  <2>1. i + 1 \in 0 .. Len(v) \/ ~(i < Len(v))
    BY <1>0
  <2> QED
    BY <1>1, <2>1 DEF Completes
<1>4. /\ left \in Seq(Vector) /\ Len(left) = Len(v) - i
      /\ \A j \in 1 .. Len(left) : left[j] = v[i + j]
  <2>1. i + 1 \in Int /\ Len(v) \in Int /\ \A j \in i + 1 .. Len(v) : v[j] \in Vector
    BY <1>0
  <2>2. /\ left \in Seq(Vector)
        /\ Len(left) = IF i + 1 <= Len(v) THEN Len(v) - (i + 1) + 1 ELSE 0
        /\ \A j \in 1 .. Len(v) - (i + 1) + 1 : left[j] = v[i + 1 + j - 1]
    BY <2>1, SubSeqProperties
  <2> HIDE DEF left
  <2>3. Len(left) = Len(v) - i /\ Len(v) - (i + 1) + 1 = Len(v) - i
    BY <1>0, <2>2
  <2>4. ASSUME NEW j \in 1 .. Len(left)
        PROVE  left[j] = v[i + j]
    <3>1. j \in 1 .. Len(v) - (i + 1) + 1 /\ i + 1 + j - 1 = i + j
      BY <1>0, <2>3
    <3> QED
      BY <2>2, <3>1
  <2> QED
    BY <2>2, <2>3, <2>4
<1> HIDE DEF left
<1>5. r = IF rest = 0 THEN left
          ELSE [left EXCEPT ![1] = [base |-> @.base + rest, len |-> @.len - rest]]
  BY <1>1 DEF Remainder, left
<1> DEFINE result == /\ r \in Seq(Vector) /\ Adjacent(r, Len(m)) /\ Len(r) <= Len(v)
                     /\ r = << >> => n = size(v, Len(v))
                     /\ r # << >> => /\ r[1].base = v[1].base + n
                                     /\ stop(r, Len(r)) = stop(v, Len(v))
<1> HIDE DEF r
<1>10. Adjacent(left, Len(m))
  <2>1. ASSUME NEW j \in 1 .. Len(left) - 1
        PROVE  left[j + 1].base = stop(left, j) + 1
    <3>1. /\ j \in 1 .. Len(left) /\ j + 1 \in 1 .. Len(left)
          /\ i + j \in 1 .. Len(v) - 1 /\ i + (j + 1) = i + j + 1
      BY <1>0, <1>4, SMTT(40)
    <3>2. left[j] = v[i + j] /\ left[j + 1] = v[i + j + 1]
      BY <1>4, <3>1
    <3>3. v[i + j + 1].base = stop(v, i + j) + 1
      BY <3>1 DEF Adjacent
    <3> QED
      BY <3>2, <3>3 DEF stop
  <2>2. ASSUME NEW j \in 1 .. Len(left)
        PROVE  stop(left, j) <= Len(m)
    <3>1. i + j \in 1 .. Len(v)
      BY <1>0, <1>4
    <3>2. stop(v, i + j) <= Len(m)
      BY <3>1 DEF Adjacent
    <3> QED
      BY <1>4, <3>2 DEF stop
  <2> QED
    BY <2>1, <2>2 DEF Adjacent
<1>11. ASSUME i # Len(v)
       PROVE  /\ left # << >> /\ Len(left) \in 1 .. Len(left) /\ 1 \in 1 .. Len(left)
              /\ left[1] = v[i + 1] /\ left[Len(left)] = v[Len(v)]
              /\ v[i + 1] \in Vector
              /\ v[i + 1].base = v[1].base + size(v, i)
              /\ size(v, i + 1) = size(v, i) + v[i + 1].len
              /\ stop(left, Len(left)) = stop(v, Len(v))
  <2>1. i \in 0 .. Len(v) - 1 /\ i + 1 \in 1 .. Len(v)
    BY <1>0, <1>11
  <2>2. Len(left) \in 1 .. Len(left) /\ 1 \in 1 .. Len(left) /\ i + Len(left) = Len(v)
    BY <1>0, <1>4, <2>1
  <2>3. left[1] = v[i + 1] /\ left[Len(left)] = v[Len(v)]
    BY <1>4, <2>2
  <2>4. left # << >>
    BY <2>2
  <2>5. v[i + 1] \in Vector
    BY <1>0, <2>1
  <2>6. v[i + 1].base = v[1].base + size(v, i) /\ size(v, i + 1) = size(v, i) + v[i + 1].len
    BY <2>1, SizesAdd
  <2>7. stop(left, Len(left)) = stop(v, Len(v))
    BY <2>3 DEF stop
  <2> QED
    BY <2>2, <2>3, <2>4, <2>5, <2>6, <2>7
<1>6. ASSUME rest = 0
      PROVE  result
  <2>1. r = left /\ size(v, i) = n
    BY <1>2, <1>3, <1>5, <1>6
  <2>2. Len(left) <= Len(v)
    BY <1>0, <1>4
  <2>3. CASE i = Len(v)
    <3>1. Len(left) = 0
      BY <1>0, <1>4, <2>3
    <3>2. left = << >>
      BY <1>4, <3>1, EmptySeq
    <3> QED
      BY <1>4, <1>10, <2>1, <2>2, <2>3, <3>2
  <2>4. CASE i # Len(v)
    BY <1>4, <1>10, <1>11, <2>1, <2>2, <2>4
  <2> QED
    BY <2>3, <2>4
<1>7. ASSUME rest # 0
      PROVE  result
  <2>1. size(v, i) < n /\ rest \in Nat /\ size(v, i) + rest = n
    BY <1>2, <1>3, <1>7
  <2>2. i # Len(v) /\ i < Len(v)
    <3>1. i # Len(v)
      BY <1>2, <1>3, <2>1
    <3> QED
      BY <1>0, <3>1
  <2> DEFINE first == v[i + 1]
             cut == [base |-> first.base + rest, len |-> first.len - rest]
  <2>3. /\ left # << >> /\ Len(left) \in 1 .. Len(left) /\ 1 \in 1 .. Len(left)
        /\ left[1] = first /\ left[Len(left)] = v[Len(v)] /\ first \in Vector
        /\ first.base = v[1].base + size(v, i)
        /\ size(v, i + 1) = size(v, i) + first.len
        /\ stop(left, Len(left)) = stop(v, Len(v))
    BY <1>11, <2>2
  <2>4. size(v, i + 1) > n
    BY <1>3, <2>1, <2>2
  <2>5. r = [left EXCEPT ![1] = cut]
    BY <1>5, <1>7, <2>3
  <2>6. v[1].base \in Nat
    <3>1. 1 \in 1 .. Len(v)
      BY <1>0, <2>2
    <3> QED
      BY <1>0, <3>1 DEF Vector
  <2>7. first.base \in Nat \ {0} /\ first.len \in Nat
    BY <2>3 DEF Vector
  <2> DEFINE b == first.base
             l == first.len
             before == size(v, i)
  <2>8. cut = [base |-> b + rest, len |-> l - rest]
    OBVIOUS
  <2>18. cut.base = b + rest /\ cut.len = l - rest
    BY <2>8
  <2>19. before + l > n /\ before \in Nat
    BY <1>3, <2>3, <2>4
  <2>20. before + rest = n /\ rest \in Nat /\ n \in Nat \ {0} /\ b \in Nat \ {0} /\ l \in Nat
    BY <1>2, <2>1, <2>7
  <2> HIDE DEF rest, first, cut, b, l, before
  <2>9. l - rest \in Nat /\ b + rest \in Nat \ {0}
    BY <2>19, <2>20
  <2>10. cut \in Vector
    BY <2>8, <2>9 DEF Vector
  <2>11. /\ r \in Seq(Vector) /\ Len(r) = Len(left)
         /\ \A j \in 1 .. Len(left) : r[j] = IF j = 1 THEN cut ELSE left[j]
    BY <1>4, <2>3, <2>5, <2>10, ExceptSeq
  <2>12. cut.base + cut.len - 1 = first.base + first.len - 1
    <3>1. (b + rest) + (l - rest) - 1 = b + l - 1
      BY <2>20
    <3> QED
      BY <2>18, <3>1 DEF b, l
  <2>13. \A j \in 1 .. Len(left) : stop(r, j) = stop(left, j)
    BY <2>3, <2>11, <2>12 DEF stop
  <2>14. Adjacent(r, Len(m))
    <3>1. ASSUME NEW j \in 1 .. Len(r) - 1
          PROVE  r[j + 1].base = stop(r, j) + 1
      <4>1. /\ j \in 1 .. Len(left) /\ j + 1 \in 1 .. Len(left)
            /\ j + 1 # 1 /\ j \in 1 .. Len(left) - 1
        BY <1>0, <1>4, <2>11
      <4>2. r[j + 1] = left[j + 1] /\ stop(r, j) = stop(left, j)
        BY <2>11, <2>13, <4>1
      <4>3. left[j + 1].base = stop(left, j) + 1
        BY <1>10, <4>1 DEF Adjacent
      <4> QED
        BY <4>2, <4>3
    <3>2. \A j \in 1 .. Len(r) : stop(r, j) <= Len(m)
      BY <1>10, <2>11, <2>13 DEF Adjacent
    <3> QED
      BY <3>1, <3>2 DEF Adjacent
  <2>15. r # << >> /\ r[1] = cut /\ stop(r, Len(r)) = stop(v, Len(v))
    <3>1. r[1] = cut
      BY <2>3, <2>11
    <3>2. stop(r, Len(r)) = stop(v, Len(v))
      BY <2>3, <2>11, <2>13
    <3>3. r # << >>
      BY <2>3, <2>11
    <3> QED
      BY <3>1, <3>2, <3>3
  <2>16. r[1].base = v[1].base + n
    <3>1. r[1].base = first.base + rest
      BY <2>15, <2>18 DEF b
    <3> QED
      BY <1>2, <1>3, <2>1, <2>3, <2>6, <3>1, SMTT(40)
  <2>17. Len(r) <= Len(v)
    BY <1>0, <1>4, <2>11
  <2> QED
    BY <2>11, <2>14, <2>15, <2>16, <2>17
<1>8. result
  BY <1>6, <1>7
<1>9. bytes(m, v, Len(v)) = SubSeq(bytes(m, v, Len(v)), 1, n) \o bytes(m, r, Len(r))
  BY <1>8, WhatIsLeft
<1> QED
  BY <1>8, <1>9 DEF r

-----------------------------------------------------------------------------
(***************************************************************************)
(* The output buffer: what is added to it.                                 *)
(***************************************************************************)
\* The vectors stand for the first n bytes of the memory.
Covers(v, n) == IF v = << >> THEN n = 0 ELSE v[1].base = 1 /\ stop(v, Len(v)) = n

\* Then these are what they offer.
LEMMA CoveredBytes ==
  ASSUME NEW C, NEW m \in Seq(C), NEW v \in Seq(Vector), Adjacent(v, Len(m)),
         NEW n \in Nat, Covers(v, n)
  PROVE  bytes(m, v, Len(v)) = SubSeq(m, 1, n)
<1>1. CASE v = << >>
  <2>1. Len(v) = 0
    BY <1>1
  <2>2. [i \in 1 .. 0 |-> SubSeq(m, v[i].base, stop(v, i))] = << >>
    OBVIOUS
  <2>3. FlattenSeq(<< >>) = << >>
    BY DEF FlattenSeq
  <2>4. bytes(m, v, Len(v)) = << >>
    BY <2>1, <2>2, <2>3 DEF bytes
  <2>5. SubSeq(m, 1, 0) = << >>
    BY SubSeqEmpty
  <2> QED
    BY <1>1, <2>4, <2>5 DEF Covers
<1>2. CASE v # << >>
  <2>1. Len(v) \in 1 .. Len(v)
    BY <1>2, EmptySeq
  <2> QED
    BY <1>2, <2>1, VectorsStand DEF Covers
<1> QED
  BY <1>1, <1>2

\* A vector for the text that is added stands behind the others.
LEMMA VectorAppended ==
  ASSUME NEW v \in Seq(Vector), NEW n \in Nat, Covers(v, n), NEW l \in Nat,
         NEW N \in Nat, Adjacent(v, N), n + l <= N
  PROVE  LET v1 == Append(v, [base |-> n + 1, len |-> l])
         IN v1 \in Seq(Vector) /\ Adjacent(v1, N) /\ Covers(v1, n + l)
<1> DEFINE e == [base |-> n + 1, len |-> l]
           v1 == Append(v, e)
<1>0. Len(v) \in Nat /\ (v = << >> <=> Len(v) = 0)
  BY LenProperties, EmptySeq
<1>1. e \in Vector /\ e.base = n + 1 /\ e.base + e.len - 1 = n + l
  BY DEF Vector
<1> HIDE DEF e
<1>2. /\ v1 \in Seq(Vector) /\ v1 # << >> /\ Len(v1) = Len(v) + 1
      /\ \A i \in 1 .. Len(v) : v1[i] = v[i]
      /\ v1[Len(v) + 1] = e
  BY <1>1, AppendProperties
<1> HIDE DEF v1
<1>3. stop(v1, Len(v) + 1) = n + l /\ \A i \in 1 .. Len(v) : stop(v1, i) = stop(v, i)
  BY <1>1, <1>2 DEF stop
<1>4. Covers(v1, n + l)
  <2>1. CASE v = << >>
    <3>1. n = 0 /\ v1[1] = e
      BY <1>0, <1>2, <2>1 DEF Covers
    <3> QED
      BY <1>0, <1>1, <1>2, <1>3, <2>1, <3>1 DEF Covers
  <2>2. CASE v # << >>
    <3>1. v1[1] = v[1] /\ v[1].base = 1
      BY <1>0, <1>2, <2>2 DEF Covers
    <3> QED
      BY <1>2, <1>3, <3>1 DEF Covers
  <2> QED
    BY <2>1, <2>2
<1>5. ASSUME NEW i \in 1 .. Len(v1) - 1
      PROVE  v1[i + 1].base = stop(v1, i) + 1
  <2>1. i \in 1 .. Len(v) /\ Len(v) # 0
    BY <1>0, <1>2
  <2>2. CASE i = Len(v)
    <3>1. v1[i + 1] = e /\ stop(v1, i) = n
      BY <1>0, <1>2, <1>3, <2>1, <2>2 DEF Covers
    <3> QED
      BY <1>1, <3>1
  <2>3. CASE i # Len(v)
    <3>1. i \in 1 .. Len(v) - 1 /\ i + 1 \in 1 .. Len(v)
      BY <1>0, <2>1, <2>3
    <3>2. v1[i + 1] = v[i + 1] /\ stop(v1, i) = stop(v, i)
      BY <1>2, <1>3, <2>1, <3>1
    <3> QED
      BY <3>1, <3>2 DEF Adjacent
  <2> QED
    BY <2>2, <2>3
<1>6. ASSUME NEW i \in 1 .. Len(v1)
      PROVE  stop(v1, i) <= N
  <2>1. i \in 1 .. Len(v) \/ i = Len(v) + 1
    BY <1>0, <1>2
  <2> QED
    BY <1>3, <2>1 DEF Adjacent
<1>7. Adjacent(v1, N)
  BY <1>5, <1>6 DEF Adjacent
<1> QED
  BY <1>2, <1>4, <1>7 DEF v1, e

\* One vector for all that stands in the buffer.
LEMMA OneVector ==
  ASSUME NEW n \in Nat, NEW N \in Nat, n <= N
  PROVE  LET v1 == <<[base |-> 1, len |-> n]>>
         IN v1 \in Seq(Vector) /\ Adjacent(v1, N) /\ Covers(v1, n)
<1> DEFINE e == [base |-> 1, len |-> n]
           v1 == <<e>>
<1>1. e \in Vector /\ e.base = 1 /\ e.base + e.len - 1 = n
  BY DEF Vector
<1> HIDE DEF e
<1>2. v1 \in Seq(Vector) /\ Len(v1) = 1 /\ v1[1] = e /\ v1 # << >>
  BY <1>1
<1> HIDE DEF v1
<1>3. stop(v1, 1) = n
  BY <1>1, <1>2 DEF stop
<1>4. Covers(v1, n)
  BY <1>1, <1>2, <1>3 DEF Covers
<1>5. Adjacent(v1, N)
  <2>1. \A i \in 1 .. Len(v1) : i = 1
    BY <1>2
  <2>2. \A i \in 1 .. Len(v1) - 1 : FALSE
    BY <1>2
  <2>3. \A i \in 1 .. Len(v1) : stop(v1, i) <= N
    BY <1>3, <2>1
  <2> QED
    BY <2>2, <2>3 DEF Adjacent
<1> QED
  BY <1>2, <1>4, <1>5 DEF v1, e

\* A text that is copied behind the first n bytes.
LEMMA TextCopied ==
  ASSUME NEW C, NEW N \in Nat, NEW m \in [1 .. N -> C], NEW m1 \in [1 .. N -> C],
         NEW n \in Nat, NEW text \in Seq(C), n + Len(text) <= N,
         \A i \in 1 .. N : m1[i] = IF i \in n + 1 .. n + Len(text) THEN text[i - n] ELSE m[i]
  PROVE  SubSeq(m1, 1, n + Len(text)) = SubSeq(m, 1, n) \o text
<1> DEFINE l == Len(text)
           s == SubSeq(m1, 1, n + l)
           t == SubSeq(m, 1, n)
<1>0. l \in Nat
  BY LenProperties
<1>1. s \in Seq(C) /\ Len(s) = n + l /\ \A i \in 1 .. n + l : s[i] = m1[i]
  <2>1. \A i \in 1 .. n + l : m1[i] \in C
    BY <1>0
  <2>2. /\ s \in Seq(C) /\ Len(s) = IF 1 <= n + l THEN n + l - 1 + 1 ELSE 0
        /\ \A i \in 1 .. n + l - 1 + 1 : s[i] = m1[1 + i - 1]
    BY <1>0, <2>1, SubSeqProperties
  <2> HIDE DEF s, l
  <2>3. Len(s) = n + l /\ n + l - 1 + 1 = n + l
    BY <1>0, <2>2
  <2>4. ASSUME NEW i \in 1 .. n + l
        PROVE  s[i] = m1[i]
    <3>1. i \in 1 .. n + l - 1 + 1 /\ 1 + i - 1 = i
      BY <1>0
    <3> QED
      BY <2>2, <3>1
  <2> QED
    BY <2>2, <2>3, <2>4
<1>2. t \in Seq(C) /\ Len(t) = n /\ \A i \in 1 .. n : t[i] = m[i]
  <2>1. \A i \in 1 .. n : m[i] \in C
    BY <1>0
  <2>2. /\ t \in Seq(C) /\ Len(t) = IF 1 <= n THEN n - 1 + 1 ELSE 0
        /\ \A i \in 1 .. n - 1 + 1 : t[i] = m[1 + i - 1]
    BY <1>0, <2>1, SubSeqProperties
  <2> HIDE DEF t
  <2>3. Len(t) = n /\ n - 1 + 1 = n
    BY <2>2
  <2>4. ASSUME NEW i \in 1 .. n
        PROVE  t[i] = m[i]
    <3>1. i \in 1 .. n - 1 + 1 /\ 1 + i - 1 = i
      OBVIOUS
    <3> QED
      BY <2>2, <3>1
  <2> QED
    BY <2>2, <2>3, <2>4
<1>3. /\ t \o text \in Seq(C) /\ Len(t \o text) = Len(t) + l
      /\ \A i \in 1 .. Len(t) + l : (t \o text)[i] = IF i <= Len(t) THEN t[i] ELSE text[i - Len(t)]
  BY <1>2, ConcatProperties
<1> HIDE DEF s, t
<1>4. ASSUME NEW i \in 1 .. n + l
      PROVE  s[i] = (t \o text)[i]
  <2>1. i \in 1 .. N /\ s[i] = m1[i]
    BY <1>0, <1>1
  <2>2. (t \o text)[i] = IF i <= n THEN t[i] ELSE text[i - n]
    BY <1>2, <1>3
  <2>3. CASE i <= n
    <3>1. i \in 1 .. n /\ i \notin n + 1 .. n + l
      BY <1>0, <2>3
    <3> QED
      BY <1>2, <2>1, <2>2, <2>3, <3>1
  <2>4. CASE ~(i <= n)
    <3>1. i \in n + 1 .. n + l
      BY <1>0, <2>4
    <3> QED
      BY <2>1, <2>2, <2>4, <3>1
  <2> QED
    BY <2>3, <2>4
<1>5. s = t \o text
  BY <1>1, <1>2, <1>3, <1>4, SeqEqual
<1> QED
  BY <1>5 DEF s, t, l

-----------------------------------------------------------------------------
(***************************************************************************)
(* The steps of the output buffer.                                         *)
(***************************************************************************)
\* Where the vectors point.
Source == IF pc = "direct" THEN waiting[1] ELSE memory

\* The text of the call that flushes.
Pending == IF pc = "flush" THEN FlattenSeq(waiting) ELSE << >>

\* The inductive invariant: the vectors follow each other in what they point to, and
\* between two calls they stand for just the bytes that are in use.
OutShape ==
  /\ memory \in [1 .. Out!Capacity -> Characters]
  /\ used \in 0 .. Out!Capacity
  /\ vecs \in Seq(Vector) /\ Adjacent(vecs, Len(Source))
  /\ waiting = << >> \/ \E text \in Written : waiting = <<text>>
  /\ pc \in {"idle", "flush", "direct"}
  /\ pc = "direct" => waiting # << >>
  /\ pc = "idle" => waiting = << >> /\ Covers(vecs, used)

\* The sizes are numbers.
LEMMA CapacityIsNumber == Out!Capacity \in Nat /\ Out!Capacity' \in Nat
BY OutputAssumption DEF Out!Capacity

\* Nothing flattens to nothing, and one text to itself.
LEMMA FlattenedTexts ==
  /\ FlattenSeq(<< >>) = << >>
  /\ \A text : FlattenSeq(<<text>>) = text
<1>1. FlattenSeq(<< >>) = << >>
  BY DEF FlattenSeq
<1>2. ASSUME NEW text
      PROVE  FlattenSeq(<<text>>) = text
  <2> DEFINE seqs == <<text>>
  <2>1. Len(seqs) = 1 /\ seqs[1] = text
    OBVIOUS
  <2> HIDE DEF seqs
  <2> DEFINE n == Len(seqs)
  <2>2. n \in Nat \ {0} /\ \A i \in 1 .. n - 1 : seqs[i + 1] = seqs[i] \o seqs[i + 1]
    BY <2>1
  <2> HIDE DEF n
  <2>3. FlattenSeq(seqs) = seqs[n]
    BY <2>2, Flattened DEF n
  <2> QED
    BY <2>1, <2>3 DEF seqs, n
<1> QED
  BY <1>1, <1>2

\* The buffer flattens as everywhere.
LEMMA SameFlattening ==
  ASSUME NEW seqs
  PROVE  Out!FlattenSeq(seqs) = FlattenSeq(seqs)
BY DEF Out!FlattenSeq, FlattenSeq

\* The bytes that are not with the kernel, before and after a step.
LEMMA QueueIs ==
  /\ Out!offered = bytes(Source, vecs, Len(vecs))
  /\ Out!Queue = bytes(Source, vecs, Len(vecs)) \o Pending
  /\ Out!Queue' = bytes(Source', vecs', Len(vecs')) \o Pending'
<1>1. Out!offered = bytes(Source, vecs, Len(vecs))
  BY SameFlattening DEF Out!offered, Out!bytes_up_to, Out!bytes_of, bytes, stop, Source
<1>2. Out!offered' = bytes(Source', vecs', Len(vecs'))
  BY SameFlattening DEF Out!offered, Out!bytes_up_to, Out!bytes_of, bytes, stop, Source
<1>3. Out!Queue = Out!offered \o Pending /\ Out!Queue' = Out!offered' \o Pending'
  BY SameFlattening DEF Out!Queue, Pending
<1> QED
  BY <1>1, <1>2, <1>3

\* What the vectors point to is made of characters.
LEMMA SourceIsText ==
  ASSUME OutShape
  PROVE  /\ Source \in Seq(Characters)
         /\ memory \in Seq(Characters) /\ Len(memory) = Out!Capacity
         /\ Pending \in Seq(Characters)
         /\ bytes(Source, vecs, Len(vecs)) \in Seq(Characters)
<1>1. memory \in Seq(Characters) /\ Len(memory) = Out!Capacity
  BY CapacityIsNumber DEF OutShape
<1>2. Source \in Seq(Characters)
  BY <1>1, OutputAssumption DEF OutShape, Source
<1>3. Pending \in Seq(Characters)
  <2>1. CASE waiting = << >>
    BY <2>1, FlattenedTexts, EmptySeq DEF Pending
  <2>2. CASE \E text \in Written : waiting = <<text>>
    BY <2>2, OutputAssumption, FlattenedTexts, EmptySeq DEF Pending
  <2> QED
    BY <2>1, <2>2 DEF OutShape
<1>4. bytes(Source, vecs, Len(vecs)) \in Seq(Characters)
  <2>1. vecs \in Seq(Vector) /\ Adjacent(vecs, Len(Source)) /\ Len(vecs) \in 0 .. Len(vecs)
    BY LenProperties DEF OutShape
  <2> QED
    BY <1>2, <2>1, BytesCounted
<1> QED
  BY <1>1, <1>2, <1>3, <1>4

\* Between two calls the buffer holds just what is not with the kernel.
LEMMA QueueBetweenCalls ==
  ASSUME OutShape, pc = "idle"
  PROVE  /\ Out!Queue = SubSeq(memory, 1, used)
         /\ bytes(memory, vecs, Len(vecs)) = SubSeq(memory, 1, used)
         /\ SubSeq(memory, 1, used) \in Seq(Characters)
<1>1. memory \in Seq(Characters) /\ Source = memory /\ Pending = << >>
  BY SourceIsText DEF Source, Pending
<1>2. used \in Nat /\ vecs \in Seq(Vector) /\ Adjacent(vecs, Len(memory)) /\ Covers(vecs, used)
  BY <1>1, CapacityIsNumber DEF OutShape
<1>3. bytes(memory, vecs, Len(vecs)) = SubSeq(memory, 1, used)
  BY <1>1, <1>2, CoveredBytes
<1>4. bytes(memory, vecs, Len(vecs)) \in Seq(Characters)
  BY <1>1, SourceIsText
<1> QED
  BY <1>1, <1>3, <1>4, QueueIs, ConcatEmptySeq

\* Adding a text puts it behind the bytes that the older vectors stand for.
LEMMA AddOutcome ==
  ASSUME memory \in [1 .. Out!Capacity -> Characters],
         NEW text \in Written, NEW older \in Seq(Vector), NEW n \in Nat,
         Adjacent(older, Out!Capacity), Covers(older, n), n + Len(text) <= Out!Capacity,
         Out!add(text, older, n), use_writev' = use_writev
  PROVE  OutShape' /\ Out!Queue' = SubSeq(memory, 1, n) \o text
<1> DEFINE N == Out!Capacity
           l == Len(text)
           m1 == [i \in DOMAIN memory |-> IF i \in n + 1 .. n + l THEN text[i - n] ELSE memory[i]]
           v1 == IF use_writev THEN Append(older, [base |-> n + 1, len |-> l])
                 ELSE IF n + l = 0 THEN << >> ELSE <<[base |-> 1, len |-> n + l]>>
<1>1. /\ memory' = m1 /\ used' = n + l /\ vecs' = v1 /\ waiting' = << >>
      /\ pc' = "flush" \/ pc' = "idle"
  BY DEF Out!add
<1>2. N \in Nat /\ N = Out!Capacity'
  BY CapacityIsNumber DEF Out!Capacity
<1>3. text \in Seq(Characters) /\ l \in Nat
  BY OutputAssumption, LenProperties
<1>4. /\ m1 \in [1 .. N -> Characters]
      /\ \A i \in 1 .. N : m1[i] = IF i \in n + 1 .. n + l THEN text[i - n] ELSE memory[i]
  <2> DEFINE at(i) == IF i \in n + 1 .. n + l THEN text[i - n] ELSE memory[i]
  <2>1. ASSUME NEW i \in 1 .. N
        PROVE  at(i) \in Characters
    <3>1. CASE i \in n + 1 .. n + l
      <4>1. i - n \in 1 .. l
        BY <1>3, <3>1
      <4> QED
        BY <1>3, <3>1, <4>1, ElementOfSeq
    <3>2. CASE i \notin n + 1 .. n + l
      BY <3>2
    <3> QED
      BY <3>1, <3>2
  <2> HIDE DEF at
  <2>2. [i \in 1 .. N |-> at(i)] \in [1 .. N -> Characters]
    BY <2>1
  <2>3. DOMAIN memory = 1 .. N
    OBVIOUS
  <2>4. m1 = [i \in 1 .. N |-> at(i)]
    BY <2>3 DEF at
  <2>5. \A i \in 1 .. N : m1[i] = at(i)
    BY <2>4
  <2> QED
    BY <2>2, <2>4, <2>5 DEF at
<1> HIDE DEF m1
<1>5. v1 \in Seq(Vector) /\ Adjacent(v1, N) /\ Covers(v1, n + l)
  <2>1. CASE use_writev
    BY <1>2, <1>3, <2>1, VectorAppended
  <2>2. CASE ~use_writev /\ n + l = 0
    <3>1. v1 = << >> /\ Len(v1) = 0
      BY <2>2
    <3>2. v1 \in Seq(Vector) /\ 1 .. Len(v1) - 1 = {} /\ 1 .. Len(v1) = {}
      BY <3>1, EmptySeq
    <3> QED
      BY <2>2, <3>1, <3>2 DEF Adjacent, Covers
  <2>3. CASE ~use_writev /\ n + l # 0
    BY <1>2, <1>3, <2>3, OneVector
  <2> QED
    BY <2>1, <2>2, <2>3
<1> HIDE DEF v1
<1>6. Source' = m1 /\ Pending' = << >>
  BY <1>1, FlattenedTexts DEF Source, Pending
<1>7. m1 \in Seq(Characters) /\ Len(m1) = N
  BY <1>2, <1>4
<1>8. OutShape'
  BY <1>1, <1>2, <1>3, <1>4, <1>5, <1>6, <1>7 DEF OutShape
<1>9. bytes(m1, v1, Len(v1)) = SubSeq(m1, 1, n + l)
  BY <1>3, <1>5, <1>7, CoveredBytes
<1>10. SubSeq(m1, 1, n + l) = SubSeq(memory, 1, n) \o text
  BY <1>2, <1>3, <1>4, TextCopied, SMTT(40)
<1>11. bytes(m1, v1, Len(v1)) \in Seq(Characters)
  <2>1. Len(v1) \in 0 .. Len(v1)
    BY <1>5, LenProperties
  <2> QED
    BY <1>5, <1>7, <2>1, BytesCounted
<1>12. Out!Queue' = bytes(m1, v1, Len(v1)) \o << >>
  BY <1>1, <1>6, QueueIs
<1> QED
  BY <1>8, <1>9, <1>10, <1>11, <1>12, ConcatEmptySeq

\* A text that exceeds the buffer is offered from where it stands.
LEMMA DirectOutcome ==
  ASSUME memory \in [1 .. Out!Capacity -> Characters],
         NEW text \in Written, Out!write_direct(text), use_writev' = use_writev
  PROVE  OutShape' /\ Out!Queue' = text
<1> DEFINE v1 == <<[base |-> 1, len |-> Len(text)]>>
<1>1. /\ vecs' = v1 /\ used' = 0 /\ pc' = "direct" /\ waiting' = <<text>>
      /\ memory' = memory
  BY DEF Out!write_direct
<1>2. Out!Capacity' = Out!Capacity /\ Out!Capacity \in Nat
  BY CapacityIsNumber DEF Out!Capacity
<1>3. text \in Seq(Characters) /\ Len(text) \in Nat
  BY OutputAssumption, LenProperties
<1>4. v1 \in Seq(Vector) /\ Adjacent(v1, Len(text)) /\ Covers(v1, Len(text))
  BY <1>3, OneVector
<1> HIDE DEF v1
<1>5. Source' = text /\ Pending' = << >>
  BY <1>1 DEF Source, Pending
<1>6. OutShape'
  BY <1>1, <1>2, <1>4, <1>5 DEF OutShape
<1>7. bytes(text, v1, Len(v1)) = text
  BY <1>3, <1>4, CoveredBytes, SubSeqFull
<1>8. Out!Queue' = text \o << >>
  BY <1>1, <1>5, <1>7, QueueIs
<1> QED
  BY <1>3, <1>6, <1>8, ConcatEmptySeq

\* A call of tui_write adds its text to the stream.
LEMMA WriteStep ==
  ASSUME OutShape, NEW text \in Written, Out!tui_write(text)
  PROVE  OutShape' /\ Stream!Write
<1>1. pc = "idle" /\ use_writev' = use_writev /\ kernel' = Out!Quiet
  BY DEF Out!tui_write
<1>2. /\ memory \in [1 .. Out!Capacity -> Characters] /\ memory \in Seq(Characters)
      /\ Len(memory) = Out!Capacity /\ Source = memory
  BY <1>1, SourceIsText DEF OutShape, Source
<1>3. Out!Capacity' = Out!Capacity /\ Out!Capacity \in Nat
  BY <1>1, CapacityIsNumber DEF Out!Capacity
<1>4. /\ used \in 0 .. Out!Capacity /\ used \in Nat
      /\ vecs \in Seq(Vector) /\ Adjacent(vecs, Out!Capacity)
      /\ waiting = << >> /\ Covers(vecs, used)
  BY <1>1, <1>2, <1>3 DEF OutShape
<1>5. text \in Seq(Characters) /\ Len(text) \in Nat
  BY OutputAssumption, LenProperties
<1>6. Out!Queue = SubSeq(memory, 1, used) /\ Out!Queue \in Seq(Characters)
  BY <1>1, QueueBetweenCalls
<1> SUFFICES OutShape' /\ Out!Queue' = Out!Queue \o text
  BY <1>1 DEF Stream!Write, Stream!Quiet, Out!Quiet
<1>7. CASE Out!full(text) /\ vecs # << >>
  <2>1. pc' = "flush" /\ waiting' = <<text>> /\ memory' = memory /\ used' = used /\ vecs' = vecs
    BY <1>7 DEF Out!tui_write
  <2>2. Source' = memory /\ Pending' = text
    BY <2>1, FlattenedTexts DEF Source, Pending
  <2>3. OutShape'
    BY <1>2, <1>3, <1>4, <2>1, <2>2 DEF OutShape
  <2>4. Out!Queue' = bytes(memory, vecs, Len(vecs)) \o text
    BY <2>1, <2>2, QueueIs
  <2> QED
    BY <1>1, <1>6, <2>3, <2>4, QueueBetweenCalls
<1>8. CASE ~(Out!full(text) /\ vecs # << >>) /\ Len(text) > Out!Capacity
  <2>1. Out!write_direct(text)
    BY <1>8 DEF Out!tui_write
  <2>2. vecs = << >>
    <3>1. used + Len(text) > Out!Capacity
      BY <1>3, <1>4, <1>5, <1>8
    <3> QED
      BY <1>8, <3>1 DEF Out!full
  <2>3. SubSeq(memory, 1, used) = << >>
    BY <1>4, <2>2, SubSeqEmpty DEF Covers
  <2> QED
    BY <1>1, <1>2, <1>5, <1>6, <2>1, <2>3, DirectOutcome, ConcatEmptySeq
<1>9. CASE ~(Out!full(text) /\ vecs # << >>) /\ ~(Len(text) > Out!Capacity)
  <2>1. Out!add(text, vecs, used)
    BY <1>9 DEF Out!tui_write
  <2>2. used + Len(text) <= Out!Capacity
    <3>1. CASE vecs = << >>
      BY <1>3, <1>4, <1>5, <1>9, <3>1 DEF Covers
    <3>2. CASE vecs # << >>
      <4>1. ~(used + Len(text) > Out!Capacity)
        BY <1>9, <3>2 DEF Out!full
      <4> QED
        BY <1>3, <1>4, <1>5, <4>1
    <3> QED
      BY <3>1, <3>2
  <2>3. OutShape' /\ Out!Queue' = SubSeq(memory, 1, used) \o text
    BY <1>1, <1>2, <1>4, <2>1, <2>2, AddOutcome
  <2> QED
    BY <1>6, <2>3
<1> QED
  BY <1>7, <1>8, <1>9

\* Beginning a flush, and switching the flush on and off, move no byte.
LEMMA SwitchStep ==
  ASSUME OutShape,
         \/ \E enable \in BOOLEAN : Out!tui_flush(enable)
         \/ \E enabled \in BOOLEAN : Out!tui_set_auto_flush(enabled)
  PROVE  OutShape' /\ Stream!Deliver
<1>1. /\ pc = "idle" /\ pc' \in {"idle", "flush"}
      /\ UNCHANGED <<use_writev, memory, used, vecs, waiting>> /\ kernel' = Out!Quiet
  BY DEF Out!tui_flush, Out!tui_set_auto_flush
<1>2. waiting = << >> /\ Out!Capacity' = Out!Capacity /\ Source' = Source
  BY <1>1 DEF OutShape, Source, Out!Capacity
<1>3. Pending = << >> /\ Pending' = << >>
  BY <1>1, <1>2, FlattenedTexts DEF Pending
<1>4. OutShape'
  BY <1>1, <1>2 DEF OutShape
<1>5. Out!Queue' = Out!Queue
  BY <1>1, <1>2, <1>3, QueueIs
<1>6. Out!Queue \in Seq(Characters)
  BY <1>1, QueueBetweenCalls
<1>7. Out!Queue = << >> \o Out!Queue'
  BY <1>5, <1>6, ConcatEmptySeq
<1> QED
  BY <1>1, <1>4, <1>7 DEF Stream!Deliver, Out!Quiet

\* What the kernel takes leaves the queue at its head.
LEMMA KernelStep ==
  ASSUME OutShape, Out!KernelTakes
  PROVE  OutShape' /\ Stream!Deliver /\ Len(vecs') <= Len(vecs)
<1> DEFINE all == bytes(Source, vecs, Len(vecs))
<1>1. /\ pc # "idle" /\ UNCHANGED <<use_writev, auto_flush, memory, used, pc, waiting>>
      /\ Out!offered = all
  BY QueueIs DEF Out!KernelTakes
<1>2. PICK n \in 1 .. Len(all) :
        /\ kernel' = [got |-> SubSeq(all, 1, n), failed |-> FALSE]
        /\ vecs' = Out!advance_iovecs(n)
  BY <1>1 DEF Out!KernelTakes
<1>3. /\ vecs \in Seq(Vector) /\ Adjacent(vecs, Len(Source)) /\ Source \in Seq(Characters)
      /\ all \in Seq(Characters) /\ Pending \in Seq(Characters)
  BY SourceIsText DEF OutShape
<1> DEFINE i == Out!completed(n)
<1>4. i \in 0 .. Len(vecs) /\ Completes(Source, vecs, n, i)
  <2>1. \A k : Out!bytes_up_to(k) = bytes(Source, vecs, k)
    BY SameFlattening DEF Out!bytes_up_to, Out!bytes_of, bytes, stop, Source
  <2>2. i = CHOOSE j \in 0 .. Len(vecs) : Completes(Source, vecs, n, j)
    BY <2>1 DEF Out!completed, Completes
  <2>3. \E j \in 0 .. Len(vecs) : Completes(Source, vecs, n, j)
    BY <1>3, SomeComplete
  <2> QED
    BY <2>2, <2>3
<1>5. vecs' = Remainder(Source, vecs, n, i)
  <2>1. Out!bytes_up_to(i) = bytes(Source, vecs, i)
    BY SameFlattening DEF Out!bytes_up_to, Out!bytes_of, bytes, stop, Source
  <2> HIDE DEF i
  <2>2. Out!advance_iovecs(n) = Remainder(Source, vecs, n, i)
    BY <2>1 DEF Out!advance_iovecs, Remainder, i
  <2> QED
    BY <1>2, <2>2
<1> HIDE DEF i
<1>6. /\ vecs' \in Seq(Vector) /\ Adjacent(vecs', Len(Source))
      /\ all = SubSeq(all, 1, n) \o bytes(Source, vecs', Len(vecs'))
      /\ Len(vecs') <= Len(vecs)
  BY <1>3, <1>4, <1>5, Advanced
<1>7. Source' = Source /\ Pending' = Pending /\ Out!Capacity' = Out!Capacity
  BY <1>1 DEF Source, Pending, Out!Capacity
<1>8. OutShape'
  BY <1>1, <1>6, <1>7 DEF OutShape
<1>9. Out!Queue = SubSeq(all, 1, n) \o Out!Queue'
  <2> DEFINE s == SubSeq(all, 1, n)
             t == bytes(Source, vecs', Len(vecs'))
  <2>1. s \in Seq(Characters)
    <3>1. 1 \in Int /\ n \in Int /\ \A j \in 1 .. n : all[j] \in Characters
      BY <1>3, ElementOfSeq, LenProperties
    <3> QED
      BY <3>1, SubSeqProperties
  <2>2. t \in Seq(Characters)
    <3>1. Len(vecs') \in 0 .. Len(vecs')
      BY <1>6, LenProperties
    <3> QED
      BY <1>3, <1>6, <3>1, BytesCounted
  <2>3. Out!Queue = all \o Pending /\ Out!Queue' = t \o Pending
    BY <1>7, QueueIs
  <2>4. all = s \o t
    BY <1>6
  <2> DEFINE u == Pending
  <2>7. u \in Seq(Characters)
    BY <1>3
  <2> HIDE DEF all, s, t, u
  <2>5. (s \o t) \o u = s \o (t \o u)
    BY <2>1, <2>2, <2>7, ConcatAssociative, SMTT(40)
  <2>6. Out!Queue = s \o Out!Queue'
    BY <2>3, <2>4, <2>5 DEF u
  <2> QED
    BY <2>6 DEF s
<1> QED
  BY <1>2, <1>6, <1>8, <1>9 DEF Stream!Deliver

\* Behind the first of two sequences stands the second.
LEMMA BehindIsLeft ==
  ASSUME NEW C, NEW s \in Seq(C), NEW t \in Seq(C)
  PROVE  SubSeq(s \o t, Len(s) + 1, Len(s \o t)) = t
<1> DEFINE a == Len(s)
           b == Len(t)
           q == s \o t
           r == SubSeq(q, a + 1, a + b)
<1>1. a \in Nat /\ b \in Nat
  BY LenProperties
<1>2. /\ q \in Seq(C) /\ Len(q) = a + b
      /\ \A i \in 1 .. a + b : q[i] = IF i <= a THEN s[i] ELSE t[i - a]
  BY ConcatProperties
<1> HIDE DEF a, b, q
<1>3. \A i \in a + 1 .. a + b : q[i] \in C
  BY <1>1, <1>2, ElementOfSeq
<1>4. /\ r \in Seq(C) /\ Len(r) = IF a + 1 <= a + b THEN a + b - (a + 1) + 1 ELSE 0
      /\ \A i \in 1 .. a + b - (a + 1) + 1 : r[i] = q[a + 1 + i - 1]
  BY <1>1, <1>3, SubSeqProperties
<1> HIDE DEF r
<1>5. Len(r) = b /\ a + b - (a + 1) + 1 = b
  BY <1>1, <1>4
<1>6. ASSUME NEW i \in 1 .. b
      PROVE  r[i] = t[i]
  <2>1. r[i] = q[a + 1 + i - 1] /\ a + 1 + i - 1 = a + i
    BY <1>1, <1>4, <1>5
  <2>2. a + i \in 1 .. a + b /\ ~(a + i <= a) /\ a + i - a = i
    BY <1>1
  <2> DEFINE j == a + i
  <2> HIDE DEF j
  <2>3. q[j] = IF j <= a THEN s[j] ELSE t[j - a]
    BY <1>2, <2>2 DEF j
  <2>4. q[j] = t[j - a]
    BY <2>2, <2>3 DEF j
  <2>5. r[i] = q[j]
    <3>1. a + 1 + i - 1 = j
      BY <1>1 DEF j
    <3> QED
      BY <2>1, <3>1
  <2>6. t[j - a] = t[i]
    <3>1. j - a = i
      BY <1>1 DEF j
    <3> QED
      BY <3>1
  <2> QED
    BY <2>4, <2>5, <2>6
<1>7. r = t
  BY <1>4, <1>5, <1>6, SeqEqual DEF b
<1> QED
  BY <1>2, <1>7 DEF r, q, a

\* A kernel that refuses leaves the text of the call, or drops nothing.
LEMMA RefuseStep ==
  ASSUME OutShape, Out!KernelRefuses
  PROVE  OutShape' /\ (Stream!Deliver \/ Stream!Refuse)
<1> DEFINE all == bytes(Source, vecs, Len(vecs))
<1>1. /\ pc # "idle" /\ UNCHANGED <<use_writev, auto_flush, memory, used, pc, waiting>>
      /\ vecs' = << >> /\ kernel' = [got |-> << >>, failed |-> all # << >>]
  BY QueueIs DEF Out!KernelRefuses
<1>2. Source' = Source /\ Pending' = Pending /\ Out!Capacity' = Out!Capacity
  BY <1>1 DEF Source, Pending, Out!Capacity
<1>3. all \in Seq(Characters) /\ Pending \in Seq(Characters)
  BY SourceIsText
<1>4. OutShape'
  <2>1. << >> \in Seq(Vector) /\ Adjacent(<< >>, Len(Source))
    BY EmptySeq DEF Adjacent
  <2> QED
    BY <1>1, <1>2, <2>1 DEF OutShape
<1>5. Out!Queue = all \o Pending /\ Out!Queue' = Pending
  <2>1. [j \in 1 .. 0 |-> SubSeq(Source, vecs'[j].base, stop(vecs', j))] = << >> /\ Len(vecs') = 0
    BY <1>1
  <2>2. bytes(Source, vecs', Len(vecs')) = << >>
    BY <2>1, FlattenedTexts DEF bytes
  <2> QED
    BY <1>2, <1>3, <2>2, QueueIs, ConcatEmptySeq
<1>6. CASE all = << >>
  <2>1. kernel' = [got |-> << >>, failed |-> FALSE] /\ Out!Queue = << >> \o Out!Queue'
    BY <1>1, <1>5, <1>6
  <2> QED
    BY <1>4, <2>1 DEF Stream!Deliver
<1>7. CASE all # << >>
  <2> DEFINE n == Len(all)
             q == all \o Pending
  <2>1. n \in Nat /\ Len(Pending) \in Nat
    BY <1>3, LenProperties
  <2> HIDE DEF all
  <2>2. q \in Seq(Characters) /\ Len(q) = n + Len(Pending)
    BY <1>3, ConcatProperties
  <2>3. SubSeq(q, n + 1, Len(q)) = Pending
    BY <1>3, <2>1, <2>2, BehindIsLeft
  <2>4. n \in 0 .. Len(q)
    BY <2>1, <2>2
  <2>5. kernel' = [got |-> << >>, failed |-> TRUE]
    BY <1>1, <1>7
  <2> QED
    BY <1>4, <1>5, <2>3, <2>4, <2>5 DEF Stream!Refuse
<1> QED
  BY <1>6, <1>7

\* Without vectors nothing but the text of the call is left.
LEMMA QueueWithoutVectors ==
  ASSUME vecs = << >>, Pending \in Seq(Characters)
  PROVE  Out!Queue = Pending
<1>1. Len(vecs) = 0 /\ [j \in 1 .. 0 |-> SubSeq(Source, vecs[j].base, stop(vecs, j))] = << >>
  OBVIOUS
<1>2. bytes(Source, vecs, Len(vecs)) = << >>
  BY <1>1, FlattenedTexts DEF bytes
<1> QED
  BY <1>2, QueueIs, ConcatEmptySeq

\* The end of a flush moves no byte: the text of the call is added.
LEMMA EndStep ==
  ASSUME OutShape, Out!FlushEnds
  PROVE  OutShape' /\ Stream!Deliver
<1>1. /\ pc \in {"flush", "direct"} /\ vecs = << >> /\ kernel' = Out!Quiet
      /\ use_writev' = use_writev
  BY DEF Out!FlushEnds, OutShape
<1>2. Out!Queue = Pending /\ Pending \in Seq(Characters)
  BY <1>1, SourceIsText, QueueWithoutVectors
<1>3. Out!Capacity' = Out!Capacity /\ Out!Capacity \in Nat
  BY <1>1, CapacityIsNumber DEF Out!Capacity
<1>4. memory \in [1 .. Out!Capacity -> Characters] /\ memory \in Seq(Characters)
  BY SourceIsText DEF OutShape
<1> SUFFICES OutShape' /\ Out!Queue = << >> \o Out!Queue'
  BY <1>1 DEF Stream!Deliver, Out!Quiet
<1>5. CASE pc = "direct" \/ waiting = << >>
  <2>1. /\ used' = 0 /\ pc' = "idle" /\ waiting' = << >> /\ memory' = memory /\ vecs' = << >>
    BY <1>1, <1>5 DEF Out!FlushEnds
  <2>2. Source' = memory /\ Pending' = << >>
    BY <2>1 DEF Source, Pending
  <2>3. << >> \in Seq(Vector) /\ Adjacent(<< >>, Len(memory)) /\ Covers(<< >>, 0)
    BY EmptySeq DEF Adjacent, Covers
  <2>4. OutShape'
    BY <1>3, <1>4, <2>1, <2>2, <2>3 DEF OutShape
  <2>5. Pending = << >>
    BY <1>5, FlattenedTexts DEF Pending
  <2>6. Out!Queue' = << >>
    <3>1. /\ Len(vecs') = 0
          /\ [j \in 1 .. 0 |-> SubSeq(Source', vecs'[j].base, stop(vecs', j))] = << >>
      BY <2>1
    <3>2. bytes(Source', vecs', Len(vecs')) = << >>
      BY <3>1, FlattenedTexts DEF bytes
    <3> QED
      BY <2>2, <3>2, QueueIs, EmptySeq, ConcatEmptySeq
  <2> QED
    BY <1>2, <2>4, <2>5, <2>6, ConcatEmptySeq
<1>6. CASE ~(pc = "direct" \/ waiting = << >>)
  <2>1. PICK text \in Written : waiting = <<text>>
    BY <1>6 DEF OutShape
  <2>2. waiting[1] = text /\ pc = "flush"
    BY <1>1, <1>6, <2>1
  <2>3. text \in Seq(Characters) /\ Len(text) \in Nat
    BY OutputAssumption, LenProperties
  <2>4. Out!Queue = text
    BY <1>2, <2>1, <2>2, FlattenedTexts DEF Pending
  <2>5. CASE Len(text) > Out!Capacity
    <3>1. Out!write_direct(text)
      BY <1>6, <2>2, <2>5 DEF Out!FlushEnds
    <3> QED
      BY <1>1, <1>4, <2>3, <2>4, <3>1, DirectOutcome, ConcatEmptySeq
  <2>6. CASE ~(Len(text) > Out!Capacity)
    <3>1. Out!add(text, << >>, 0)
      BY <1>6, <2>2, <2>6 DEF Out!FlushEnds
    <3>2. /\ << >> \in Seq(Vector) /\ Adjacent(<< >>, Out!Capacity) /\ Covers(<< >>, 0)
          /\ 0 + Len(text) <= Out!Capacity
      BY <1>3, <2>3, <2>6, EmptySeq DEF Adjacent, Covers
    <3>3. OutShape' /\ Out!Queue' = SubSeq(memory, 1, 0) \o text
      BY <1>1, <1>4, <3>1, <3>2, AddOutcome
    <3>4. SubSeq(memory, 1, 0) = << >>
      BY SubSeqEmpty
    <3> QED
      BY <2>3, <2>4, <3>3, <3>4, ConcatEmptySeq
  <2> QED
    BY <2>5, <2>6
<1> QED
  BY <1>5, <1>6

\* Each step of the output buffer is a step of the stream.
LEMMA OutputStep ==
  ASSUME OutShape, Out!Next
  PROVE  OutShape' /\ Stream!Next
<1>1. ASSUME NEW text \in Written, Out!tui_write(text)
      PROVE  OutShape' /\ Stream!Next
  BY <1>1, WriteStep DEF Stream!Next
<1>2. CASE \/ \E enable \in BOOLEAN : Out!tui_flush(enable)
           \/ \E enabled \in BOOLEAN : Out!tui_set_auto_flush(enabled)
  BY <1>2, SwitchStep DEF Stream!Next
<1>3. CASE Out!KernelTakes
  BY <1>3, KernelStep DEF Stream!Next
<1>4. CASE Out!KernelRefuses
  BY <1>4, RefuseStep DEF Stream!Next
<1>5. CASE Out!FlushEnds
  BY <1>5, EndStep DEF Stream!Next
<1> QED
  BY <1>1, <1>2, <1>3, <1>4, <1>5 DEF Out!Next

-----------------------------------------------------------------------------
(***************************************************************************)
(* The output buffer implements the byte stream.                           *)
(***************************************************************************)
\* The output buffer has its shape while it runs.
OutInv == running_program = "output" => OutShape

\* It has it at the start, and nothing is queued.
LEMMA OutputInitially ==
  ASSUME TextInit
  PROVE  OutInv /\ Stream!Init
<1>1. vecs = << >> /\ pc = "idle" /\ waiting = << >> /\ kernel = Out!Quiet
  BY DEF TextInit, OutOff, Out!Init
<1>2. Pending = << >> /\ Source = memory
  BY <1>1 DEF Pending, Source
<1>3. Stream!Init
  BY <1>1, <1>2, QueueWithoutVectors, EmptySeq DEF Stream!Init, Stream!Quiet, Out!Quiet
<1>4. ASSUME running_program = "output"
      PROVE  OutShape
  <2>1. memory = [i \in 1 .. Out!Capacity |-> 0] /\ used = 0
    BY <1>4 DEF TextInit, Out!Init
  <2>2. memory \in [1 .. Out!Capacity -> Characters]
    BY <2>1 DEF Characters
  <2>3. << >> \in Seq(Vector) /\ Adjacent(<< >>, Len(memory)) /\ Covers(<< >>, 0)
    BY EmptySeq DEF Adjacent, Covers
  <2> QED
    BY <1>1, <1>2, <2>1, <2>2, <2>3, CapacityIsNumber DEF OutShape
<1> QED
  BY <1>3, <1>4 DEF OutInv

\* It keeps it, and every step maps to a step of the stream or to none.
LEMMA OutputInvariance ==
  ASSUME OutInv, [TextNext]_all_vars
  PROVE  OutInv' /\ [Stream!Next]_(Stream!vars)
<1>1. CASE RunOutput
  <2>1. running_program = "output" /\ running_program' = "output" /\ Out!Next
    BY <1>1 DEF RunOutput
  <2> QED
    BY <2>1, OutputStep DEF OutInv
<1>2. CASE UNCHANGED <<running_program, out_vars>>
  <2>1. /\ running_program' = running_program
        /\ UNCHANGED <<use_writev, auto_flush, memory, used, vecs, pc, waiting, kernel>>
    BY <1>2 DEF out_vars
  <2>2. Source' = Source /\ Pending' = Pending /\ Out!Capacity' = Out!Capacity
    BY <2>1 DEF Source, Pending, Out!Capacity
  <2>3. Out!Queue' = Out!Queue
    BY <2>1, <2>2, QueueIs
  <2>4. OutInv'
    BY <2>1, <2>2 DEF OutInv, OutShape
  <2> QED
    BY <2>1, <2>3, <2>4 DEF Stream!vars
<1>3. RunEcho \/ RunShell \/ RunScreen \/ UNCHANGED all_vars
        => UNCHANGED <<running_program, out_vars>>
  BY DEF RunEcho, RunShell, RunScreen, all_vars
<1> QED
  BY <1>1, <1>2, <1>3 DEF TextNext

\* Adding a text to vectors that are not as many as the table holds, or to none, leaves no
\* more than it holds.
LEMMA OneMoreVector ==
  ASSUME NEW text, NEW older \in Seq(Vector), NEW n, Out!add(text, older, n),
         older = << >> \/ ~(use_writev /\ Len(older) >= MAX_IOVECS)
  PROVE  Len(vecs') <= MAX_IOVECS
<1> DEFINE appended == Append(older, [base |-> n + 1, len |-> Len(text)])
           single == <<[base |-> 1, len |-> n + Len(text)]>>
<1>1. vecs' = IF use_writev THEN appended ELSE IF n + Len(text) = 0 THEN << >> ELSE single
  BY DEF Out!add
<1>2. Len(<< >>) = 0 /\ Len(single) = 1
  OBVIOUS
<1>3. Len(older) \in Nat /\ Len(appended) = Len(older) + 1
  <2> DEFINE v == [base |-> n + 1, len |-> Len(text)]
  <2> HIDE DEF v
  <2>1. older \in Seq(Vector \cup {v}) /\ v \in Vector \cup {v}
    OBVIOUS
  <2>2. Len(Append(older, v)) = Len(older) + 1
    BY <2>1, AppendProperties
  <2> QED
    BY <2>2, LenProperties DEF v
<1>4. MAX_IOVECS \in Nat /\ MAX_IOVECS >= 1
  BY OutputAssumption
<1> HIDE DEF appended, single
<1>5. CASE use_writev
  BY <1>1, <1>2, <1>3, <1>4, <1>5
<1>6. CASE ~use_writev
  <2>1. vecs' = << >> \/ vecs' = single
    BY <1>1, <1>6
  <2>2. CASE vecs' = << >>
    <3>1. Len(vecs') = 0
      BY <2>2
    <3> QED
      BY <1>4, <3>1
  <2>3. CASE vecs' = single
    <3>1. Len(vecs') = 1
      BY <1>2, <2>3
    <3> QED
      BY <1>4, <3>1
  <2> QED
    BY <2>1, <2>2, <2>3
<1> QED
  BY <1>5, <1>6

\* The table of vectors is never overrun.
FewVectors == running_program = "output" => Len(vecs) <= MAX_IOVECS

LEMMA VectorsStayFew ==
  ASSUME OutInv, FewVectors, [TextNext]_all_vars
  PROVE  FewVectors'
<1>1. CASE running_program = "output" /\ Out!Next /\ running_program' = running_program
  <2> SUFFICES Len(vecs') <= MAX_IOVECS
    BY DEF FewVectors
  <2>1. OutShape /\ vecs \in Seq(Vector) /\ Len(vecs) <= MAX_IOVECS /\ MAX_IOVECS >= 1
    BY <1>1, OutputAssumption DEF OutInv, OutShape, FewVectors
  <2>2. ASSUME NEW text, Out!write_direct(text)
        PROVE  Len(vecs') <= MAX_IOVECS
    <3>1. vecs' = <<[base |-> 1, len |-> Len(text)]>>
      BY <2>2 DEF Out!write_direct
    <3>2. Len(vecs') = 1
      BY <3>1
    <3> QED
      BY <2>1, <3>2
  <2>3. ASSUME NEW text \in Written, Out!tui_write(text)
        PROVE  Len(vecs') <= MAX_IOVECS
    <3>1. CASE Out!full(text) /\ vecs # << >>
      BY <2>1, <2>3, <3>1 DEF Out!tui_write
    <3>2. CASE Out!write_direct(text)
      BY <2>2, <3>2
    <3>3. CASE ~(Out!full(text) /\ vecs # << >>) /\ Out!add(text, vecs, used)
      <4>1. vecs = << >> \/ ~(use_writev /\ Len(vecs) >= MAX_IOVECS)
        BY <3>3 DEF Out!full
      <4> QED
        BY <2>1, <3>3, <4>1, OneMoreVector
    <3> QED
      BY <2>3, <3>1, <3>2, <3>3 DEF Out!tui_write
  <2>4. CASE \/ \E enable \in BOOLEAN : Out!tui_flush(enable)
             \/ \E enabled \in BOOLEAN : Out!tui_set_auto_flush(enabled)
    <3>1. vecs' = vecs
      BY <2>4 DEF Out!tui_flush, Out!tui_set_auto_flush
    <3> QED
      BY <2>1, <3>1
  <2>5. CASE Out!KernelTakes
    <3>1. Len(vecs') <= Len(vecs) /\ vecs' \in Seq(Vector)
      BY <2>1, <2>5, KernelStep DEF OutShape
    <3>2. Len(vecs) \in Nat /\ Len(vecs') \in Nat /\ MAX_IOVECS \in Nat
      BY <2>1, <3>1, LenProperties, OutputAssumption
    <3> QED
      BY <2>1, <3>1, <3>2
  <2>6. CASE Out!KernelRefuses
    <3>1. vecs' = << >>
      BY <2>6 DEF Out!KernelRefuses
    <3>2. Len(vecs') = 0
      BY <3>1
    <3> QED
      BY <2>1, <3>2, OutputAssumption
  <2>7. CASE Out!FlushEnds
    <3>1. vecs = << >>
      BY <2>7 DEF Out!FlushEnds
    <3>2. CASE vecs' = vecs
      BY <2>1, <3>2
    <3>3. CASE Out!write_direct(waiting[1])
      BY <2>2, <3>3
    <3>4. CASE Out!add(waiting[1], << >>, 0)
      BY <3>4, EmptySeq, OneMoreVector
    <3> QED
      BY <2>7, <3>2, <3>3, <3>4 DEF Out!FlushEnds
  <2> QED
    BY <1>1, <2>3, <2>4, <2>5, <2>6, <2>7 DEF Out!Next
<1>2. CASE UNCHANGED <<running_program, out_vars>>
  BY <1>2 DEF FewVectors, out_vars
<1>3. RunEcho \/ RunShell \/ RunScreen \/ UNCHANGED all_vars
        => UNCHANGED <<running_program, out_vars>>
  BY DEF RunEcho, RunShell, RunScreen, all_vars
<1>4. RunOutput => running_program = "output" /\ Out!Next /\ running_program' = running_program
  BY DEF RunOutput
<1> QED
  BY <1>1, <1>2, <1>3, <1>4 DEF TextNext

\* The types of the output buffer: no buffer is written, and no vector points, behind its
\* end, and no vector lies behind the end of the table.
LEMMA OutputTyped ==
  TextSpec => [](running_program = "output" => Out!TypeOK)
<1>1. TextInit => OutInv /\ FewVectors
  <2>1. TextInit => vecs = << >>
    BY DEF TextInit, OutOff, Out!Init
  <2>2. TextInit => Len(vecs) = 0
    BY <2>1
  <2> QED
    BY <2>2, OutputInitially, OutputAssumption DEF FewVectors
<1>2. OutInv /\ FewVectors /\ [TextNext]_all_vars => (OutInv /\ FewVectors)'
  BY OutputInvariance, VectorsStayFew
<1>3. OutInv /\ FewVectors => (running_program = "output" => Out!TypeOK)
  <2> SUFFICES ASSUME OutShape, Len(vecs) <= MAX_IOVECS
               PROVE  Out!TypeOK
    BY DEF OutInv, FewVectors
  <2>1. ASSUME NEW i \in DOMAIN vecs, pc # "direct"
        PROVE  vecs[i].base + vecs[i].len - 1 <= Out!Capacity
    <3>1. memory \in Seq(Characters) /\ Len(memory) = Out!Capacity /\ Source = memory
      BY <2>1, CapacityIsNumber, LenProperties DEF OutShape, Source
    <3>2. i \in 1 .. Len(vecs) /\ stop(vecs, i) <= Out!Capacity
      BY <3>1, LenProperties DEF OutShape, Adjacent
    <3> QED
      BY <3>2 DEF stop
  <2> QED
    BY <2>1 DEF OutShape, Out!TypeOK
<1> QED
  BY <1>1, <1>2, <1>3, PTL DEF TextSpec

\* WritesArriveInOrder: whatever is written, however the sizes and thresholds are
\* chosen, and however little the kernel takes at a time, each byte reaches the
\* terminal once and in order, unless the kernel refuses; then only bytes that it
\* still had to take are missing (tui copy.c:777-1018).
THEOREM StreamImplemented == TextSpec => WritesArriveInOrder
<1>1. TextInit => OutInv /\ Stream!Init
  BY OutputInitially
<1>2. OutInv /\ [TextNext]_all_vars => OutInv' /\ [Stream!Next]_(Stream!vars)
  BY OutputInvariance
<1> QED
  BY <1>1, <1>2, PTL DEF TextSpec, WritesArriveInOrder, Stream!Spec

\* The largest member of a set.
Largest(S) == CHOOSE x \in S : \A y \in S : x >= y

\* A step of a fold keeps to a set.
Closed(F, n, X) == \A a \in X : \A i \in 1 .. n : F[<<a, i>>] \in X

\* Folding over 1 .. n as the library does it, over the subsets, and a recursion
\* over 0 .. n.
Folds(g, F, n, base, X) ==
  /\ g[{}] = base
  /\ \A s \in SUBSET (1 .. n) : s # {} /\ g[s \ {Largest(s)}] \in X
       => g[s] = F[<<g[s \ {Largest(s)}], Largest(s)>>]
Unfolds(h, g, F, n, base) ==
  /\ h[0] = base /\ h[n] = g[1 .. n]
  /\ \A i \in 1 .. n : h[i] = F[<<h[i - 1], i>>]
Recurs(h, F, n, base) == h[0] = base /\ \A i \in 1 .. n : h[i] = F[<<h[i - 1], i>>]

\* A set of numbers up to n has a largest member.
LEMMA LargestExists ==
  ASSUME NEW n \in Nat, NEW S \in SUBSET (1 .. n), S # {}
  PROVE  Largest(S) \in S /\ \A y \in S : Largest(S) >= y
<1> DEFINE T == {n - x : x \in S}
<1>0. PICK a \in S : TRUE
  OBVIOUS
<1>1. T \subseteq Nat /\ n - a \in T
  OBVIOUS
<1> HIDE DEF T
<1>2. PICK t \in T : \A u \in T : t <= u
  BY <1>1, LeastElement
<1>3. PICK x \in S : t = n - x
  BY DEF T
<1>4. \A y \in S : x >= y
  <2> SUFFICES ASSUME NEW y \in S PROVE x >= y
    OBVIOUS
  <2>1. t <= n - y
    BY <1>2 DEF T
  <2>2. x \in Int /\ y \in Int
    OBVIOUS
  <2> QED
    BY <1>3, <2>1, <2>2
<1> QED
  BY <1>4 DEF Largest

\* The fold exists.
LEMMA FoldExists ==
  ASSUME NEW X, NEW n \in Nat, NEW base \in X, NEW F, Closed(F, n, X)
  PROVE  \E g \in [SUBSET (1 .. n) -> X] : Folds(g, F, n, base, X)
<1> DEFINE Fold(g, m) == g \in [SUBSET (1 .. m) -> X] /\ Folds(g, F, m, base, X)
           S == {m \in Nat : m <= n => \E g : Fold(g, m)}
<1> USE DEF Folds, Closed
<1>1. 0 \in S
  <2>1. SUBSET (1 .. 0) = {{}}
    OBVIOUS
  <2>2. Fold([s \in SUBSET (1 .. 0) |-> base], 0)
    BY <2>1
  <2> QED
    BY <2>2
<1> HIDE DEF Fold
<1>2. ASSUME NEW m \in Nat, m \in S
      PROVE  m + 1 \in S
  <2> SUFFICES ASSUME m + 1 <= n PROVE \E g : Fold(g, m + 1)
    OBVIOUS
  <2>1. PICK g : Fold(g, m)
    BY <1>2
  <2> USE DEF Fold
  <2> DEFINE h == [s \in SUBSET (1 .. m + 1) |->
                     IF m + 1 \in s THEN F[<<g[s \ {m + 1}], m + 1>>] ELSE g[s]]
  <2>2. ASSUME NEW s \in SUBSET (1 .. m + 1)
        PROVE  /\ h[s] \in X
               /\ s = {} => h[s] = base
               /\ s # {} => h[s] = F[<<h[s \ {Largest(s)}], Largest(s)>>]
    <3>1. h[s] = IF m + 1 \in s THEN F[<<g[s \ {m + 1}], m + 1>>] ELSE g[s]
      OBVIOUS
    <3>2. CASE m + 1 \in s
      <4>1. s # {} /\ Largest(s) \in s /\ \A y \in s : Largest(s) >= y
        BY <3>2, LargestExists
      <4>2. Largest(s) = m + 1
        <5>1. Largest(s) >= m + 1 /\ Largest(s) \in 1 .. m + 1
          BY <3>2, <4>1
        <5> QED
          BY <5>1
      <4>3. s \ {m + 1} \in SUBSET (1 .. m) /\ s \ {m + 1} \in SUBSET (1 .. m + 1)
        OBVIOUS
      <4>4. h[s \ {m + 1}] = g[s \ {m + 1}] /\ g[s \ {m + 1}] \in X
        BY <2>1, <4>3
      <4>5. m + 1 \in 1 .. n
        OBVIOUS
      <4>6. F[<<g[s \ {m + 1}], m + 1>>] \in X
        BY <4>4, <4>5
      <4> QED
        BY <3>1, <3>2, <4>1, <4>2, <4>4, <4>6
    <3>3. CASE m + 1 \notin s
      <4>1. s \in SUBSET (1 .. m) /\ h[s] = g[s] /\ g[s] \in X
        BY <2>1, <3>1, <3>3
      <4>2. CASE s = {}
        BY <2>1, <4>1, <4>2
      <4>3. CASE s # {}
        <5>1. s \ {Largest(s)} \in SUBSET (1 .. m) /\ m + 1 \notin s \ {Largest(s)}
          BY <3>3, <4>1
        <5>2. h[s \ {Largest(s)}] = g[s \ {Largest(s)}]
          BY <5>1
        <5>3. g[s] = F[<<g[s \ {Largest(s)}], Largest(s)>>]
          BY <2>1, <4>1, <4>3, <5>1
        <5> QED
          BY <4>1, <4>3, <5>2, <5>3
      <4> QED
        BY <4>2, <4>3
    <3> QED
      BY <3>2, <3>3
  <2>3. DOMAIN h = SUBSET (1 .. m + 1) /\ h = [s \in SUBSET (1 .. m + 1) |-> h[s]]
    OBVIOUS
  <2> HIDE DEF h
  <2>4. h \in [SUBSET (1 .. m + 1) -> X]
    BY <2>2, <2>3
  <2>5. Fold(h, m + 1)
    BY <2>2, <2>4
  <2> HIDE DEF Fold
  <2> QED
    BY <2>5
<1> HIDE DEF S
<1>3. Nat \subseteq S
  BY <1>1, <1>2, Induction
<1>4. \E g : Fold(g, n)
  <2>1. n \in S
    BY <1>3
  <2> QED
    BY <2>1 DEF S
<1> HIDE DEF Folds
<1> QED
  BY <1>4 DEF Fold

\* What is folded over the first i elements goes on step by step.
LEMMA FoldSteps ==
  ASSUME NEW X, NEW n \in Nat, NEW base \in X, NEW F, Closed(F, n, X),
         NEW g, Folds(g, F, n, base, X)
  PROVE  \E h \in [0 .. n -> X] : Unfolds(h, g, F, n, base)
<1> DEFINE S == {i \in Nat : i <= n => g[1 .. i] \in X}
           h == [i \in 0 .. n |-> g[1 .. i]]
<1> USE DEF Folds, Closed
<1>1. g[1 .. 0] = base
  <2>1. 1 .. 0 = {}
    OBVIOUS
  <2> QED
    BY <2>1
<1>2. ASSUME NEW i \in 1 .. n, g[1 .. i - 1] \in X
      PROVE  g[1 .. i] = F[<<g[1 .. i - 1], i>>] /\ g[1 .. i] \in X
  <2>1. 1 .. i \in SUBSET (1 .. n) /\ i \in 1 .. i /\ 1 .. i # {}
    OBVIOUS
  <2>2. Largest(1 .. i) = i
    <3>1. Largest(1 .. i) >= i /\ Largest(1 .. i) \in 1 .. i
      BY LargestExists, <2>1
    <3> QED
      BY <3>1
  <2>3. (1 .. i) \ {i} = 1 .. i - 1
    OBVIOUS
  <2>4. g[1 .. i] = F[<<g[1 .. i - 1], i>>]
    BY <1>2, <2>1, <2>2, <2>3
  <2> QED
    BY <1>2, <2>4
<1>3. ASSUME NEW i \in Nat, i \in S
      PROVE  i + 1 \in S
  <2> SUFFICES ASSUME i + 1 <= n PROVE g[1 .. i + 1] \in X
    OBVIOUS
  <2>1. PICK k \in 1 .. n : k = i + 1
    OBVIOUS
  <2>2. k - 1 = i /\ i <= n
    BY <2>1
  <2>3. g[1 .. k - 1] \in X
    BY <1>3, <2>2
  <2> QED
    BY <1>2, <2>1, <2>3
<1>4. 0 \in S
  BY <1>1
<1> HIDE DEF S
<1>5. Nat \subseteq S
  BY <1>3, <1>4, Induction
<1>6. ASSUME NEW i \in 0 .. n
      PROVE  g[1 .. i] \in X
  <2>1. i \in S
    BY <1>5
  <2> QED
    BY <2>1 DEF S
<1>7. h \in [0 .. n -> X]
  BY <1>6
<1>8. h[0] = base
  <2>1. 0 \in 0 .. n
    OBVIOUS
  <2> QED
    BY <1>1, <2>1
<1>9. ASSUME NEW i \in 1 .. n
      PROVE  h[i] = F[<<h[i - 1], i>>]
  <2>1. i - 1 \in 0 .. n /\ i \in 0 .. n
    OBVIOUS
  <2>2. h[i] = g[1 .. i] /\ h[i - 1] = g[1 .. i - 1]
    BY <2>1
  <2>3. g[1 .. i] = F[<<g[1 .. i - 1], i>>]
    BY <1>2, <1>6, <2>1
  <2> QED
    BY <2>2, <2>3
<1>10. h[n] = g[1 .. n]
  OBVIOUS
<1> HIDE DEF h
<1>11. Unfolds(h, g, F, n, base)
  BY <1>8, <1>9, <1>10 DEF Unfolds
<1> QED
  BY <1>7, <1>11

\* The recursion has a solution.
LEMMA RecursionExists ==
  ASSUME NEW X, NEW n \in Nat, NEW base \in X, NEW F, Closed(F, n, X)
  PROVE  \E h \in [0 .. n -> X] : Recurs(h, F, n, base)
<1>1. PICK g \in [SUBSET (1 .. n) -> X] : Folds(g, F, n, base, X)
  BY FoldExists
<1>2. PICK h \in [0 .. n -> X] : Unfolds(h, g, F, n, base)
  BY <1>1, FoldSteps
<1> QED
  BY <1>2 DEF Recurs, Unfolds

-----------------------------------------------------------------------------
(***************************************************************************)
(* The shell.                                                              *)
(***************************************************************************)
\* uart_puts prints one character after the other.
PutsSteps(h, n, base, seq) ==
  /\ h[0] = base /\ Shell!uart_puts(base, seq) = h[n]
  /\ \A i \in 1 .. n : h[i] = Shell!uart_putc(h[i - 1], seq[i])

\* The fold takes such steps.
LEMMA PutsUnrolled ==
  ASSUME NEW X, NEW seq, NEW n \in Nat, DOMAIN seq = 1 .. n, NEW base \in X,
         \A a \in X : \A i \in 1 .. n : Shell!uart_putc(a, seq[i]) \in X
  PROVE  \E h \in [0 .. n -> X] : PutsSteps(h, n, base, seq)
<1> DEFINE step(a, i) == Shell!uart_putc(a, seq[i])
           F == [p \in X \X (1 .. n) |-> step(p[1], p[2])]
           Solves(g) == g = [s \in SUBSET (1 .. n) |->
                               IF s = {} THEN base
                               ELSE step(g[s \ {Largest(s)}], Largest(s))]
           iter == CHOOSE g : Solves(g)
<1>1. Shell!uart_puts(base, seq) = iter[1 .. n]
  BY DEF Shell!uart_puts, Shell!FoldLeft, Shell!MapThenFoldSet, Shell!Max, Largest
<1>2. \A a \in X : \A i \in 1 .. n : step(a, i) \in X
  OBVIOUS
<1> HIDE DEF step
<1>3. \A a \in X : \A i \in 1 .. n : F[<<a, i>>] = step(a, i)
  OBVIOUS
<1> HIDE DEF F
<1>4. Closed(F, n, X)
  BY <1>2, <1>3 DEF Closed
<1>5. PICK g \in [SUBSET (1 .. n) -> X] : Folds(g, F, n, base, X)
  BY <1>4, FoldExists
<1>6. ASSUME NEW s \in SUBSET (1 .. n), s # {}
      PROVE  Largest(s) \in 1 .. n /\ s \ {Largest(s)} \in SUBSET (1 .. n)
  BY <1>6, LargestExists
<1>7. Solves(g)
  <2> DEFINE all(s) == IF s = {} THEN base ELSE step(g[s \ {Largest(s)}], Largest(s))
  <2>1. ASSUME NEW s \in SUBSET (1 .. n)
        PROVE  g[s] = all(s)
    <3>1. CASE s = {}
      BY <1>5, <3>1 DEF Folds
    <3>2. CASE s # {}
      <4>1. Largest(s) \in 1 .. n /\ g[s \ {Largest(s)}] \in X
        BY <1>6, <3>2
      <4>2. g[s] = F[<<g[s \ {Largest(s)}], Largest(s)>>]
        BY <1>5, <3>2, <4>1 DEF Folds
      <4> QED
        BY <1>3, <3>2, <4>1, <4>2
    <3> QED
      BY <3>1, <3>2
  <2> HIDE DEF all
  <2>2. g = [s \in SUBSET (1 .. n) |-> all(s)]
    BY <2>1
  <2> QED
    BY <2>2 DEF all
<1>8. Solves(iter)
  BY <1>7
<1> HIDE DEF iter
<1>9. Folds(iter, F, n, base, X)
  <2>1. iter[{}] = base
    BY <1>8
  <2>2. ASSUME NEW s \in SUBSET (1 .. n), s # {}, iter[s \ {Largest(s)}] \in X
        PROVE  iter[s] = F[<<iter[s \ {Largest(s)}], Largest(s)>>]
    <3>1. Largest(s) \in 1 .. n
      BY <1>6, <2>2
    <3>2. iter[s] = step(iter[s \ {Largest(s)}], Largest(s))
      BY <1>8, <2>2
    <3> QED
      BY <1>3, <2>2, <3>1, <3>2
  <2> QED
    BY <2>1, <2>2 DEF Folds
<1>10. PICK h \in [0 .. n -> X] : Unfolds(h, iter, F, n, base)
  <2>1. PICK it : it = iter
    OBVIOUS
  <2>2. Folds(it, F, n, base, X)
    BY <1>9, <2>1
  <2>3. \E h \in [0 .. n -> X] : Unfolds(h, it, F, n, base)
    BY <1>4, <2>2, FoldSteps
  <2> QED
    BY <2>1, <2>3
<1>12. h[0] = base
  BY <1>10 DEF Unfolds
<1>13. \A i \in 1 .. n : h[i] = step(h[i - 1], i)
  <2> TAKE i \in 1 .. n
  <2>1. i - 1 \in 0 .. n
    OBVIOUS
  <2>2. h[i] = F[<<h[i - 1], i>>] /\ h[i - 1] \in X
    BY <1>10, <2>1 DEF Unfolds
  <2> QED
    BY <1>3, <2>2
<1>14. Shell!uart_puts(base, seq) = h[n]
  BY <1>1, <1>10 DEF Unfolds
<1> QED
  BY <1>10, <1>12, <1>13, <1>14 DEF step, PutsSteps

\* A line that ends in the buffer.
Ended(line) == line \in Shell!Line /\ line[LINE_BUF_SIZE] = Shell!NUL

\* A blank.
Space == " "

\* The line of the terminal is that of the buffer, and blank behind it.
Echo(row) ==
  row = [i \in 0 .. LINE_BUF_SIZE - 1 |-> IF i < len THEN line_buf[i] ELSE Space]

\* The invariant of the shell.
ShellInv ==
  /\ Ended(line_buf) /\ len \in 0 .. LINE_BUF_SIZE - 1
  /\ term = [row |-> term.row, cursor |-> len] /\ Echo(term.row)

\* From a place of a line on there is a first character of a kind when there is one.
LEMMA FirstExists ==
  ASSUME NEW i \in 0 .. LINE_BUF_SIZE, NEW k \in i .. LINE_BUF_SIZE, NEW P, P[k] = TRUE
  PROVE  \E j \in i .. LINE_BUF_SIZE : P[j] = TRUE /\ \A z \in i .. j - 1 : P[z] # TRUE
<1> DEFINE T == {j \in i .. LINE_BUF_SIZE : P[j] = TRUE}
<1>1. LINE_BUF_SIZE \in Nat
  BY ShellAssumption
<1>2. T \subseteq Nat /\ k \in T
  BY <1>1
<1>3. PICK j \in T : \A z \in T : j <= z
  BY <1>2, LeastElement
<1>4. ASSUME NEW z \in i .. j - 1, P[z] = TRUE
      PROVE  FALSE
  <2>1. z \in T
    BY <1>1, <1>4
  <2>2. j <= z /\ j \in Int
    BY <1>3, <2>1
  <2> QED
    BY <2>2
<1> QED
  BY <1>3, <1>4

\* The first place that holds one of some characters, and the first that holds none.
LEMMA NextIs ==
  ASSUME NEW line, NEW i \in 0 .. LINE_BUF_SIZE, NEW chars, NEW k \in i .. LINE_BUF_SIZE
  PROVE  /\ line[k] \in chars => LET j == Shell!next_of(line, i, chars)
                                 IN j \in i .. LINE_BUF_SIZE /\ line[j] \in chars
         /\ line[k] \notin chars => LET j == Shell!next_not_of(line, i, chars)
                                    IN j \in i .. LINE_BUF_SIZE /\ line[j] \notin chars
<1> DEFINE S == i .. LINE_BUF_SIZE
           P == [x \in S |-> line[x] \in chars]
           Q == [x \in S |-> line[x] \notin chars]
<1>1. \A x \in S : (P[x] = TRUE <=> line[x] \in chars) /\ (Q[x] = TRUE <=> line[x] \notin chars)
  OBVIOUS
<1> HIDE DEF P, Q
<1>2. \A j \in S : \A z \in i .. j - 1 : z \in S
  BY ShellAssumption
<1>3. ASSUME line[k] \in chars
      PROVE  \E j \in S : line[j] \in chars /\ \A z \in i .. j - 1 : line[z] \notin chars
  <2>1. P[k] = TRUE
    BY <1>1, <1>3
  <2>2. \E j \in i .. LINE_BUF_SIZE : P[j] = TRUE /\ \A z \in i .. j - 1 : P[z] # TRUE
    BY <2>1, FirstExists
  <2> QED
    BY <1>1, <1>2, <2>2
<1>4. ASSUME line[k] \notin chars
      PROVE  \E j \in S : line[j] \notin chars /\ \A z \in i .. j - 1 : line[z] \in chars
  <2>1. Q[k] = TRUE
    BY <1>1, <1>4
  <2>2. \E j \in i .. LINE_BUF_SIZE : Q[j] = TRUE /\ \A z \in i .. j - 1 : Q[z] # TRUE
    BY <2>1, FirstExists
  <2> QED
    BY <1>1, <1>2, <2>2
<1> QED
  BY <1>3, <1>4 DEF Shell!next_of, Shell!next_not_of

\* A round of the parser keeps the end of the line and finds a place on it.
Parsings == {s \in [line : Shell!Line, idx : Shell!Index, argv : Seq(Shell!Index)] : Ended(s.line)}

\* The next round starts where this one may.
LEMMA NextParsing ==
  ASSUME NEW s \in Parsings
  PROVE  Shell!next_arg(s) \in Parsings
<1> DEFINE start == Shell!next_not_of(s.line, s.idx, {" "})
           end == Shell!next_of(s.line, start, {" ", Shell!NUL})
           n == LINE_BUF_SIZE
<1>1. /\ s = [line |-> s.line, idx |-> s.idx, argv |-> s.argv]
      /\ s.line \in Shell!Line /\ s.idx \in 0 .. n /\ s.argv \in Seq(Shell!Index)
      /\ s.line[n] = Shell!NUL /\ n \in Nat
  BY ShellAssumption DEF Parsings, Ended, Shell!Index
<1>2. PICK line, idx : line = s.line /\ idx = s.idx
  OBVIOUS
<1>13. idx \in 0 .. n /\ n \in Nat /\ line \in Shell!Line /\ line[n] = Shell!NUL
  BY <1>1, <1>2
<1>3. n \in idx .. n /\ idx \in 0 .. n /\ line[n] \notin {" "}
  <2>1. n \in idx .. n
    BY <1>13
  <2>2. Shell!NUL # " "
    BY DEF Shell!NUL
  <2> QED
    BY <1>13, <2>1, <2>2
<1>4. PICK a : a = start
  OBVIOUS
<1>5. a \in idx .. n
  BY <1>2, <1>3, <1>4, NextIs
<1>6. a \in 0 .. n /\ n \in a .. n /\ line[n] \in {" ", Shell!NUL}
  BY <1>5, <1>13
<1>7. PICK b : b = Shell!next_of(line, a, {" ", Shell!NUL})
  OBVIOUS
<1>8. b \in a .. n
  BY <1>6, <1>7, NextIs
<1>9. b \in 0 .. n
  BY <1>6, <1>8, <1>13
<1>10. Shell!next_arg(s) =
         IF line[a] = Shell!NUL THEN [s EXCEPT !.idx = a]
         ELSE [line |-> [line EXCEPT ![b] = Shell!NUL],
               idx |-> IF line[b] = Shell!NUL THEN b ELSE b + 1,
               argv |-> Append(s.argv, a)]
  BY <1>2, <1>4, <1>7 DEF Shell!next_arg
<1> HIDE DEF start, end
<1>11. CASE line[a] = Shell!NUL
  <2>1. PICK t : t = Shell!next_arg(s)
    OBVIOUS
  <2>2. t = [s EXCEPT !.idx = a]
    BY <1>10, <1>11, <2>1
  <2>3. s \in [line : Shell!Line, idx : Shell!Index, argv : Seq(Shell!Index)]
    BY DEF Parsings
  <2>4. a \in Shell!Index
    BY <1>6 DEF Shell!Index
  <2>5. t \in [line : Shell!Line, idx : Shell!Index, argv : Seq(Shell!Index)] /\ t.line = s.line
    BY <2>2, <2>3, <2>4
  <2> QED
    BY <1>1, <2>1, <2>5 DEF Parsings, Ended
<1>12. CASE line[a] # Shell!NUL
  <2>1. PICK new : new = [line EXCEPT ![b] = Shell!NUL]
    OBVIOUS
  <2>2. new \in Shell!Line /\ new[n] = Shell!NUL
    BY <1>1, <1>2, <1>9, <2>1 DEF Shell!Line, Shell!Index
  <2>3. (IF line[b] = Shell!NUL THEN b ELSE b + 1) \in Shell!Index
    <3>1. line[b] # Shell!NUL => b # n
      BY <1>1, <1>2
    <3> QED
      BY <1>1, <1>9, <3>1 DEF Shell!Index
  <2>4. Append(s.argv, a) \in Seq(Shell!Index)
    <3>1. a \in Shell!Index
      BY <1>6 DEF Shell!Index
    <3> QED
      BY <1>1, <3>1, AppendProperties, SMTT(40)
  <2>5. PICK j, argv : /\ j = IF line[b] = Shell!NUL THEN b ELSE b + 1
                       /\ argv = Append(s.argv, a)
    OBVIOUS
  <2>6. Shell!next_arg(s) = [line |-> new, idx |-> j, argv |-> argv]
    BY <1>10, <1>12, <2>1, <2>5
  <2>7. j \in Shell!Index /\ argv \in Seq(Shell!Index)
    BY <2>3, <2>4, <2>5
  <2> QED
    BY <2>2, <2>6, <2>7 DEF Parsings, Ended
<1> QED
  BY <1>11, <1>12

\* The parser leaves a line that ends.
LEMMA ParsedEnds ==
  ASSUME NEW line, Ended(line)
  PROVE  Ended(Shell!parse_args(line).line)
<1> DEFINE base == [line |-> line, idx |-> 0, argv |-> << >>]
           n == MAX_ARGS
           F == [p \in Parsings \X (1 .. n) |-> Shell!next_arg(p[1])]
           Solves(g) == g = [k \in 0 .. n |-> IF k = 0 THEN base ELSE Shell!next_arg(g[k - 1])]
           round == CHOOSE g : Solves(g)
<1>1. Shell!parse_args(line) = round[n]
  BY DEF Shell!parse_args
<1>2. n \in Nat
  BY ShellAssumption
<1>3. base \in Parsings
  <2>1. 0 \in Shell!Index /\ << >> \in Seq(Shell!Index)
    BY ShellAssumption, EmptySeq DEF Shell!Index
  <2> QED
    BY <2>1 DEF Parsings, Ended
<1>4. \A a \in Parsings : \A i \in 1 .. n : F[<<a, i>>] = Shell!next_arg(a)
  OBVIOUS
<1> HIDE DEF F, base
<1>5. Closed(F, n, Parsings)
  BY <1>4, NextParsing DEF Closed
<1>6. PICK h \in [0 .. n -> Parsings] : Recurs(h, F, n, base)
  BY <1>2, <1>3, <1>5, RecursionExists
<1>7. \A k \in 0 .. n : h[k] = IF k = 0 THEN base ELSE Shell!next_arg(h[k - 1])
  <2> TAKE k \in 0 .. n
  <2>1. CASE k = 0
    BY <1>6, <2>1 DEF Recurs
  <2>2. CASE k # 0
    <3>1. k \in 1 .. n /\ k - 1 \in 0 .. n
      BY <1>2, <2>2
    <3>2. h[k] = F[<<h[k - 1], k>>] /\ h[k - 1] \in Parsings
      BY <1>6, <3>1 DEF Recurs
    <3> QED
      BY <1>4, <2>2, <3>1, <3>2
  <2> QED
    BY <2>1, <2>2
<1>8. Solves(h)
  BY <1>7
<1>9. Solves(round)
  BY <1>8
<1> HIDE DEF round
<1> DEFINE S == {k \in Nat : k <= n => round[k] \in Parsings}
<1>10. 0 \in S
  BY <1>2, <1>3, <1>9
<1>11. ASSUME NEW k \in Nat, k \in S
       PROVE  k + 1 \in S
  <2> SUFFICES ASSUME k + 1 <= n PROVE round[k + 1] \in Parsings
    OBVIOUS
  <2>1. PICK j \in 0 .. n : j = k + 1 /\ j # 0 /\ j - 1 = k
    BY <1>2
  <2>2. round[j] = Shell!next_arg(round[j - 1])
    BY <1>9, <2>1
  <2>3. round[k] \in Parsings
    BY <1>2, <1>11
  <2> QED
    BY <2>1, <2>2, <2>3, NextParsing
<1> HIDE DEF S
<1>12. Nat \subseteq S
  BY <1>10, <1>11, Induction
<1>13. round[n] \in Parsings
  <2>1. n \in S
    BY <1>2, <1>12
  <2> QED
    BY <1>2, <2>1 DEF S
<1> QED
  BY <1>1, <1>13 DEF Parsings

\* A key is echoed.
LEMMA KeyEchoed ==
  ASSUME ShellInv, NEW c \in Printable, Shell!PrintableKey(c)
  PROVE  ShellInv'
<1> DEFINE n == LINE_BUF_SIZE
<1>1. n \in Nat /\ c # "BS"
  BY ShellAssumption
<1>2. /\ len \in 0 .. n - 2 /\ len' = len + 1 /\ line_buf' = [line_buf EXCEPT ![len] = c]
      /\ term' = [row |-> [term.row EXCEPT ![len] = c], cursor |-> len + 1]
  <2>1. /\ len \in 0 .. n - 1 /\ len < n - 1 /\ len' = len + 1
        /\ line_buf' = [line_buf EXCEPT ![len] = c]
    BY DEF Shell!PrintableKey, ShellInv
  <2>2. term' = [row |-> [term.row EXCEPT ![term.cursor] = c], cursor |-> term.cursor + 1]
    BY <1>1 DEF Shell!PrintableKey, Shell!uart_putc
  <2>3. term.cursor = len
    BY DEF ShellInv
  <2> QED
    BY <1>1, <2>1, <2>2, <2>3
<1>3. line_buf \in Shell!Line /\ line_buf[n] = Shell!NUL /\ Echo(term.row)
  BY DEF ShellInv, Ended
<1>4. Ended(line_buf)'
  BY <1>1, <1>2, <1>3 DEF Ended, Shell!Line, Shell!Index
<1>5. PICK row : row = [term.row EXCEPT ![len] = c]
  OBVIOUS
<1>6. row = [i \in 0 .. n - 1 |-> IF i < len + 1 THEN line_buf'[i] ELSE Space]
  <2>1. DOMAIN line_buf = 0 .. n
    BY <1>3 DEF Shell!Line, Shell!Index
  <2>2. \A i \in 0 .. n - 1 : line_buf'[i] = IF i = len THEN c ELSE line_buf[i]
    BY <1>1, <1>2, <2>1
  <2>3. term.row = [i \in 0 .. n - 1 |-> IF i < len THEN line_buf[i] ELSE Space]
    BY <1>3 DEF Echo
  <2>4. \A i \in 0 .. n - 1 : row[i] = IF i = len THEN c ELSE term.row[i]
    BY <1>5, <2>3
  <2>5. DOMAIN row = 0 .. n - 1 /\ row = [i \in 0 .. n - 1 |-> row[i]]
    BY <1>5, <2>3
  <2>6. ASSUME NEW i \in 0 .. n - 1
        PROVE  row[i] = IF i < len + 1 THEN line_buf'[i] ELSE Space
    <3>1. i \in Int /\ len \in Int
      BY <1>1, <1>2
    <3>2. i < len + 1 <=> (i = len \/ i < len)
      BY <3>1
    <3>3. row[i] = IF i = len THEN c ELSE IF i < len THEN line_buf[i] ELSE Space
      BY <2>3, <2>4
    <3> QED
      BY <2>2, <3>2, <3>3
  <2> QED
    BY <2>5, <2>6
<1>7. Echo(term.row)'
  BY <1>2, <1>5, <1>6 DEF Echo
<1>8. len' \in 0 .. n - 1
  BY <1>1, <1>2
<1> QED
  BY <1>2, <1>4, <1>7, <1>8 DEF ShellInv

\* What a backspace sends moves the cursor back over a blank.
LEMMA WipedOut ==
  ASSUME NEW n \in Nat, NEW k \in 0 .. n - 1, NEW X, Space \in X, NEW row \in [0 .. n - 1 -> X]
  PROVE  Shell!uart_puts([row |-> row, cursor |-> k + 1], <<"BS", Space, "BS">>)
           = [row |-> [row EXCEPT ![k] = Space], cursor |-> k]
<1> DEFINE Lines == [0 .. n - 1 -> X]
           new == [row EXCEPT ![k] = Space]
           T == {[row |-> r, cursor |-> c] : r \in Lines, c \in Nat}
           base == [row |-> row, cursor |-> k + 1]
           seq == <<"BS", Space, "BS">>
<1>1. k \in Nat /\ k + 1 \in Nat /\ k + 1 # 0 /\ k + 1 - 1 = k
  OBVIOUS
<1>2. new \in Lines
  OBVIOUS
<1>3. ASSUME NEW r \in Lines, NEW c \in Nat
      PROVE  [r EXCEPT ![c] = Space] \in Lines
  OBVIOUS
<1> HIDE DEF Lines, new
<1>4. ASSUME NEW r, NEW c \in Nat, c # 0
      PROVE  Shell!uart_putc([row |-> r, cursor |-> c], "BS") = [row |-> r, cursor |-> c - 1]
  BY <1>4 DEF Shell!uart_putc
<1>5. ASSUME NEW r
      PROVE  Shell!uart_putc([row |-> r, cursor |-> 0], "BS") = [row |-> r, cursor |-> 0]
  BY DEF Shell!uart_putc
<1>6. ASSUME NEW r, NEW c \in Nat
      PROVE  Shell!uart_putc([row |-> r, cursor |-> c], Space)
               = [row |-> [r EXCEPT ![c] = Space], cursor |-> c + 1]
  <2>1. Space # "BS"
    BY DEF Space
  <2> QED
    BY <2>1 DEF Shell!uart_putc
<1>7. ASSUME NEW r \in Lines, NEW c \in Nat
      PROVE  /\ Shell!uart_putc([row |-> r, cursor |-> c], "BS") \in T
             /\ Shell!uart_putc([row |-> r, cursor |-> c], Space) \in T
  <2>1. c + 1 \in Nat /\ (c # 0 => c - 1 \in Nat)
    OBVIOUS
  <2>2. c # 0 => Shell!uart_putc([row |-> r, cursor |-> c], "BS") \in T
    BY <1>4, <2>1
  <2>3. c = 0 => Shell!uart_putc([row |-> r, cursor |-> c], "BS") \in T
    BY <1>5
  <2>4. Shell!uart_putc([row |-> r, cursor |-> c], Space) \in T
    <3>1. PICK q, d : q = [r EXCEPT ![c] = Space] /\ d = c + 1
      OBVIOUS
    <3>2. q \in Lines /\ d \in Nat
      BY <1>3, <2>1, <3>1
    <3>3. [row |-> q, cursor |-> d] \in T
      BY <3>2
    <3> QED
      BY <1>6, <3>1, <3>3
  <2> HIDE DEF T
  <2> QED
    BY <2>2, <2>3, <2>4
<1>8. ASSUME NEW a \in T
      PROVE  Shell!uart_putc(a, "BS") \in T /\ Shell!uart_putc(a, Space) \in T
  <2>1. PICK r \in Lines, c \in Nat : a = [row |-> r, cursor |-> c]
    OBVIOUS
  <2> HIDE DEF T
  <2>2. /\ Shell!uart_putc([row |-> r, cursor |-> c], "BS") \in T
        /\ Shell!uart_putc([row |-> r, cursor |-> c], Space) \in T
    BY <1>7
  <2> QED
    BY <2>1, <2>2
<1>9. base \in T
  BY <1>1 DEF Lines
<1>10. PICK t : t = base
  OBVIOUS
<1>11. PICK s : s = seq
  OBVIOUS
<1>12. DOMAIN s = 1 .. 3 /\ s[1] = "BS" /\ s[2] = Space /\ s[3] = "BS"
  BY <1>11
<1> HIDE DEF T, base, seq
<1>13. PICK m \in Nat : m = 3
  OBVIOUS
<1>14. /\ DOMAIN s = 1 .. m /\ s[1] = "BS" /\ s[2] = Space /\ s[3] = "BS"
       /\ 1 \in 1 .. m /\ 2 \in 1 .. m /\ 3 \in 1 .. m
  BY <1>12, <1>13
<1>15. \A a \in T : \A i \in 1 .. m : Shell!uart_putc(a, s[i]) \in T
  <2>1. \A i \in 1 .. m : i = 1 \/ i = 2 \/ i = 3
    BY <1>13
  <2>2. \A i \in 1 .. m : s[i] = "BS" \/ s[i] = Space
    BY <1>14, <2>1
  <2> QED
    BY <1>8, <2>2
<1>16. t \in T
  BY <1>9, <1>10
<1>17. PICK h \in [0 .. m -> T] : PutsSteps(h, m, t, s)
  BY <1>14, <1>15, <1>16, PutsUnrolled
<1>18. /\ h[0] = t /\ Shell!uart_puts(t, s) = h[m]
       /\ \A i \in 1 .. m : h[i] = Shell!uart_putc(h[i - 1], s[i])
  BY <1>17 DEF PutsSteps
<1>19. /\ h[1] = Shell!uart_putc(h[0], "BS") /\ h[2] = Shell!uart_putc(h[1], Space)
       /\ h[3] = Shell!uart_putc(h[2], "BS")
  <2>1. /\ h[1] = Shell!uart_putc(h[1 - 1], s[1]) /\ h[2] = Shell!uart_putc(h[2 - 1], s[2])
        /\ h[3] = Shell!uart_putc(h[3 - 1], s[3])
    BY <1>14, <1>18
  <2>2. 1 - 1 = 0 /\ 2 - 1 = 1 /\ 3 - 1 = 2
    OBVIOUS
  <2> QED
    BY <1>14, <2>1, <2>2
<1>20. PICK c \in Nat : c = k + 1 /\ c # 0 /\ c - 1 = k
  BY <1>1
<1>21. h[1] = [row |-> row, cursor |-> k]
  <2>1. h[0] = [row |-> row, cursor |-> c]
    BY <1>10, <1>18, <1>20 DEF base
  <2>2. Shell!uart_putc([row |-> row, cursor |-> c], "BS") = [row |-> row, cursor |-> k]
    BY <1>4, <1>20
  <2> QED
    BY <1>19, <2>1, <2>2
<1>22. h[2] = [row |-> new, cursor |-> c]
  <2>1. Shell!uart_putc([row |-> row, cursor |-> k], Space)
          = [row |-> [row EXCEPT ![k] = Space], cursor |-> k + 1]
    BY <1>1, <1>6
  <2> QED
    BY <1>19, <1>20, <1>21, <2>1 DEF new
<1>23. h[3] = [row |-> new, cursor |-> k]
  <2>1. Shell!uart_putc([row |-> new, cursor |-> c], "BS") = [row |-> new, cursor |-> k]
    BY <1>4, <1>20
  <2> QED
    BY <1>19, <1>22, <2>1
<1> QED
  BY <1>10, <1>11, <1>13, <1>18, <1>23 DEF base, seq, new

\* A backspace wipes the last character out.
LEMMA BackspaceEchoed ==
  ASSUME ShellInv, Shell!Backspace
  PROVE  ShellInv'
<1>1. PICK n, k, line, row : n = LINE_BUF_SIZE /\ k = len - 1 /\ line = line_buf /\ row = term.row
  OBVIOUS
<1>2. /\ len > 0 /\ len' = len - 1 /\ line_buf' = line_buf
      /\ term' = Shell!uart_puts(term, <<"BS", Space, "BS">>)
  BY DEF Shell!Backspace, Space
<1>3. /\ Ended(line_buf) /\ line \in Shell!Line /\ len \in 0 .. n - 1 /\ n \in Nat
      /\ term = [row |-> row, cursor |-> len]
      /\ row = [i \in 0 .. n - 1 |-> IF i < len THEN line[i] ELSE Space]
  BY <1>1, ShellAssumption DEF ShellInv, Ended, Echo
<1>4. k \in 0 .. n - 1 /\ len = k + 1
  BY <1>1, <1>2, <1>3
<1>5. PICK X : X = Printable \cup {Shell!NUL, Space}
  OBVIOUS
<1>6. row \in [0 .. n - 1 -> X]
  <2>1. \A i \in 0 .. n - 1 : i \in 0 .. n
    BY <1>3
  <2>2. line \in [0 .. n -> Printable \cup {Shell!NUL}]
    BY <1>1, <1>3 DEF Shell!Line, Shell!Index
  <2>3. \A i \in 0 .. n - 1 : line[i] \in X
    BY <1>5, <2>1, <2>2
  <2>4. Space \in X
    BY <1>5
  <2> QED
    BY <1>3, <2>3, <2>4
<1>7. PICK new : new = [row EXCEPT ![k] = Space]
  OBVIOUS
<1>8. term' = [row |-> new, cursor |-> k]
  <2>1. Space \in X
    BY <1>5
  <2>2. term = [row |-> row, cursor |-> k + 1]
    BY <1>3, <1>4
  <2>3. Shell!uart_puts([row |-> row, cursor |-> k + 1], <<"BS", Space, "BS">>)
          = [row |-> [row EXCEPT ![k] = Space], cursor |-> k]
    BY <1>3, <1>4, <1>6, <2>1, WipedOut
  <2> QED
    BY <1>2, <1>7, <2>2, <2>3
<1>9. new = [i \in 0 .. n - 1 |-> IF i < k THEN line[i] ELSE Space]
  <2>1. new = [i \in 0 .. n - 1 |-> new[i]]
    BY <1>6, <1>7
  <2>2. ASSUME NEW i \in 0 .. n - 1
        PROVE  new[i] = IF i < k THEN line[i] ELSE Space
    <3>1. new[i] = IF i = k THEN Space ELSE row[i]
      BY <1>6, <1>7
    <3>2. row[i] = IF i < len THEN line[i] ELSE Space
      BY <1>3
    <3>3. i \in Int /\ k \in Int
      BY <1>4
    <3>4. i < len <=> (i = k \/ i < k)
      BY <1>4, <3>3
    <3>5. i = k => ~(i < k)
      BY <3>3
    <3> QED
      BY <3>1, <3>2, <3>4, <3>5
  <2> QED
    BY <2>1, <2>2
<1>10. /\ len' = k /\ len' \in 0 .. LINE_BUF_SIZE - 1 /\ Ended(line_buf)'
       /\ term' = [row |-> term'.row, cursor |-> len'] /\ term'.row = new
  <2>1. len' = k
    BY <1>1, <1>2
  <2>2. len' \in 0 .. LINE_BUF_SIZE - 1
    BY <1>1, <1>4, <2>1
  <2>3. Ended(line_buf)'
    BY <1>2, <1>3 DEF Ended
  <2>4. term'.row = new /\ term' = [row |-> term'.row, cursor |-> len']
    BY <1>8, <2>1
  <2> QED
    BY <2>1, <2>2, <2>3, <2>4
<1>11. Echo(term.row)'
  BY <1>1, <1>2, <1>9, <1>10 DEF Echo
<1> QED
  BY <1>10, <1>11 DEF ShellInv

\* Enter leaves an empty line and a buffer that ends.
LEMMA LineEntered ==
  ASSUME ShellInv, Shell!Enter
  PROVE  ShellInv'
<1> DEFINE n == LINE_BUF_SIZE
           parsed == Shell!parse_args(Shell!line_buf_terminated(line_buf, len))
<1>1. n \in Nat \ {0} /\ len' = 0 /\ term' = Shell!Empty
  BY ShellAssumption DEF Shell!Enter
<1>2. PICK line : line = Shell!line_buf_terminated(line_buf, len)
  OBVIOUS
<1>3. Ended(line)
  BY <1>1, <1>2 DEF ShellInv, Ended, Shell!line_buf_terminated, Shell!Line, Shell!Index
<1>4. Ended(parsed.line)
  BY <1>2, <1>3, ParsedEnds
<1> HIDE DEF parsed
<1>5. Ended([i \in Shell!Index |-> Shell!NUL])
  BY <1>1 DEF Ended, Shell!Line, Shell!Index
<1>6. line_buf' \in {line, [i \in Shell!Index |-> Shell!NUL], parsed.line}
  BY <1>2 DEF Shell!Enter, parsed
<1>7. Ended(line_buf)'
  BY <1>3, <1>4, <1>5, <1>6 DEF Ended
<1>8. /\ term' = [row |-> [i \in 0 .. n - 1 |-> Space], cursor |-> 0]
      /\ term'.row = [i \in 0 .. n - 1 |-> Space]
  <2>1. term' = [row |-> [i \in 0 .. n - 1 |-> Space], cursor |-> 0]
    BY <1>1 DEF Shell!Empty, Space
  <2> QED
    BY <2>1
<1>9. Echo(term.row)'
  <2>1. \A i \in 0 .. n - 1 : ~(i < 0)
    OBVIOUS
  <2> QED
    BY <1>1, <1>8, <2>1 DEF Echo
<1>10. term' = [row |-> term'.row, cursor |-> len'] /\ len' \in 0 .. n - 1
  BY <1>1, <1>8
<1> QED
  BY <1>7, <1>9, <1>10 DEF ShellInv

\* It holds at the start.
LEMMA ShellInitially ==
  ASSUME Shell!Init
  PROVE  ShellInv
<1> DEFINE n == LINE_BUF_SIZE
<1>1. n \in Nat \ {0} /\ len = 0 /\ term = Shell!Empty /\ line_buf = [i \in 0 .. n |-> Shell!NUL]
  BY ShellAssumption DEF Shell!Init, Shell!Index
<1>2. Ended(line_buf)
  BY <1>1 DEF Ended, Shell!Line, Shell!Index
<1>3. term = [row |-> [i \in 0 .. n - 1 |-> Space], cursor |-> 0]
  BY <1>1 DEF Shell!Empty, Space
<1>4. term.row = [i \in 0 .. n - 1 |-> Space] /\ term = [row |-> term.row, cursor |-> len]
  BY <1>1, <1>3
<1>5. Echo(term.row)
  <2>1. \A i \in 0 .. n - 1 : ~(i < 0)
    OBVIOUS
  <2> QED
    BY <1>1, <1>4, <2>1 DEF Echo
<1>6. len \in 0 .. n - 1
  BY <1>1
<1> QED
  BY <1>2, <1>4, <1>5, <1>6 DEF ShellInv

\* The invariant holds while the shell runs.
ShellRuns == running_program = "shell" => ShellInv

\* Whatever the shell does, the terminal shows its line.
LEMMA ShellInvariance ==
  TextSpec => []ShellRuns
<1>1. TextInit => ShellRuns
  BY ShellInitially DEF TextInit, ShellRuns
<1>2. ShellRuns /\ [TextNext]_all_vars => ShellRuns'
  <2> SUFFICES ASSUME ShellRuns, [TextNext]_all_vars
               PROVE  ShellRuns'
    OBVIOUS
  <2>1. CASE RunShell
    <3>1. ShellInv /\ Shell!Next
      BY <2>1 DEF RunShell, ShellRuns
    <3>2. CASE \E c \in Printable : Shell!PrintableKey(c)
      BY <3>1, <3>2, KeyEchoed DEF ShellRuns
    <3>3. CASE Shell!Backspace
      BY <3>1, <3>3, BackspaceEchoed DEF ShellRuns
    <3>4. CASE Shell!Enter
      BY <3>1, <3>4, LineEntered DEF ShellRuns
    <3> QED
      BY <3>1, <3>2, <3>3, <3>4 DEF Shell!Next
  <2>2. CASE RunEcho \/ RunOutput \/ RunScreen \/ UNCHANGED all_vars
    <3>1. UNCHANGED <<running_program, shell_vars>>
      BY <2>2 DEF RunEcho, RunOutput, RunScreen, all_vars
    <3>2. UNCHANGED <<line_buf, len, term>>
      BY <3>1 DEF shell_vars
    <3> QED
      BY <3>1, <3>2 DEF ShellRuns, ShellInv, Echo
  <2> QED
    BY <2>1, <2>2 DEF TextNext
<1> QED
  BY <1>1, <1>2, PTL DEF TextSpec

\* What stands behind the prompt is the line that Enter would run, and nothing else,
\* after any keys and at the limit of the buffer (shell.c:268-295).
THEOREM EchoIsTrue == TextSpec => []EchoShowsLine
<1>1. ShellRuns => EchoShowsLine
  <2> SUFFICES ASSUME ShellInv
               PROVE  Shell!EchoShowsLine
    BY DEF ShellRuns, EchoShowsLine
  <2>1. /\ term = [row |-> term.row, cursor |-> len]
        /\ term.row = [i \in 0 .. LINE_BUF_SIZE - 1 |-> IF i < len THEN line_buf[i] ELSE Space]
    BY DEF ShellInv, Echo
  <2>2. term.cursor = len
    BY <2>1
  <2>3. \A i \in DOMAIN term.row : term.row[i] = IF i < len THEN line_buf[i] ELSE Space
    BY <2>1
  <2> QED
    BY <2>2, <2>3 DEF Shell!EchoShowsLine, Space
<1> QED
  BY <1>1, ShellInvariance, PTL

-----------------------------------------------------------------------------
\* The text programs run the terminal as it is, or leave it at rest: what TerminalProofs
\* shows of every behaviour of Terminal holds of the behaviours of MCText.
LEMMA TextRunsTerminal == TextSpec => Spec
<1>1. TextInit => Init
  BY DEF TextInit
<1>2. [TextNext]_all_vars => [Next]_vars
  <2>1. RunEcho => Next
    BY DEF RunEcho
  <2>2. harness_vars = vars
    BY DEF harness_vars, vars
  <2>3. RunShell \/ RunOutput \/ RunScreen \/ UNCHANGED all_vars => UNCHANGED harness_vars
    BY DEF RunShell, RunOutput, RunScreen, all_vars
  <2>4. UNCHANGED harness_vars => UNCHANGED vars
    BY <2>2 DEF harness_vars, vars
  <2> QED
    BY <2>1, <2>3, <2>4 DEF TextNext
<1> QED
  BY <1>1, <1>2, PTL DEF TextSpec, Spec
=============================================================================
