------------------------- MODULE MachoHeaderProofs -------------------------
(***************************************************************************)
(* Proofs about MachoHeader and FunctionStarts, for every fat file, every  *)
(* selection, every list of load commands and every stream of bytes.       *)
(*                                                                         *)
(* The first part is about the stream.  What its numbers are is defined by *)
(* recursion over their bytes; StepsReach, an induction by the least place *)
(* that is not reached, says that such a definition has the value its      *)
(* equations give.  StreamInv then follows the walk from byte to byte.     *)
(*                                                                         *)
(* The second part is about the file.  HeaderInv says of each moment of    *)
(* the loop over the commands which of those taken so far has decided a    *)
(* field: that needs no induction over the list, as one more command       *)
(* either decides the field anew or leaves it.                             *)
(***************************************************************************)
EXTENDS MachoHeader, FiniteSetTheorems, NaturalsInduction, WellFoundedInduction, TLAPS

(* Every non-empty set of natural numbers has a least element. *)
LEMMA LeastNat ==
  ASSUME NEW T \in SUBSET Nat, T # {}
  PROVE  \E x \in T : \A y \in T : x <= y
<1> DEFINE less == {ss \in Nat \X Nat : ss[1] < ss[2]}
<1>1. IsWellFoundedOn(less, Nat)
  BY NatLessThanWellFounded DEF OpToRel
<1>2. PICK x \in T : \A y \in T : ~(<<y, x>> \in less)
  <2> HIDE DEF less
  <2> QED BY <1>1, WFMin
<1>3. ASSUME NEW y \in T PROVE x <= y
  <2>1. x \in Nat /\ y \in Nat /\ ~(y < x)
    BY <1>2
  <2> QED BY <2>1
<1> QED BY <1>2, <1>3

(* A step from each place to the next reaches every place, and in one way. *)
LEMMA StepsReach ==
  ASSUME NEW m \in Nat, NEW a \in Nat, NEW step \in [(1 .. m) \X Nat -> Nat]
  PROVE  \E g \in [0 .. m -> Nat] :
           g[0] = a /\ \A k \in 1 .. m : g[k] = step[<<k, g[k - 1]>>]
<1> DEFINE Reaches(n) == \E g \in [0 .. n -> Nat] :
                           g[0] = a /\ \A k \in 1 .. n : g[k] = step[<<k, g[k - 1]>>]
           short == {n \in 0 .. m : ~Reaches(n)}
<1>1. Reaches(0)
  <2>1. WITNESS [k \in 0 .. 0 |-> a] \in [0 .. 0 -> Nat]
  <2> QED OBVIOUS
<1>2. ASSUME NEW n \in 0 .. m, n > 0, Reaches(n - 1) PROVE Reaches(n)
  <2>1. PICK g \in [0 .. (n - 1) -> Nat] :
          g[0] = a /\ \A k \in 1 .. (n - 1) : g[k] = step[<<k, g[k - 1]>>]
    BY <1>2
  <2> DEFINE h == [k \in 0 .. n |-> IF k = n THEN step[<<n, g[n - 1]>>] ELSE g[k]]
  <2>2. n \in 1 .. m /\ n - 1 \in 0 .. (n - 1)
    BY <1>2
  <2>3. g[n - 1] \in Nat /\ step[<<n, g[n - 1]>>] \in Nat
    BY <2>1, <2>2
  <2>4. h \in [0 .. n -> Nat]
    BY <2>1, <2>3
  <2>5. h[0] = a /\ h[n] = step[<<n, g[n - 1]>>] /\ h[n - 1] = g[n - 1]
    BY <1>2, <2>1, <2>2
  <2>6. ASSUME NEW k \in 1 .. n PROVE h[k] = step[<<k, h[k - 1]>>]
    <3>1. CASE k = n
      BY <2>5, <3>1
    <3>2. CASE k # n
      <4>1. k \in 1 .. (n - 1) /\ h[k] = g[k] /\ h[k - 1] = g[k - 1]
        BY <2>2, <3>2
      <4> QED BY <2>1, <4>1
    <3> QED BY <3>1, <3>2
  <2> HIDE DEF h
  <2> QED BY <2>4, <2>5, <2>6
<1> HIDE DEF Reaches
<1>3. short = {}
  <2>1. SUFFICES ASSUME short # {} PROVE FALSE
    OBVIOUS
  <2> HIDE DEF short
  <2>2. PICK n \in short : \A y \in short : n <= y
    <3>1. short \in SUBSET Nat
      BY DEF short
    <3> QED BY <2>1, <3>1, LeastNat
  <2>3. n \in 0 .. m /\ n > 0 /\ n - 1 \in 0 .. m /\ n - 1 \notin short
    BY <1>1, <2>2 DEF short
  <2> QED BY <1>2, <2>2, <2>3 DEF short
<1>4. Reaches(m)
  BY <1>3
<1> QED BY <1>4 DEF Reaches

(* The value of each bit is twice that of the one before. *)
LEMMA BitsDouble ==
  ASSUME NEW m \in Nat
  PROVE  \E g \in [0 .. m -> Nat] :
           /\ \A n \in 0 .. m : Bit(n) = g[n]
           /\ g[0] = 1 /\ \A k \in 1 .. m : g[k] = 2 * g[k - 1]
<1> DEFINE step == [p \in (1 .. m) \X Nat |-> 2 * p[2]]
<1>1. PICK g \in [0 .. m -> Nat] : g[0] = 1 /\ \A k \in 1 .. m : g[k] = step[<<k, g[k - 1]>>]
  <2>1. step \in [(1 .. m) \X Nat -> Nat]
    OBVIOUS
  <2> HIDE DEF step
  <2>2. 1 \in Nat
    OBVIOUS
  <2> QED BY <2>1, <2>2, StepsReach
<1>2. \A k \in 1 .. m : g[k] = 2 * g[k - 1]
  <2> TAKE k \in 1 .. m
  <2>1. k - 1 \in 0 .. m
    OBVIOUS
  <2>2. <<k, g[k - 1]>> \in (1 .. m) \X Nat
    BY <2>1
  <2>3. step[<<k, g[k - 1]>>] = 2 * g[k - 1]
    BY <2>2
  <2> QED BY <1>1, <2>3
<1>3. ASSUME NEW n \in 0 .. m PROVE Bit(n) = g[n]
  <2> DEFINE bit == CHOOSE h : h = [k \in 0 .. n |-> IF k = 0 THEN 1 ELSE 2 * h[k - 1]]
             up  == [k \in 0 .. n |-> g[k]]
  <2>1. up = [k \in 0 .. n |-> IF k = 0 THEN 1 ELSE 2 * up[k - 1]]
    <3>1. ASSUME NEW k \in 0 .. n
          PROVE  g[k] = IF k = 0 THEN 1 ELSE 2 * up[k - 1]
      <4>1. k = 0 \/ (k \in 1 .. m /\ k - 1 \in 0 .. n)
        BY <1>3
      <4> QED BY <1>1, <1>2, <4>1
    <3> QED BY <3>1
  <2>2. bit = [k \in 0 .. n |-> IF k = 0 THEN 1 ELSE 2 * bit[k - 1]]
    <3> HIDE DEF up
    <3> QED BY <2>1
  <2>3. Bit(n) = bit[n]
    BY Zenon DEF Bit
  <2> HIDE DEF bit
  <2> DEFINE apart == {k \in 0 .. n : bit[k] # g[k]}
  <2>4. apart = {}
    <3>1. SUFFICES ASSUME apart # {} PROVE FALSE
      OBVIOUS
    <3> HIDE DEF apart, up
    <3>2. PICK k \in apart : \A y \in apart : k <= y
      <4>1. apart \in SUBSET Nat
        BY <1>3 DEF apart
      <4> QED BY <3>1, <4>1, LeastNat
    <3>3. k \in 0 .. n /\ bit[k] # g[k] /\ (k > 0 => k \in 1 .. m /\ k - 1 \in 0 .. n /\ k - 1 \notin apart)
      BY <1>3, <3>2 DEF apart
    <3>4. bit[k] = IF k = 0 THEN 1 ELSE 2 * bit[k - 1]
      BY <2>2, <3>3
    <3>5. CASE k = 0
      BY <1>1, <3>3, <3>4, <3>5
    <3>6. CASE k > 0
      <4>1. bit[k - 1] = g[k - 1] /\ g[k] = 2 * g[k - 1]
        BY <1>2, <3>3, <3>6 DEF apart
      <4> QED BY <3>3, <3>4, <3>6, <4>1
    <3> QED BY <3>3, <3>5, <3>6
  <2>5. n \in 0 .. n
    BY <1>3
  <2> QED BY <2>3, <2>4, <2>5
<1> HIDE DEF step
<1> QED BY <1>1, <1>2, <1>3

(* A later bit is worth no less. *)
LEMMA BitsGrow ==
  ASSUME NEW j \in Nat, NEW i \in 0 .. j
  PROVE  Bit(i) \in Nat \ {0} /\ Bit(j) \in Nat \ {0} /\ Bit(i) <= Bit(j)
<1>1. PICK g \in [0 .. j -> Nat] :
        /\ \A n \in 0 .. j : Bit(n) = g[n]
        /\ g[0] = 1 /\ \A k \in 1 .. j : g[k] = 2 * g[k - 1]
  BY BitsDouble
<1> DEFINE Bad(k) == g[k] = 0 \/ (k >= i /\ g[k] < g[i])
           bad == {k \in 0 .. j : Bad(k)}
<1>2. bad = {}
  <2>1. SUFFICES ASSUME bad # {} PROVE FALSE
    OBVIOUS
  <2> HIDE DEF bad
  <2>2. PICK k \in bad : \A y \in bad : k <= y
    <3>1. bad \in SUBSET Nat
      BY DEF bad
    <3> QED BY <2>1, <3>1, LeastNat
  <2>3. /\ k \in 0 .. j /\ Bad(k) /\ k # 0
        /\ k \in 1 .. j /\ k - 1 \in 0 .. j /\ k - 1 \notin bad
    BY <1>1, <2>2 DEF bad
  <2>4. ~Bad(k - 1)
    BY <2>3 DEF bad
  <2>5. g[k] = 2 * g[k - 1] /\ g[k - 1] \in Nat /\ g[k] \in Nat /\ g[i] \in Nat
    BY <1>1, <2>3
  <2>6. CASE k = i
    BY <2>3, <2>4, <2>5, <2>6
  <2>7. CASE k # i
    BY <2>3, <2>4, <2>5, <2>7
  <2> QED BY <2>6, <2>7
<1>3. i \in 0 .. j /\ j \in 0 .. j /\ j >= i
  OBVIOUS
<1>4. g[i] # 0 /\ g[j] # 0 /\ ~(g[j] < g[i]) /\ g[i] \in Nat /\ g[j] \in Nat
  BY <1>1, <1>2, <1>3
<1> HIDE DEF bad
<1> QED BY <1>1, <1>3, <1>4

(* Each sum is the one before with one value more. *)
LEMMA SumsAdd ==
  ASSUME NEW m \in Nat, NEW f, \A k \in 1 .. m : f[k] \in Nat
  PROVE  \E g \in [0 .. m -> Nat] :
           /\ \A n \in 0 .. m : SumTo(f, n) = g[n]
           /\ g[0] = 0 /\ \A k \in 1 .. m : g[k] = g[k - 1] + f[k]
<1> DEFINE step == [p \in (1 .. m) \X Nat |-> p[2] + f[p[1]]]
<1>1. PICK g \in [0 .. m -> Nat] : g[0] = 0 /\ \A k \in 1 .. m : g[k] = step[<<k, g[k - 1]>>]
  <2>1. step \in [(1 .. m) \X Nat -> Nat]
    OBVIOUS
  <2> HIDE DEF step
  <2>2. 0 \in Nat
    OBVIOUS
  <2> QED BY <2>1, <2>2, StepsReach
<1>2. \A k \in 1 .. m : g[k] = g[k - 1] + f[k]
  <2> TAKE k \in 1 .. m
  <2>1. k - 1 \in 0 .. m
    OBVIOUS
  <2>2. <<k, g[k - 1]>> \in (1 .. m) \X Nat
    BY <2>1
  <2>3. step[<<k, g[k - 1]>>] = g[k - 1] + f[k]
    BY <2>2
  <2> QED BY <1>1, <2>3
<1>3. ASSUME NEW n \in 0 .. m PROVE SumTo(f, n) = g[n]
  <2> DEFINE sum == CHOOSE h : h = [k \in 0 .. n |-> IF k = 0 THEN 0 ELSE h[k - 1] + f[k]]
             up  == [k \in 0 .. n |-> g[k]]
  <2>1. up = [k \in 0 .. n |-> IF k = 0 THEN 0 ELSE up[k - 1] + f[k]]
    <3>1. ASSUME NEW k \in 0 .. n
          PROVE  g[k] = IF k = 0 THEN 0 ELSE up[k - 1] + f[k]
      <4>1. k = 0 \/ (k \in 1 .. m /\ k - 1 \in 0 .. n)
        BY <1>3
      <4> QED BY <1>1, <1>2, <4>1
    <3> QED BY <3>1
  <2>2. sum = [k \in 0 .. n |-> IF k = 0 THEN 0 ELSE sum[k - 1] + f[k]]
    <3> HIDE DEF up
    <3> QED BY <2>1
  <2>3. SumTo(f, n) = sum[n]
    BY Zenon DEF SumTo
  <2> HIDE DEF sum
  <2> DEFINE apart == {k \in 0 .. n : sum[k] # g[k]}
  <2>4. apart = {}
    <3>1. SUFFICES ASSUME apart # {} PROVE FALSE
      OBVIOUS
    <3> HIDE DEF apart, up
    <3>2. PICK k \in apart : \A y \in apart : k <= y
      <4>1. apart \in SUBSET Nat
        BY <1>3 DEF apart
      <4> QED BY <3>1, <4>1, LeastNat
    <3>3. k \in 0 .. n /\ sum[k] # g[k] /\ (k > 0 => k \in 1 .. m /\ k - 1 \in 0 .. n /\ k - 1 \notin apart)
      BY <1>3, <3>2 DEF apart
    <3>4. sum[k] = IF k = 0 THEN 0 ELSE sum[k - 1] + f[k]
      BY <2>2, <3>3
    <3>5. CASE k = 0
      BY <1>1, <3>3, <3>4, <3>5
    <3>6. CASE k > 0
      <4>1. sum[k - 1] = g[k - 1] /\ g[k] = g[k - 1] + f[k]
        BY <1>2, <3>3, <3>6 DEF apart
      <4> QED BY <3>3, <3>4, <3>6, <4>1
    <3> QED BY <3>3, <3>5, <3>6
  <2>5. n \in 0 .. n
    BY <1>3
  <2> QED BY <2>3, <2>4, <2>5
<1> HIDE DEF step
<1> QED BY <1>1, <1>2, <1>3

LEMMA SumNone == ASSUME NEW f PROVE SumTo(f, 0) = 0
<1>1. PICK m \in Nat : m = 0
  OBVIOUS
<1>2. \A k \in 1 .. m : f[k] \in Nat
  BY <1>1
<1>3. PICK g \in [0 .. m -> Nat] :
        /\ \A n \in 0 .. m : SumTo(f, n) = g[n]
        /\ g[0] = 0 /\ \A k \in 1 .. m : g[k] = g[k - 1] + f[k]
  BY <1>2, SumsAdd, Zenon
<1> QED BY <1>1, <1>3

LEMMA SumMore ==
  ASSUME NEW n \in Nat, NEW f, \A k \in 1 .. (n + 1) : f[k] \in Nat
  PROVE  SumTo(f, n) \in Nat /\ SumTo(f, n + 1) = SumTo(f, n) + f[n + 1]
<1>1. PICK g \in [0 .. (n + 1) -> Nat] :
        /\ \A i \in 0 .. (n + 1) : SumTo(f, i) = g[i]
        /\ \A k \in 1 .. (n + 1) : g[k] = g[k - 1] + f[k]
  <2>1. n + 1 \in Nat
    OBVIOUS
  <2> QED BY <2>1, SumsAdd
<1>2. n \in 0 .. (n + 1) /\ n + 1 \in 0 .. (n + 1) /\ n + 1 \in 1 .. (n + 1)
      /\ (n + 1) - 1 = n
  OBVIOUS
<1> QED BY <1>1, <1>2

(* No value is more than the sum it is part of. *)
LEMMA SumBounds ==
  ASSUME NEW m \in Nat, NEW f, \A k \in 1 .. m : f[k] \in Nat, NEW i \in 1 .. m
  PROVE  SumTo(f, m) \in Nat /\ f[i] <= SumTo(f, m)
<1>1. PICK g \in [0 .. m -> Nat] :
        /\ \A n \in 0 .. m : SumTo(f, n) = g[n]
        /\ \A k \in 1 .. m : g[k] = g[k - 1] + f[k]
  BY SumsAdd
<1> DEFINE bad == {k \in i .. m : g[k] < f[i]}
<1>2. bad = {}
  <2>1. SUFFICES ASSUME bad # {} PROVE FALSE
    OBVIOUS
  <2> HIDE DEF bad
  <2>2. PICK k \in bad : \A y \in bad : k <= y
    <3>1. bad \in SUBSET Nat
      BY DEF bad
    <3> QED BY <2>1, <3>1, LeastNat
  <2>3. /\ k \in 1 .. m /\ k >= i /\ g[k] < f[i] /\ k - 1 \in 0 .. m
        /\ (k # i => k - 1 \in i .. m /\ k - 1 \notin bad)
    BY <2>2 DEF bad
  <2>4. g[k] = g[k - 1] + f[k] /\ g[k - 1] \in Nat /\ f[k] \in Nat /\ f[i] \in Nat
    BY <1>1, <2>3
  <2>5. CASE k = i
    BY <2>3, <2>4, <2>5
  <2>6. CASE k # i
    <3>1. ~(g[k - 1] < f[i])
      BY <2>3, <2>6 DEF bad
    <3> QED BY <2>3, <2>4, <3>1
  <2> QED BY <2>5, <2>6
<1>3. m \in i .. m /\ m \in 0 .. m /\ g[m] \in Nat /\ f[i] \in Nat
  BY <1>1
<1>4. ~(g[m] < f[i])
  BY <1>2, <1>3
<1> HIDE DEF bad
<1> QED BY <1>1, <1>3, <1>4
-----------------------------------------------------------------------------
EndsUpTo(k) == {j \in NumberEnds : j <= k}

WalkTyped ==
  /\ stream \in Seq(Byte) /\ text \in Nat /\ starts \in Seq(Nat)
  /\ running \in Nat /\ cursor \in Nat /\ consumed \in Nat /\ result \in Nat
  /\ cursor + consumed <= Len(stream)

(* The walk stands inside a number, behind as many as it has yielded. *)
AlignedInv ==
  /\ cursor \in {0} \cup NumberEnds
  /\ Cardinality(EndsUpTo(cursor)) = Len(starts)
  /\ \A j \in 1 .. consumed : stream[cursor + j].more

(* Its bytes are added up, if none of them loses a bit. *)
ResultInv ==
  (\A i \in 1 .. consumed : Digits(cursor + 1)[i] < Limit)
    => result = SumTo(Digits(cursor + 1), consumed)

PlainTo(n) == \A k \in 1 .. n : Plain(k)

StartsInv ==
  /\ \A n \in 1 .. Len(starts) : Exact(n) \in Nat
  /\ PlainTo(Len(starts)) =>
       /\ running = AddressOf(Len(starts))
       /\ \A n \in 1 .. Len(starts) :
            Exact(n) # 0 /\ AddressOf(n) < Limit /\ starts[n] = AddressOf(n)

(* Where the walk is over no function follows. *)
StoppedInv ==
  status # "walking" /\ PlainTo(Len(starts)) /\ Len(starts) < Numbers /\ Plain(Len(starts) + 1)
    => Exact(Len(starts) + 1) = 0 \/ ~(AddressOf(Len(starts) + 1) < Limit)

StreamInv == WalkTyped /\ AlignedInv /\ ResultInv /\ StartsInv /\ StoppedInv

LEMMA LimitType == Limit \in Nat \ {0}
<1>1. Width \in Nat /\ 0 \in 0 .. Width
  BY StreamAssumption
<1> QED BY <1>1, BitsGrow DEF Limit

LEMMA ByteFacts ==
  ASSUME stream \in Seq(Byte)
  PROVE  /\ Len(stream) \in Nat /\ DOMAIN stream = 1 .. Len(stream)
         /\ \A k \in 1 .. Len(stream) : stream[k].bits \in Nat /\ stream[k].more \in BOOLEAN
<1>1. \A k \in 1 .. Len(stream) : stream[k] \in Byte
  OBVIOUS
<1>2. Bit(Payload) \in Nat
  <2>1. Payload \in Nat /\ 0 \in 0 .. Payload
    BY StreamAssumption
  <2> QED BY <2>1, BitsGrow
<1>3. \A b \in Byte : b.bits \in Nat /\ b.more \in BOOLEAN
  BY <1>2 DEF Byte
<1> QED BY <1>1, <1>3

LEMMA EndsFacts ==
  ASSUME stream \in Seq(Byte)
  PROVE  /\ NumberEnds \subseteq 1 .. Len(stream) /\ IsFiniteSet(NumberEnds) /\ Numbers \in Nat
         /\ \A k : IsFiniteSet(EndsUpTo(k)) /\ Cardinality(EndsUpTo(k)) \in 0 .. Numbers
         /\ \A k \in 1 .. Len(stream) : k \in NumberEnds <=> ~stream[k].more
<1>1. NumberEnds \subseteq 1 .. Len(stream)
      /\ \A k \in 1 .. Len(stream) : k \in NumberEnds <=> ~stream[k].more
  BY ByteFacts DEF NumberEnds
<1>2. IsFiniteSet(NumberEnds)
  <2>1. IsFiniteSet(1 .. Len(stream))
    BY ByteFacts, FS_Interval
  <2> QED BY <1>1, <2>1, FS_Subset
<1>3. Numbers \in Nat
  BY <1>2, FS_CardinalityType DEF Numbers
<1>4. ASSUME NEW k PROVE IsFiniteSet(EndsUpTo(k)) /\ Cardinality(EndsUpTo(k)) \in 0 .. Numbers
  <2>1. EndsUpTo(k) \subseteq NumberEnds
    BY DEF EndsUpTo
  <2>2. /\ IsFiniteSet(EndsUpTo(k))
        /\ Cardinality(EndsUpTo(k)) <= Cardinality(NumberEnds)
    BY <1>2, <2>1, FS_Subset
  <2>3. Cardinality(EndsUpTo(k)) \in Nat
    BY <2>2, FS_CardinalityType
  <2> QED BY <1>3, <2>2, <2>3 DEF Numbers
<1> QED BY <1>1, <1>2, <1>3, <1>4

(* An end is the nth when n ends are not behind it. *)
LEMMA EndAt ==
  ASSUME stream \in Seq(Byte), NEW k \in NumberEnds
  PROVE  NumberEnd(Cardinality(EndsUpTo(k))) = k
<1> DEFINE rank(j) == Cardinality(EndsUpTo(j))
<1>1. ASSUME NEW a \in NumberEnds, NEW b \in NumberEnds, a < b PROVE rank(a) < rank(b)
  <2>1. /\ EndsUpTo(a) \subseteq EndsUpTo(b) /\ b \in EndsUpTo(b) /\ b \notin EndsUpTo(a)
    <3>1. a \in Nat /\ b \in Nat /\ NumberEnds \subseteq Nat
      BY EndsFacts
    <3>2. \A j \in NumberEnds : j <= a => j <= b
      BY <1>1, <3>1
    <3>3. b <= b /\ ~(b <= a)
      BY <1>1, <3>1
    <3> QED BY <3>2, <3>3 DEF EndsUpTo
  <2>2. IsFiniteSet(EndsUpTo(b)) /\ rank(a) \in Nat /\ rank(b) \in Nat
    BY EndsFacts
  <2>3. rank(a) <= rank(b) /\ (rank(a) = rank(b) => EndsUpTo(a) = EndsUpTo(b))
    BY <2>1, <2>2, FS_Subset
  <2> QED BY <2>1, <2>2, <2>3
<1>2. \A a, b \in NumberEnds : rank(a) = rank(b) => a = b
  <2> SUFFICES ASSUME NEW a \in NumberEnds, NEW b \in NumberEnds, rank(a) = rank(b), a # b
               PROVE  FALSE
    OBVIOUS
  <2>1. a \in Nat /\ b \in Nat /\ (a < b \/ b < a)
    BY EndsFacts
  <2>2. rank(a) \in Nat
    BY EndsFacts
  <2> QED BY <1>1, <2>1, <2>2
<1>3. /\ NumberEnd(rank(k)) \in NumberEnds
      /\ rank(NumberEnd(rank(k))) = rank(k)
  <2> DEFINE n == rank(k)
  <2>1. \E j \in NumberEnds : Cardinality({i \in NumberEnds : i <= j}) = n
    BY DEF EndsUpTo
  <2> HIDE DEF n
  <2>2. NumberEnd(n) \in NumberEnds /\ rank(NumberEnd(n)) = n
    BY <2>1 DEF NumberEnd, EndsUpTo
  <2> QED BY <2>2 DEF n
<1> QED BY <1>2, <1>3, Zenon

(* What the bytes from start on may add up to. *)
LEMMA DigitFacts ==
  ASSUME stream \in Seq(Byte), NEW start \in Nat \ {0}
  PROVE  /\ DOMAIN Digits(start) = 1 .. (Len(stream) - start + 1)
         /\ \A i \in 1 .. (Len(stream) - start + 1) :
              /\ Digits(start)[i] = stream[start + i - 1].bits * Bit(Payload * (i - 1))
              /\ Digits(start)[i] \in Nat
<1>1. ASSUME NEW i \in 1 .. (Len(stream) - start + 1)
      PROVE  stream[start + i - 1].bits * Bit(Payload * (i - 1)) \in Nat
  <2>1. start + i - 1 \in 1 .. Len(stream)
    BY ByteFacts
  <2>2. PICK b \in Nat : b = stream[start + i - 1].bits
    BY <2>1, ByteFacts
  <2>3. PICK e \in Nat : e = Payload * (i - 1)
    BY StreamAssumption, ByteFacts
  <2>4. PICK v \in Nat : v = Bit(e)
    <3>1. 0 \in 0 .. e
      BY <2>3
    <3> QED BY <2>3, <3>1, BitsGrow
  <2>5. b * v \in Nat
    OBVIOUS
  <2> QED BY <2>2, <2>3, <2>4, <2>5
<1> QED BY <1>1 DEF Digits

(* The number the walk stands in, once its end is known. *)
LEMMA NextNumber ==
  ASSUME WalkTyped, AlignedInv, StartsInv, NEW k \in NumberEnds, k > cursor,
         \A j \in 1 .. Len(stream) : cursor < j /\ j < k => stream[j].more
  PROVE  /\ k \in 1 .. Len(stream) /\ Len(starts) \in Nat /\ Len(starts) + 1 <= Numbers
         /\ Cardinality(EndsUpTo(k)) = Len(starts) + 1
         /\ NumberEnd(Len(starts) + 1) = k
         /\ NumberLength(Len(starts) + 1) = k - cursor
         /\ Exact(Len(starts) + 1) = SumTo(Digits(cursor + 1), k - cursor)
         /\ Exact(Len(starts) + 1) \in Nat
         /\ AddressOf(Len(starts) + 1) = AddressOf(Len(starts)) + Exact(Len(starts) + 1)
         /\ AddressOf(Len(starts)) \in Nat
<1> DEFINE n == Len(starts)
<1>1. /\ stream \in Seq(Byte) /\ n \in Nat /\ cursor \in Nat /\ text \in Nat
      /\ NumberEnds \subseteq 1 .. Len(stream) /\ Len(stream) \in Nat
      /\ k \in 1 .. Len(stream) /\ Numbers \in Nat
  BY EndsFacts, ByteFacts DEF WalkTyped
<1>2. EndsUpTo(k) = EndsUpTo(cursor) \cup {k} /\ k \notin EndsUpTo(cursor)
  <2>1. ASSUME NEW j \in NumberEnds, j <= k PROVE j <= cursor \/ j = k
    <3>1. j \in 1 .. Len(stream) /\ ~stream[j].more
      BY <1>1, EndsFacts
    <3> QED BY <1>1, <2>1, <3>1
  <2>2. \A j \in NumberEnds : j <= cursor => j <= k
    BY <1>1
  <2>3. ~(k <= cursor) /\ k <= k
    BY <1>1
  <2> QED BY <2>1, <2>2, <2>3 DEF EndsUpTo
<1>3. Cardinality(EndsUpTo(k)) = n + 1
  <2>1. IsFiniteSet(EndsUpTo(cursor)) /\ Cardinality(EndsUpTo(cursor)) = n
    BY <1>1, EndsFacts DEF AlignedInv
  <2> QED BY <1>2, <2>1, FS_AddElement
<1>4. NumberEnd(n + 1) = k
  BY <1>1, <1>3, EndAt
<1>5. n + 1 <= Numbers
  BY <1>1, <1>3, EndsFacts
<1>6. NumberStart(n + 1) = cursor + 1
  <2>1. CASE cursor \in NumberEnds
    <3>1. NumberEnd(n) = cursor
      BY <1>1, <2>1, EndAt DEF AlignedInv
    <3>2. n # 0
      <4>1. cursor \in EndsUpTo(cursor)
        BY <1>1, <2>1 DEF EndsUpTo
      <4>2. IsFiniteSet(EndsUpTo(cursor))
        BY <1>1, EndsFacts
      <4> QED BY <4>1, <4>2, FS_EmptySet DEF AlignedInv
    <3>3. n + 1 # 1 /\ (n + 1) - 1 = n
      BY <1>1, <3>2
    <3> HIDE DEF n
    <3> QED BY <3>1, <3>3 DEF NumberStart
  <2>2. CASE cursor = 0
    <3>1. EndsUpTo(cursor) = {}
      <4>1. \A j \in NumberEnds : ~(j <= cursor)
        BY <1>1, <2>2
      <4> QED BY <4>1 DEF EndsUpTo
    <3>2. n = 0
      BY <3>1, FS_EmptySet DEF AlignedInv
    <3> QED BY <2>2, <3>2 DEF NumberStart
  <2> QED BY <2>1, <2>2 DEF AlignedInv
<1>7. NumberLength(n + 1) = k - cursor
  BY <1>1, <1>4, <1>6 DEF NumberLength
<1>8. Exact(n + 1) = SumTo(Digits(cursor + 1), k - cursor)
  BY <1>6, <1>7 DEF Exact
<1>9. Exact(n + 1) \in Nat
  <2>1. k - cursor \in Nat /\ k - cursor \in 1 .. (k - cursor) /\ cursor + 1 \in Nat \ {0}
    BY <1>1
  <2>2. \A i \in 1 .. (k - cursor) : Digits(cursor + 1)[i] \in Nat
    BY <1>1, <2>1, DigitFacts
  <2> QED BY <1>8, <2>1, <2>2, SumBounds
<1>10. /\ AddressOf(n) \in Nat
       /\ AddressOf(n + 1) = AddressOf(n) + Exact(n + 1)
  <2> DEFINE f == [j \in 1 .. Numbers |-> Exact(j)]
  <2>1. \A j \in 1 .. (n + 1) : f[j] \in Nat
    <3> TAKE j \in 1 .. (n + 1)
    <3>1. j \in 1 .. Numbers /\ (j \in 1 .. n \/ j = n + 1)
      BY <1>1, <1>5
    <3> QED BY <1>9, <3>1 DEF StartsInv
  <2>2. f[n + 1] = Exact(n + 1)
    BY <1>1, <1>5
  <2>3. AddressOf(n) = text + SumTo(f, n) /\ AddressOf(n + 1) = text + SumTo(f, n + 1)
    BY DEF AddressOf
  <2> HIDE DEF f, n
  <2>4. SumTo(f, n) \in Nat /\ SumTo(f, n + 1) = SumTo(f, n) + f[n + 1]
    BY <1>1, <2>1, SumMore
  <2> QED BY <1>1, <1>9, <2>2, <2>3, <2>4
<1> HIDE DEF n
<1>11. n = Len(starts)
  BY DEF n
<1> QED BY <1>1, <1>3, <1>4, <1>5, <1>7, <1>8, <1>9, <1>10, <1>11

(* The last byte of a number that fits completes it. *)
LEMMA DeltaIsNumber ==
  ASSUME WalkTyped, AlignedInv, ResultInv, StartsInv, HasByte, IsLast
  PROVE  /\ cursor + consumed + 1 \in NumberEnds
         /\ NumberEnd(Len(starts) + 1) = cursor + consumed + 1
         /\ Len(starts) \in Nat /\ Len(starts) + 1 <= Numbers
         /\ Cardinality(EndsUpTo(cursor + consumed + 1)) = Len(starts) + 1
         /\ Exact(Len(starts) + 1) \in Nat
         /\ AddressOf(Len(starts)) \in Nat
         /\ AddressOf(Len(starts) + 1) = AddressOf(Len(starts)) + Exact(Len(starts) + 1)
         /\ Delta \in Nat
         /\ Exact(Len(starts) + 1) < Limit => Delta = Exact(Len(starts) + 1)
<1> DEFINE k == cursor + consumed + 1
           D == Digits(cursor + 1)
<1>1. /\ cursor \in Nat /\ consumed \in Nat /\ result \in Nat /\ Len(stream) \in Nat
      /\ stream \in Seq(Byte) /\ k \in 1 .. Len(stream) /\ Payload \in Nat /\ Width \in Nat
      /\ cursor + 1 \in Nat \ {0} /\ Limit \in Nat \ {0}
  BY ByteFacts, StreamAssumption, LimitType DEF WalkTyped, HasByte
<1>2. k \in NumberEnds /\ k > cursor /\ Here = stream[k]
  BY <1>1, EndsFacts DEF IsLast, Here
<1>3. \A j \in 1 .. Len(stream) : cursor < j /\ j < k => stream[j].more
  <2> TAKE j \in 1 .. Len(stream)
  <2> HAVE cursor < j /\ j < k
  <2>1. j - cursor \in 1 .. consumed /\ cursor + (j - cursor) = j
    BY <1>1
  <2> QED BY <2>1 DEF AlignedInv
<1>4. k - cursor = consumed + 1
  BY <1>1
<1>5. /\ \A i \in 1 .. (consumed + 1) : D[i] \in Nat
      /\ D[consumed + 1] = Here.bits * Bit(Shift)
  <2>1. consumed + 1 \in 1 .. (Len(stream) - (cursor + 1) + 1)
        /\ (cursor + 1) + (consumed + 1) - 1 = k /\ (consumed + 1) - 1 = consumed
    BY <1>1
  <2>2. \A i \in 1 .. (consumed + 1) : i \in 1 .. (Len(stream) - (cursor + 1) + 1)
    BY <1>1
  <2>3. D[consumed + 1] = stream[(cursor + 1) + (consumed + 1) - 1].bits
                            * Bit(Payload * ((consumed + 1) - 1))
    BY <1>1, <2>1, DigitFacts
  <2> QED BY <1>1, <1>2, <2>1, <2>2, <2>3, DigitFacts DEF Shift
<1> HIDE DEF k, D
<1>6. Exact(Len(starts) + 1) = SumTo(D, consumed + 1)
  BY <1>2, <1>3, <1>4, NextNumber DEF D
<1>7. /\ SumTo(D, consumed) \in Nat
      /\ SumTo(D, consumed + 1) = SumTo(D, consumed) + D[consumed + 1]
  BY <1>1, <1>5, SumMore
<1>8. Delta \in Nat
  <2>1. Accumulate \in Nat
    <3>1. PICK d \in Nat : d = Here.bits * Bit(Shift)
      <4>1. consumed + 1 \in 1 .. (consumed + 1)
        BY <1>1
      <4> QED BY <1>5, <4>1
    <3>2. d % Limit \in Nat
      BY <1>1
    <3> QED BY <1>1, <3>1, <3>2 DEF Accumulate
  <2> QED BY <1>1, <2>1 DEF Delta
<1>9. ASSUME Exact(Len(starts) + 1) < Limit PROVE Delta = Exact(Len(starts) + 1)
  <2>1. \A i \in 1 .. (consumed + 1) : D[i] < Limit
    <3> TAKE i \in 1 .. (consumed + 1)
    <3>1. consumed + 1 \in Nat
      BY <1>1
    <3>2. D[i] <= SumTo(D, consumed + 1) /\ SumTo(D, consumed + 1) \in Nat /\ D[i] \in Nat
      BY <1>5, <3>1, SumBounds
    <3> QED BY <1>1, <1>6, <1>9, <3>2
  <2>2. result = SumTo(D, consumed)
    <3>1. \A i \in 1 .. consumed : i \in 1 .. (consumed + 1)
      BY <1>1
    <3> QED BY <2>1, <3>1 DEF ResultInv, D
  <2>3. D[consumed + 1] \in Nat /\ D[consumed + 1] < Limit
    <3>1. consumed + 1 \in 1 .. (consumed + 1)
      BY <1>1
    <3> QED BY <1>5, <2>1, <3>1
  <2>4. CASE Shift < Width
    <3>1. D[consumed + 1] % Limit = D[consumed + 1]
      BY <1>1, <2>3
    <3>2. Delta = result + D[consumed + 1]
      BY <1>5, <2>4, <3>1 DEF Delta, Accumulate
    <3> QED BY <1>6, <1>7, <2>2, <3>2
  <2>5. CASE ~(Shift < Width)
    <3>1. Shift \in Nat /\ Shift >= Width
      BY <1>1, <2>5 DEF Shift
    <3>2. Here.bits = 0
      BY <3>1 DEF IsLast
    <3>3. Bit(Shift) \in Nat
      <4>1. 0 \in 0 .. Shift
        BY <3>1
      <4> QED BY <3>1, <4>1, BitsGrow
    <3>4. D[consumed + 1] = 0
      BY <1>5, <3>2, <3>3
    <3> QED BY <1>6, <1>7, <2>2, <2>5, <3>4 DEF Delta
  <2> QED BY <2>4, <2>5
<1>10. k = cursor + consumed + 1
  BY DEF k
<1>11. /\ NumberEnd(Len(starts) + 1) = k
       /\ Len(starts) \in Nat /\ Len(starts) + 1 <= Numbers
       /\ Cardinality(EndsUpTo(k)) = Len(starts) + 1
       /\ Exact(Len(starts) + 1) \in Nat
       /\ AddressOf(Len(starts)) \in Nat
       /\ AddressOf(Len(starts) + 1) = AddressOf(Len(starts)) + Exact(Len(starts) + 1)
  BY <1>2, <1>3, NextNumber
<1> QED BY <1>2, <1>8, <1>9, <1>10, <1>11
-----------------------------------------------------------------------------
(* The numbers are those of the stream, whatever the walk does. *)
LEMMA SameNumbers ==
  ASSUME stream' = stream, text' = text
  PROVE  /\ NumberEnds' = NumberEnds /\ Numbers' = Numbers
         /\ \A k : EndsUpTo(k)' = EndsUpTo(k)
         /\ \A s : Digits(s)' = Digits(s)
         /\ \A n : Exact(n)' = Exact(n)
         /\ \A n : Plain(n)' = Plain(n)
         /\ \A n : PlainTo(n)' = PlainTo(n)
         /\ \A n : AddressOf(n)' = AddressOf(n)
<1>1. NumberEnds' = NumberEnds
  BY DEF NumberEnds
<1>2. Numbers' = Numbers /\ \A k : EndsUpTo(k)' = EndsUpTo(k)
  BY <1>1 DEF Numbers, EndsUpTo
<1>3. \A n : NumberEnd(n)' = NumberEnd(n)
  BY <1>1 DEF NumberEnd
<1>4. \A n : NumberStart(n)' = NumberStart(n) /\ NumberLength(n)' = NumberLength(n)
  BY <1>3 DEF NumberStart, NumberLength
<1>5. \A s : Digits(s)' = Digits(s)
  BY DEF Digits
<1>6. \A n : Exact(n)' = Exact(n)
  <2> TAKE n
  <2>1. Digits(NumberStart(n))' = Digits(NumberStart(n))
    BY <1>4 DEF Digits
  <2> QED BY <1>4, <2>1 DEF Exact
<1>7. \A n : Plain(n)' = Plain(n)
  BY <1>4, <1>6 DEF Plain
<1>8. \A n : PlainTo(n)' = PlainTo(n)
  BY <1>7 DEF PlainTo
<1>9. \A n : AddressOf(n)' = AddressOf(n)
  BY <1>2, <1>6 DEF AddressOf
<1> QED BY <1>1, <1>2, <1>5, <1>6, <1>7, <1>8, <1>9

LEMMA TakeByteStep == StreamInv /\ TakeByte => StreamInv'
<1> SUFFICES ASSUME StreamInv, TakeByte PROVE StreamInv'
  OBVIOUS
<1>1. /\ WalkTyped /\ AlignedInv /\ ResultInv /\ StartsInv /\ StoppedInv
      /\ UNCHANGED <<stream, text, running, cursor, status, starts>>
      /\ consumed' = consumed + 1 /\ result' = Accumulate
      /\ HasByte /\ Here.more
  BY DEF StreamInv, TakeByte
<1>2. /\ cursor \in Nat /\ consumed \in Nat /\ result \in Nat /\ Len(stream) \in Nat
      /\ stream \in Seq(Byte) /\ cursor + consumed < Len(stream)
      /\ cursor + 1 \in Nat \ {0} /\ Limit \in Nat \ {0}
  BY <1>1, ByteFacts, LimitType DEF WalkTyped, HasByte
<1> DEFINE D == Digits(cursor + 1)
<1>3. /\ \A i \in 1 .. (consumed + 1) : D[i] \in Nat
      /\ D[consumed + 1] = Here.bits * Bit(Shift)
  <2>1. consumed + 1 \in 1 .. (Len(stream) - (cursor + 1) + 1)
        /\ (cursor + 1) + (consumed + 1) - 1 = cursor + consumed + 1
        /\ (consumed + 1) - 1 = consumed
    BY <1>2
  <2>2. \A i \in 1 .. (consumed + 1) : i \in 1 .. (Len(stream) - (cursor + 1) + 1)
    BY <1>2
  <2>3. D[consumed + 1] = stream[(cursor + 1) + (consumed + 1) - 1].bits
                            * Bit(Payload * ((consumed + 1) - 1))
    BY <1>2, <2>1, DigitFacts
  <2> QED BY <1>2, <2>1, <2>2, <2>3, DigitFacts DEF Shift, Here
<1>4. D' = D
  BY <1>1 DEF Digits
<1> HIDE DEF D
<1>5. consumed + 1 \in 1 .. (consumed + 1) /\ D[consumed + 1] \in Nat
  BY <1>2, <1>3
<1>6. PICK d \in Nat : d = D[consumed + 1]
  BY <1>5
<1>7. result' = result + (d % Limit)
  BY <1>1, <1>3, <1>6, Zenon DEF Accumulate
<1>8. WalkTyped'
  <2>1. d % Limit \in Nat
    BY <1>2
  <2>2. result' \in Nat
    BY <1>2, <1>7, <2>1
  <2> QED BY <1>1, <1>2, <2>2 DEF WalkTyped
<1>9. AlignedInv'
  <2>1. \A j \in 1 .. (consumed + 1) : stream[cursor + j].more
    <3>1. \A j \in 1 .. (consumed + 1) : j \in 1 .. consumed \/ j = consumed + 1
      BY <1>2
    <3>2. cursor + (consumed + 1) = cursor + consumed + 1
      BY <1>2
    <3> QED BY <1>1, <3>1, <3>2 DEF AlignedInv, Here
  <2>2. EndsUpTo(cursor)' = EndsUpTo(cursor) /\ NumberEnds' = NumberEnds
    BY <1>1 DEF EndsUpTo, NumberEnds
  <2> QED BY <1>1, <2>1, <2>2 DEF AlignedInv
<1>10. ResultInv'
  <2>1. SUFFICES ASSUME \A i \in 1 .. (consumed + 1) : D[i] < Limit
                 PROVE  result' = SumTo(D, consumed + 1)
    BY <1>1, <1>4 DEF ResultInv, D, Limit
  <2>2. \A i \in 1 .. consumed : i \in 1 .. (consumed + 1)
    BY <1>2
  <2>3. result = SumTo(D, consumed)
    BY <1>1, <2>1, <2>2 DEF ResultInv, D
  <2>4. d % Limit = d
    <3>1. d < Limit
      BY <1>5, <1>6, <2>1
    <3> QED BY <1>2, <3>1
  <2>5. SumTo(D, consumed + 1) = SumTo(D, consumed) + d
    BY <1>2, <1>3, <1>6, SumMore
  <2> QED BY <1>7, <2>3, <2>4, <2>5
<1>11. StartsInv' /\ StoppedInv'
  BY <1>1, SameNumbers DEF StartsInv, StoppedInv, Limit
<1> QED BY <1>8, <1>9, <1>10, <1>11 DEF StreamInv

LEMMA YieldStep == StreamInv /\ Yield => StreamInv'
<1> SUFFICES ASSUME StreamInv, Yield PROVE StreamInv'
  OBVIOUS
<1> DEFINE k == cursor + consumed + 1
           n == Len(starts)
<1>1. /\ WalkTyped /\ AlignedInv /\ ResultInv /\ StartsInv
      /\ UNCHANGED <<stream, text, status>> /\ status = "walking"
      /\ HasByte /\ IsLast /\ Delta # 0 /\ running + Delta < Limit
      /\ running' = running + Delta /\ starts' = Append(starts, running')
      /\ cursor' = k /\ consumed' = 0 /\ result' = 0
  BY DEF StreamInv, Yield, HasByte
<1>2. /\ cursor \in Nat /\ consumed \in Nat /\ running \in Nat /\ Len(stream) \in Nat
      /\ cursor + consumed < Len(stream) /\ starts \in Seq(Nat)
  BY <1>1, ByteFacts DEF WalkTyped, HasByte
<1>3. /\ k \in NumberEnds
      /\ n \in Nat /\ n + 1 <= Numbers
      /\ Cardinality(EndsUpTo(k)) = n + 1
      /\ Exact(n + 1) \in Nat
      /\ AddressOf(n) \in Nat
      /\ AddressOf(n + 1) = AddressOf(n) + Exact(n + 1)
      /\ Delta \in Nat
      /\ Exact(n + 1) < Limit => Delta = Exact(n + 1)
  BY <1>1, DeltaIsNumber
<1>4. /\ running' \in Nat /\ starts' \in Seq(Nat) /\ Len(starts') = n + 1
      /\ \A i \in 1 .. n : starts'[i] = starts[i]
      /\ starts'[n + 1] = running'
  BY <1>1, <1>2, <1>3
<1>5. WalkTyped'
  BY <1>1, <1>2, <1>4 DEF WalkTyped
<1>6. AlignedInv'
  <2>1. NumberEnds' = NumberEnds
    BY <1>1 DEF NumberEnds
  <2>2. EndsUpTo(cursor)' = EndsUpTo(k)
    BY <1>1, <2>1 DEF EndsUpTo
  <2> QED BY <1>1, <1>3, <1>4, <2>1, <2>2 DEF AlignedInv
<1>7. ResultInv'
  BY <1>1, SumNone DEF ResultInv
<1> HIDE DEF k, n
<1>8. ASSUME NEW i \in 1 .. (n + 1) PROVE i \in 1 .. n \/ i = n + 1
  BY <1>3
<1>9. /\ \A i \in 1 .. (n + 1) : Exact(i) \in Nat
      /\ PlainTo(n + 1) =>
           /\ running' = AddressOf(n + 1)
           /\ \A i \in 1 .. (n + 1) :
                Exact(i) # 0 /\ AddressOf(i) < Limit /\ starts'[i] = AddressOf(i)
  <2>1. \A i \in 1 .. (n + 1) : Exact(i) \in Nat
    BY <1>1, <1>3, <1>8 DEF StartsInv, n
  <2>2. ASSUME PlainTo(n + 1)
        PROVE  /\ running' = AddressOf(n + 1)
               /\ \A i \in 1 .. (n + 1) :
                    Exact(i) # 0 /\ AddressOf(i) < Limit /\ starts'[i] = AddressOf(i)
    <3>1. PlainTo(n) /\ Plain(n + 1)
      <4>1. n + 1 \in 1 .. (n + 1) /\ \A i \in 1 .. n : i \in 1 .. (n + 1)
        BY <1>3
      <4> QED BY <2>2, <4>1 DEF PlainTo
    <3>2. Delta = Exact(n + 1)
      BY <1>3, <3>1 DEF Plain
    <3>3. /\ running = AddressOf(n)
          /\ \A i \in 1 .. n :
               Exact(i) # 0 /\ AddressOf(i) < Limit /\ starts[i] = AddressOf(i)
      BY <1>1, <3>1 DEF StartsInv, n
    <3>4. running' = AddressOf(n + 1) /\ running' < Limit /\ Exact(n + 1) # 0
      BY <1>1, <1>3, <3>2, <3>3
    <3> QED BY <1>4, <1>8, <3>3, <3>4
  <2> QED BY <2>1, <2>2
<1>10. StartsInv'
  BY <1>1, <1>4, <1>9, SameNumbers DEF StartsInv, Limit
<1>11. StoppedInv'
  BY <1>1 DEF StoppedInv
<1> QED BY <1>5, <1>6, <1>7, <1>10, <1>11 DEF StreamInv

LEMMA TerminatorStep == StreamInv /\ Terminator => StreamInv'
<1> SUFFICES ASSUME StreamInv, Terminator PROVE StreamInv'
  OBVIOUS
<1>1. /\ WalkTyped /\ AlignedInv /\ ResultInv /\ StartsInv
      /\ UNCHANGED <<stream, text, running, cursor, consumed, result, starts>>
      /\ HasByte /\ IsLast /\ Delta = 0
  BY DEF StreamInv, Terminator
<1>2. Plain(Len(starts) + 1) => Exact(Len(starts) + 1) = 0
  BY <1>1, DeltaIsNumber DEF Plain
<1>3. StoppedInv'
  BY <1>1, <1>2, SameNumbers DEF StoppedInv
<1>4. WalkTyped' /\ AlignedInv' /\ ResultInv' /\ StartsInv'
  BY <1>1, SameNumbers DEF WalkTyped, AlignedInv, ResultInv, StartsInv, EndsUpTo, Limit
<1> QED BY <1>3, <1>4 DEF StreamInv

(* A number that the walk has not left ends at a byte it has not passed. *)
LEMMA EndAhead ==
  ASSUME WalkTyped, AlignedInv, Len(starts) < Numbers
  PROVE  \E k \in NumberEnds :
           /\ k > cursor + consumed
           /\ \A j \in 1 .. Len(stream) : cursor < j /\ j < k => stream[j].more
<1> DEFINE ahead == {k \in NumberEnds : k > cursor}
<1>1. /\ NumberEnds \subseteq 1 .. Len(stream) /\ Len(stream) \in Nat
      /\ cursor \in Nat /\ consumed \in Nat
  BY EndsFacts, ByteFacts DEF WalkTyped
<1>2. ahead # {}
  <2>1. SUFFICES ASSUME ahead = {} PROVE FALSE
    OBVIOUS
  <2>2. \A k \in NumberEnds : k <= cursor
    BY <1>1, <2>1
  <2>3. EndsUpTo(cursor) = NumberEnds
    BY <2>2 DEF EndsUpTo
  <2>4. Len(starts) = Numbers /\ Numbers \in Nat
    BY <2>3, EndsFacts DEF AlignedInv, Numbers, WalkTyped
  <2> QED BY <2>4
<1>3. PICK k \in ahead : \A y \in ahead : k <= y
  <2>1. ahead \in SUBSET Nat
    <3>1. \A k \in NumberEnds : k \in Nat
      BY <1>1
    <3> QED BY <3>1
  <2> HIDE DEF ahead
  <2> QED BY <1>2, <2>1, LeastNat
<1>4. k \in NumberEnds /\ k > cursor /\ k \in 1 .. Len(stream) /\ ~stream[k].more
  BY <1>1, <1>3, EndsFacts DEF WalkTyped
<1>5. k > cursor + consumed
  <2>1. SUFFICES ASSUME k <= cursor + consumed PROVE FALSE
    BY <1>1, <1>4
  <2>2. k - cursor \in 1 .. consumed /\ cursor + (k - cursor) = k
    BY <1>1, <1>4, <2>1
  <2> QED BY <1>4, <2>2 DEF AlignedInv
<1>6. ASSUME NEW j \in 1 .. Len(stream), cursor < j, j < k PROVE stream[j].more
  <2>1. j \notin ahead
    BY <1>1, <1>3, <1>4, <1>6
  <2>2. j \notin NumberEnds
    BY <1>1, <1>6, <2>1
  <2> QED BY <2>2, EndsFacts DEF WalkTyped
<1> HIDE DEF ahead
<1> QED BY <1>4, <1>5, <1>6

(* Past the last bit a number that goes on, or still adds bits, is none    *)
(* that fits.                                                              *)
LEMMA TooLong ==
  ASSUME WalkTyped, AlignedInv, StartsInv, Len(starts) < Numbers,
         HasByte, Shift >= Width, ~IsLast
  PROVE  ~Plain(Len(starts) + 1)
<1>1. PICK k \in NumberEnds :
        /\ k > cursor + consumed
        /\ \A j \in 1 .. Len(stream) : cursor < j /\ j < k => stream[j].more
  BY EndAhead
<1>2. /\ cursor \in Nat /\ consumed \in Nat /\ Len(stream) \in Nat
      /\ stream \in Seq(Byte) /\ k \in 1 .. Len(stream)
      /\ Payload \in Nat /\ Width \in Nat /\ Limit \in Nat \ {0}
      /\ cursor + consumed + 1 \in 1 .. Len(stream)
      /\ cursor + 1 \in Nat \ {0}
  BY ByteFacts, EndsFacts, StreamAssumption, LimitType DEF WalkTyped, HasByte
<1> DEFINE D == Digits(cursor + 1)
           n == Len(starts) + 1
<1>3. k > cursor
  BY <1>1, <1>2
<1>4. /\ NumberLength(n) = k - cursor /\ Exact(n) = SumTo(D, k - cursor)
  BY <1>1, <1>3, NextNumber
<1>5. CASE Here.more
  <2>1. k # cursor + consumed + 1
    BY <1>2, <1>5, EndsFacts DEF Here
  <2>2. PICK e \in Nat : e = (k - cursor) - 1 /\ e >= consumed + 1
    BY <1>1, <1>2, <2>1
  <2>3. Payload * e >= Payload * (consumed + 1)
    <3>1. PICK d \in Nat : e = (consumed + 1) + d
      <4>1. e - (consumed + 1) \in Nat /\ e = (consumed + 1) + (e - (consumed + 1))
        BY <1>2, <2>2
      <4> QED BY <4>1
    <3>2. Payload * e = Payload * (consumed + 1) + Payload * d
      BY <1>2, <3>1
    <3>3. Payload * d \in Nat /\ Payload * (consumed + 1) \in Nat
      BY <1>2
    <3> QED BY <3>2, <3>3
  <2>4. Payload * (consumed + 1) = Shift + Payload /\ Shift \in Nat
    BY <1>2 DEF Shift
  <2>5. Payload * e \in Nat
    BY <1>2
  <2>6. ~(Payload * e < Width + Payload)
    BY <1>2, <2>3, <2>4, <2>5
  <2>7. Payload * (NumberLength(n) - 1) = Payload * e
    BY <1>4, <2>2
  <2> QED BY <2>6, <2>7 DEF Plain
<1>6. CASE ~Here.more
  <2>1. k = cursor + consumed + 1
    <3>1. SUFFICES ASSUME k # cursor + consumed + 1 PROVE FALSE
      OBVIOUS
    <3>2. cursor < cursor + consumed + 1 /\ cursor + consumed + 1 < k
      BY <1>1, <1>2, <3>1
    <3> QED BY <1>1, <1>2, <1>6, <3>2 DEF Here
  <2>2. consumed + 1 \in 1 .. (Len(stream) - (cursor + 1) + 1)
        /\ (cursor + 1) + (consumed + 1) - 1 = cursor + consumed + 1
        /\ (consumed + 1) - 1 = consumed /\ k - cursor = consumed + 1
        /\ consumed + 1 \in 1 .. (consumed + 1) /\ consumed + 1 \in Nat
    BY <1>2, <2>1
  <2>3. D[consumed + 1] = Here.bits * Bit(Shift) /\ D[consumed + 1] \in Nat
    <3>1. D[consumed + 1] = stream[(cursor + 1) + (consumed + 1) - 1].bits
                              * Bit(Payload * ((consumed + 1) - 1))
          /\ D[consumed + 1] \in Nat
      BY <1>2, <2>2, DigitFacts
    <3> QED BY <2>2, <3>1 DEF Here, Shift
  <2>4. PICK b \in Nat : b = Here.bits /\ b # 0
    BY <1>2, <1>6, ByteFacts DEF IsLast, Here
  <2>5. PICK v \in Nat : v = Bit(Shift) /\ Limit <= v
    <3>1. Shift \in Nat /\ Width \in 0 .. Shift
      BY <1>2 DEF Shift
    <3> QED BY <3>1, BitsGrow DEF Limit
  <2>6. b * v >= v
    <3>1. PICK c \in Nat : b = c + 1
      <4>1. b - 1 \in Nat /\ b = (b - 1) + 1
        BY <2>4
      <4> QED BY <4>1
    <3>2. b * v = c * v + v /\ c * v \in Nat
      BY <3>1
    <3> QED BY <3>2
  <2>7. D[consumed + 1] >= Limit
    BY <1>2, <2>3, <2>4, <2>5, <2>6
  <2>8. D[consumed + 1] <= Exact(n) /\ Exact(n) \in Nat
    <3>1. \A i \in 1 .. (consumed + 1) : D[i] \in Nat
      <4>1. \A i \in 1 .. (consumed + 1) : i \in 1 .. (Len(stream) - (cursor + 1) + 1)
        BY <1>2
      <4> QED BY <1>2, <4>1, DigitFacts
    <3> HIDE DEF D
    <3> QED BY <1>4, <2>2, <3>1, SumBounds
  <2> HIDE DEF D, n
  <2>9. ~(Exact(n) < Limit)
    BY <1>2, <2>3, <2>7, <2>8
  <2> QED BY <2>9 DEF Plain, n
<1> QED BY <1>5, <1>6

LEMMA BreakStep == StreamInv /\ Break => StreamInv'
<1> SUFFICES ASSUME StreamInv, Break PROVE StreamInv'
  OBVIOUS
<1>1. /\ WalkTyped /\ AlignedInv /\ ResultInv /\ StartsInv
      /\ UNCHANGED <<stream, text, running, cursor, consumed, result, starts>>
      /\ status = "walking"
      /\ \/ ~HasByte
         \/ HasByte /\ Shift >= Width /\ ~IsLast
         \/ HasByte /\ IsLast /\ running + Delta >= Limit
  BY DEF StreamInv, Break
<1> DEFINE n == Len(starts)
<1>2. ASSUME PlainTo(n), n < Numbers, Plain(n + 1)
      PROVE  Exact(n + 1) = 0 \/ ~(AddressOf(n + 1) < Limit)
  <2>1. CASE ~HasByte
    <3>1. PICK k \in NumberEnds : k > cursor + consumed
      BY <1>1, <1>2, EndAhead
    <3>2. k \in 1 .. Len(stream) /\ Len(stream) \in Nat /\ ~(cursor + consumed < Len(stream))
          /\ cursor \in Nat /\ consumed \in Nat
      BY <1>1, <2>1, EndsFacts, ByteFacts DEF HasByte, WalkTyped
    <3> QED BY <3>1, <3>2
  <2>2. CASE HasByte /\ Shift >= Width /\ ~IsLast
    BY <1>1, <1>2, <2>2, TooLong
  <2>3. CASE HasByte /\ IsLast /\ running + Delta >= Limit
    <3>1. /\ AddressOf(n + 1) = AddressOf(n) + Exact(n + 1)
          /\ Delta = Exact(n + 1) /\ Delta \in Nat
      BY <1>1, <1>2, <2>3, DeltaIsNumber DEF Plain
    <3>2. running = AddressOf(n) /\ running \in Nat
      BY <1>1, <1>2 DEF StartsInv, WalkTyped
    <3> QED BY <2>3, <3>1, <3>2, LimitType
  <2> QED BY <1>1, <2>1, <2>2, <2>3
<1>3. StoppedInv'
  BY <1>1, <1>2, SameNumbers DEF StoppedInv, Limit
<1>4. WalkTyped' /\ AlignedInv' /\ ResultInv' /\ StartsInv'
  BY <1>1, SameNumbers DEF WalkTyped, AlignedInv, ResultInv, StartsInv, EndsUpTo, Limit
<1> QED BY <1>3, <1>4 DEF StreamInv

LEMMA StreamStep == StreamInv /\ Walk => StreamInv'
BY TakeByteStep, YieldStep, TerminatorStep, BreakStep DEF Walk

LEMMA StreamKept == StreamInv /\ UNCHANGED walkVars => StreamInv'
<1> SUFFICES ASSUME StreamInv, UNCHANGED walkVars PROVE StreamInv'
  OBVIOUS
<1>1. UNCHANGED <<stream, text, running, cursor, consumed, result, status, starts>>
  BY DEF walkVars
<1> QED BY <1>1, SameNumbers DEF StreamInv, WalkTyped, AlignedInv, ResultInv, StartsInv,
                                 StoppedInv, EndsUpTo, Limit

(* Before it has a stream the walk has told of no function. *)
LEMMA StreamInit == WalkInit => StreamInv
<1> SUFFICES ASSUME WalkInit PROVE StreamInv
  OBVIOUS
<1>1. /\ stream = <<>> /\ text = 0 /\ running = 0 /\ cursor = 0 /\ consumed = 0
      /\ result = 0 /\ status = "walking" /\ starts = <<>>
  BY DEF WalkInit
<1>2. Len(stream) = 0 /\ Len(starts) = 0 /\ starts \in Seq(Nat) /\ stream \in Seq(Byte)
  BY <1>1
<1>3. WalkTyped
  BY <1>1, <1>2 DEF WalkTyped
<1>4. EndsUpTo(cursor) = {}
  BY <1>1 DEF EndsUpTo, NumberEnds
<1>5. AlignedInv
  <2>1. Cardinality(EndsUpTo(cursor)) = Len(starts)
    BY <1>2, <1>4, FS_EmptySet, Zenon
  <2> QED BY <1>1, <2>1 DEF AlignedInv
<1>6. ResultInv
  BY <1>1, SumNone DEF ResultInv
<1>7. StartsInv
  BY <1>1, <1>2, SumNone DEF StartsInv, AddressOf
<1>8. StoppedInv
  BY <1>1 DEF StoppedInv
<1> QED BY <1>3, <1>5, <1>6, <1>7, <1>8 DEF StreamInv

(* Nor at the first byte of one. *)
LEMMA StreamBegins ==
  ASSUME WalkInit, NEW bytes \in Seq(Byte), NEW base \in Nat, WalkFrom(bytes, base)
  PROVE  StreamInv'
<1>1. /\ stream' = bytes /\ text' = base /\ running' = base /\ cursor' = 0 /\ consumed' = 0
      /\ result' = 0 /\ status' = "walking" /\ starts' = <<>>
  BY DEF WalkInit, WalkFrom
<1>2. Len(bytes) \in Nat /\ DOMAIN bytes = 1 .. Len(bytes)
      /\ Len(starts') = 0 /\ starts' \in Seq(Nat)
  BY <1>1
<1>3. WalkTyped'
  BY <1>1, <1>2 DEF WalkTyped
<1>4. EndsUpTo(cursor)' = {}
  <2>1. \A j \in NumberEnds' : ~(j <= 0)
    BY <1>1, <1>2 DEF NumberEnds
  <2> QED BY <1>1, <2>1 DEF EndsUpTo
<1>5. AlignedInv'
  <2>1. Cardinality(EndsUpTo(cursor)') = Len(starts')
    BY <1>2, <1>4, FS_EmptySet, Zenon
  <2> QED BY <1>1, <2>1 DEF AlignedInv
<1>6. ResultInv'
  BY <1>1, SumNone DEF ResultInv
<1>7. StartsInv'
  BY <1>1, <1>2, SumNone DEF StartsInv, AddressOf
<1>8. StoppedInv'
  BY <1>1 DEF StoppedInv
<1> QED BY <1>3, <1>5, <1>6, <1>7, <1>8 DEF StreamInv

(* Nor where there is none to walk. *)
LEMMA StreamEmpty == WalkInit /\ WalkNothing => StreamInv'
<1> SUFFICES ASSUME WalkInit, WalkNothing PROVE StreamInv'
  OBVIOUS
<1>1. /\ StreamInv /\ stream = <<>> /\ starts = <<>>
      /\ UNCHANGED <<stream, text, running, cursor, consumed, result, starts>>
  BY StreamInit DEF WalkInit, WalkNothing
<1>2. Numbers = 0
  BY <1>1, FS_EmptySet DEF Numbers, NumberEnds
<1>3. StoppedInv'
  BY <1>1, <1>2, SameNumbers DEF StoppedInv
<1> QED BY <1>1, <1>3, SameNumbers DEF StreamInv, WalkTyped, AlignedInv, ResultInv,
                                       StartsInv, EndsUpTo, Limit

(* The rows of the walk are what the property asks for. *)
LEMMA StreamYields == StreamInv => YieldsEveryStart
<1> SUFFICES ASSUME StreamInv PROVE YieldsEveryStart
  OBVIOUS
<1>1. WalkTyped /\ AlignedInv /\ StartsInv /\ StoppedInv
  BY DEF StreamInv
<1>2. Len(starts) \in Nat
  BY <1>1 DEF WalkTyped
<1>3. \A n \in 1 .. Len(starts) : PlainTo(Len(starts)) => PlainTo(n)
  BY <1>2 DEF PlainTo
<1> QED BY <1>1, <1>2, <1>3 DEF YieldsEveryStart, StartsInv, StoppedInv, PlainTo
-----------------------------------------------------------------------------
Absorbing == {"commands", "walk", "done"}

Header ==
  [uuid: Values \cup {None}, source: Values \cup {None}, fixups: Values \cup {None},
   signature: Values \cup {None}, starts: StartsValue \cup {None},
   minOs: Versions \cup {None}, sdk: Nat \cup {None}, tools: Seq(Nat),
   dylinker: Values \cup {None}]

TypeOK ==
  /\ file \in File
  /\ want \in {Any} \cup [type: Nat, subtype: Nat]
  /\ phase \in Absorbing \cup {"slices", "failed"}
  /\ tried \in 0 .. Len(file.slices)
  /\ taken \in Nat
  /\ header \in Header
  /\ phase \in Absorbing => /\ tried < Len(file.slices)
                            /\ taken <= Len(Slice.commands)

(* The loop stops at the first slice it may choose. *)
SliceInv ==
  /\ \A k \in 1 .. tried : ~Chosen(file.slices[k])
  /\ phase \in Absorbing => Chosen(Slice)
  /\ phase = "failed" => tried = Len(file.slices)

(* Those of the first n commands that have the kind. *)
Kind(cmds, n, kind) == {k \in 1 .. n : cmds[k].kind = kind}

(* What the first n commands make of the version fields and of starts. *)
VersionsDecided(cmds, n, h) ==
  /\ Kind(cmds, n, "build") # {} =>
       \E k \in Kind(cmds, n, "build") :
         h.minOs = cmds[k].version /\ h.sdk = cmds[k].sdk
  /\ Kind(cmds, n, "build") = {} /\ Kind(cmds, n, "min") # {} =>
       \E k \in Kind(cmds, n, "min") :
         /\ \A j \in Kind(cmds, n, "min") : k <= j
         /\ h.minOs = cmds[k].version
  /\ Kind(cmds, n, "build") = {} /\ Kind(cmds, n, "min") = {} =>
       h.minOs = None /\ h.sdk = None

StartsDecided(cmds, n, h) ==
  \/ Kind(cmds, n, "starts") = {} /\ h.starts = None
  \/ \E k \in Kind(cmds, n, "starts") :
       /\ \A j \in Kind(cmds, n, "starts") : j <= k
       /\ h.starts = cmds[k].value

FieldsInv ==
  /\ phase = "slices" => taken = 0 /\ header = NoHeader
  /\ phase \in Absorbing => /\ VersionsDecided(Slice.commands, taken, header)
                            /\ StartsDecided(Slice.commands, taken, header)

(* The walk reads the bytes of the last command, or is over with nothing.  *)
WalkInv ==
  /\ phase \in {"slices", "commands"} => status = "walking" /\ starts = <<>>
  /\ phase = "walk" => header.starts # None
  /\ phase \in {"walk", "done"} /\ header.starts # None =>
       IF header.starts.inFile /\ Slice.text # None
       THEN stream = header.starts.bytes /\ text = Slice.text
       ELSE status = "done" /\ starts = <<>>
  /\ phase = "done" =>
       count = IF header.starts = None THEN None ELSE Len(starts)

(* Before the count is taken there is none. *)
CountInv == phase \in {"slices", "commands", "walk"} => count = None

HeaderInv == TypeOK /\ SliceInv /\ FieldsInv /\ WalkInv /\ CountInv
-----------------------------------------------------------------------------
(* A file is typed down to each command of each slice. *)
LEMMA SliceFacts ==
  ASSUME NEW f \in File, NEW k \in 1 .. Len(f.slices)
  PROVE  /\ Len(f.slices) \in Nat
         /\ DOMAIN f.slices = 1 .. Len(f.slices)
         /\ f.slices[k] \in FatSlice
         /\ f.slices[k].commands \in Seq(LoadCommand)
         /\ Len(f.slices[k].commands) \in Nat
<1>1. f.slices \in Seq(FatSlice)
  BY DEF File
<1>2. f.slices[k] \in FatSlice
  BY <1>1
<1>3. f.slices[k].commands \in Seq(LoadCommand)
  BY <1>2 DEF FatSlice
<1> QED BY <1>1, <1>2, <1>3

LEMMA CommandFacts ==
  ASSUME NEW c \in LoadCommand
  PROVE  /\ c.kind = "build" => /\ c.version \in Versions /\ c.sdk \in Nat
                                /\ c.tools \in Seq(Nat) /\ c.ntools \in Nat
         /\ c.kind = "min" => c.version \in Versions /\ c.sdk \in Nat
         /\ c.kind = "starts" => c.value \in StartsValue
         /\ c.kind \in LastWins \ {"starts"} => c.value \in Values
         /\ c.kind = "dylinker" => c.value \in Values \cup {None}
BY DEF LoadCommand, LastWins

(* What no field holds is no value of one. *)
LEMMA NoneIsNoValue ==
  /\ None \notin Versions /\ None \notin Values /\ None \notin Nat
  /\ None \notin StartsValue
BY HeaderAssumption

(* One command more. *)
LEMMA OneMore ==
  ASSUME NEW cmds, NEW n \in Nat, NEW kind
  PROVE  Kind(cmds, n + 1, kind)
           = IF cmds[n + 1].kind = kind THEN Kind(cmds, n, kind) \cup {n + 1}
             ELSE Kind(cmds, n, kind)
<1>1. 1 .. (n + 1) = (1 .. n) \cup {n + 1}
  OBVIOUS
<1> QED BY <1>1 DEF Kind

LEMMA NoneYet ==
  ASSUME NEW cmds, NEW kind
  PROVE  Kind(cmds, 0, kind) = {}
BY DEF Kind

(* The first and the last of a set of positions are what they are. *)
LEMMA FirstIs ==
  ASSUME NEW ks \in SUBSET Nat, NEW k \in ks, \A h \in ks : k <= h
  PROVE  FirstOf(ks) = k
<1>1. FirstOf(ks) \in ks /\ \A h \in ks : FirstOf(ks) <= h
  BY DEF FirstOf
<1>2. PICK f \in Nat : f = FirstOf(ks)
  BY <1>1
<1>3. k \in Nat /\ f <= k /\ k <= f
  BY <1>1, <1>2
<1> QED BY <1>2, <1>3

LEMMA LastIs ==
  ASSUME NEW ks \in SUBSET Nat, NEW k \in ks, \A h \in ks : h <= k
  PROVE  LastOf(ks) = k
<1>1. LastOf(ks) \in ks /\ \A h \in ks : h <= LastOf(ks)
  BY DEF LastOf
<1>2. PICK f \in Nat : f = LastOf(ks)
  BY <1>1
<1>3. k \in Nat /\ f <= k /\ k <= f
  BY <1>1, <1>2
<1> QED BY <1>2, <1>3

(* Two remainders are equal just when the difference has none. *)
LEMMA SameRemainder ==
  ASSUME NEW a \in Nat, NEW b \in Nat, NEW m \in Nat \ {0}
  PROVE  (a % m = b % m) <=> ((a - b) % m = 0)
<1>1. /\ a = m * (a \div m) + (a % m) /\ b = m * (b \div m) + (b % m)
      /\ a - b = m * ((a - b) \div m) + ((a - b) % m)
  BY Z3
<1>2. /\ a % m \in 0 .. (m - 1) /\ b % m \in 0 .. (m - 1)
      /\ (a - b) % m \in 0 .. (m - 1)
      /\ a \div m \in Int /\ b \div m \in Int /\ (a - b) \div m \in Int
  OBVIOUS
<1>3. PICK p \in Int, q \in Int, d \in Int, r \in 0 .. (m - 1), s \in 0 .. (m - 1),
           t \in 0 .. (m - 1) :
        /\ a = m * p + r /\ b = m * q + s /\ a - b = m * d + t
        /\ r = a % m /\ s = b % m /\ t = (a - b) % m
  BY <1>1, <1>2
<1>4. m * p + r - (m * q + s) = m * d + t
  BY <1>3
<1>5. m * (p - q - d) = t + s - r
  BY <1>4, Z3
<1>6. PICK e \in Int : e = p - q - d
  BY <1>3
<1>7. m * e = t + s - r
  BY <1>5, <1>6
<1>8. CASE r = s
  <2>1. m * e = t
    BY <1>7, <1>8
  <2>2. t = 0
    BY <2>1, <1>3, Z3
  <2> QED BY <1>3, <1>8, <2>2
<1>9. CASE r # s
  <2>1. SUFFICES ASSUME t = 0 PROVE FALSE
    BY <1>3, <1>9
  <2>2. m * e = s - r /\ s - r < m /\ r - s < m /\ s - r # 0
    BY <1>7, <1>9, <2>1
  <2> QED BY <2>2, Z3
<1> QED BY <1>8, <1>9
-----------------------------------------------------------------------------
(* What one command more decides, and what it leaves. *)
LEMMA VersionsKept ==
  ASSUME NEW cmds, NEW n \in Nat, NEW h, NEW g,
         cmds[n + 1].kind \notin {"build", "min"},
         g.minOs = h.minOs, g.sdk = h.sdk, VersionsDecided(cmds, n, h)
  PROVE  VersionsDecided(cmds, n + 1, g)
<1>1. /\ Kind(cmds, n + 1, "build") = Kind(cmds, n, "build")
      /\ Kind(cmds, n + 1, "min") = Kind(cmds, n, "min")
  BY OneMore
<1> QED BY <1>1 DEF VersionsDecided

LEMMA StartsKept ==
  ASSUME NEW cmds, NEW n \in Nat, NEW h, NEW g,
         cmds[n + 1].kind # "starts", g.starts = h.starts, StartsDecided(cmds, n, h)
  PROVE  StartsDecided(cmds, n + 1, g)
<1>1. Kind(cmds, n + 1, "starts") = Kind(cmds, n, "starts")
  BY OneMore
<1> QED BY <1>1 DEF StartsDecided

LEMMA StartsTaken ==
  ASSUME NEW cmds, NEW n \in Nat, NEW g,
         cmds[n + 1].kind = "starts", g.starts = cmds[n + 1].value
  PROVE  StartsDecided(cmds, n + 1, g)
<1>1. n + 1 \in Kind(cmds, n + 1, "starts")
  BY OneMore
<1>2. \A j \in Kind(cmds, n + 1, "starts") : j <= n + 1
  BY DEF Kind
<1> QED BY <1>1, <1>2 DEF StartsDecided

LEMMA BuildTaken ==
  ASSUME NEW cmds, NEW n \in Nat, NEW g, cmds[n + 1].kind = "build",
         g.minOs = cmds[n + 1].version, g.sdk = cmds[n + 1].sdk
  PROVE  VersionsDecided(cmds, n + 1, g)
<1>1. n + 1 \in Kind(cmds, n + 1, "build")
  BY OneMore
<1> QED BY <1>1 DEF VersionsDecided

(* A legacy command changes nothing a build command said, and of legacy    *)
(* commands only the first counts.                                         *)
LEMMA MinTaken ==
  ASSUME NEW cmds \in Seq(LoadCommand), NEW n \in Nat, n < Len(cmds), NEW h, NEW g,
         cmds[n + 1].kind = "min", VersionsDecided(cmds, n, h),
         g.minOs = IF h.minOs = None THEN cmds[n + 1].version ELSE h.minOs,
         g.sdk = IF h.sdk = None /\ cmds[n + 1].sdk # 0 THEN cmds[n + 1].sdk ELSE h.sdk
  PROVE  VersionsDecided(cmds, n + 1, g)
<1> DEFINE build == Kind(cmds, n, "build")
           min   == Kind(cmds, n, "min")
<1>1. /\ Kind(cmds, n + 1, "build") = build
      /\ Kind(cmds, n + 1, "min") = min \cup {n + 1}
  BY OneMore
<1>2. \A k \in build \cup min : k \in Nat /\ k <= n /\ cmds[k] \in LoadCommand
  BY DEF Kind
<1>3. /\ \A k \in build : cmds[k].version # None /\ cmds[k].sdk # None
      /\ \A k \in min : cmds[k].version # None
  <2>1. /\ \A k \in build : cmds[k].kind = "build"
        /\ \A k \in min : cmds[k].kind = "min"
    BY DEF Kind
  <2> QED BY <1>2, <2>1, CommandFacts, NoneIsNoValue
<1> HIDE DEF build, min
<1>4. CASE build # {}
  <2>1. PICK k \in build : h.minOs = cmds[k].version /\ h.sdk = cmds[k].sdk
    BY <1>4 DEF VersionsDecided, build
  <2>2. g.minOs = cmds[k].version /\ g.sdk = cmds[k].sdk
    BY <1>3, <2>1
  <2> QED BY <1>1, <1>4, <2>2 DEF VersionsDecided
<1>5. CASE build = {} /\ min # {}
  <2>1. PICK k \in min : /\ \A j \in min : k <= j
                         /\ h.minOs = cmds[k].version
    BY <1>5 DEF VersionsDecided, build, min
  <2>2. g.minOs = cmds[k].version
    BY <1>3, <2>1
  <2>3. \A j \in min \cup {n + 1} : k <= j
    BY <1>2, <2>1
  <2> QED BY <1>1, <1>5, <2>1, <2>2, <2>3 DEF VersionsDecided
<1>6. CASE build = {} /\ min = {}
  <2>1. g.minOs = cmds[n + 1].version
    BY <1>6 DEF VersionsDecided, build, min
  <2>2. \A j \in min \cup {n + 1} : n + 1 <= j
    BY <1>6
  <2> QED BY <1>1, <1>6, <2>1, <2>2 DEF VersionsDecided
<1> QED BY <1>4, <1>5, <1>6
-----------------------------------------------------------------------------
(* The steps. *)

LEMMA InitInv == Init => HeaderInv
<1> SUFFICES ASSUME Init PROVE HeaderInv
  OBVIOUS
<1>1. /\ file \in File /\ want \in {Any} \cup [type: Nat, subtype: Nat]
      /\ phase = "slices" /\ tried = 0 /\ taken = 0 /\ header = NoHeader
      /\ count = None /\ status = "walking" /\ starts = <<>>
  BY HeaderAssumption DEF Init, WalkInit
<1>2. header \in Header
  BY <1>1 DEF NoHeader, Header
<1>3. Len(file.slices) \in Nat
  BY <1>1 DEF File
<1> QED BY <1>1, <1>2, <1>3 DEF HeaderInv, TypeOK, SliceInv, FieldsInv, WalkInv, CountInv,
                                Absorbing

LEMMA SlicesStep ==
  HeaderInv /\ (PickSlice \/ SkipSlice \/ NoSlice) => HeaderInv'
<1> SUFFICES ASSUME HeaderInv, PickSlice \/ SkipSlice \/ NoSlice PROVE HeaderInv'
  OBVIOUS
<1>1. /\ TypeOK /\ SliceInv /\ FieldsInv /\ WalkInv /\ CountInv /\ phase = "slices"
      /\ UNCHANGED <<file, want, taken, header, count, walkVars>>
  BY DEF HeaderInv, PickSlice, SkipSlice, NoSlice
<1>2. taken = 0 /\ header = NoHeader /\ Len(file.slices) \in Nat
  BY <1>1 DEF FieldsInv, TypeOK, File
<1>3. CASE PickSlice
  <2>1. /\ tried < Len(file.slices) /\ Chosen(Slice) /\ phase' = "commands"
        /\ tried' = tried
    BY <1>3 DEF PickSlice
  <2>2. Slice' = Slice
    BY <1>1, <2>1 DEF Slice
  <2>3. Len(Slice.commands) \in Nat
    BY <1>1, <1>2, <2>1, SliceFacts DEF TypeOK, Slice
  <2>4. TypeOK'
    BY <1>1, <1>2, <2>1, <2>2, <2>3 DEF TypeOK, Absorbing
  <2>5. SliceInv'
    BY <1>1, <2>1, <2>2 DEF SliceInv, Absorbing, Chosen, ArchMatches
  <2>6. /\ VersionsDecided(Slice.commands, 0, NoHeader)
        /\ StartsDecided(Slice.commands, 0, NoHeader)
    BY NoneYet DEF VersionsDecided, StartsDecided, NoHeader
  <2>7. FieldsInv'
    BY <1>1, <1>2, <2>1, <2>2, <2>6 DEF FieldsInv
  <2>8. WalkInv' /\ CountInv'
    BY <1>1, <2>1 DEF WalkInv, CountInv, walkVars
  <2> QED BY <2>4, <2>5, <2>7, <2>8 DEF HeaderInv
<1>4. CASE SkipSlice
  <2>1. /\ tried < Len(file.slices) /\ ~Chosen(Slice) /\ phase' = "slices"
        /\ tried' = tried + 1
    BY <1>1, <1>4 DEF SkipSlice
  <2>2. TypeOK'
    BY <1>1, <1>2, <2>1 DEF TypeOK, Absorbing
  <2>3. \A k \in 1 .. (tried + 1) : ~Chosen(file.slices[k])
    <3>1. tried \in Nat
      BY <1>1, <1>2 DEF TypeOK
    <3>2. \A k \in 1 .. (tried + 1) : k \in 1 .. tried \/ k = tried + 1
      BY <3>1
    <3> QED BY <1>1, <2>1, <3>2 DEF SliceInv, Slice
  <2>4. SliceInv'
    BY <1>1, <2>1, <2>3 DEF SliceInv, Absorbing, Chosen, ArchMatches
  <2>5. FieldsInv' /\ WalkInv' /\ CountInv'
    BY <1>1, <1>2, <2>1 DEF FieldsInv, WalkInv, CountInv, walkVars, Absorbing
  <2> QED BY <2>2, <2>4, <2>5 DEF HeaderInv
<1>5. CASE NoSlice
  <2>1. tried = Len(file.slices) /\ phase' = "failed" /\ tried' = tried
    BY <1>5 DEF NoSlice
  <2>2. TypeOK'
    BY <1>1, <2>1 DEF TypeOK, Absorbing
  <2>3. SliceInv'
    BY <1>1, <2>1 DEF SliceInv, Absorbing, Chosen, ArchMatches
  <2>4. FieldsInv' /\ WalkInv' /\ CountInv'
    BY <2>1 DEF FieldsInv, WalkInv, CountInv, Absorbing
  <2> QED BY <2>2, <2>3, <2>4 DEF HeaderInv
<1> QED BY <1>3, <1>4, <1>5

(* The command under the loop. *)
LEMMA CommandAt ==
  ASSUME TypeOK, phase = "commands", taken < Len(Slice.commands)
  PROVE  /\ Slice.commands \in Seq(LoadCommand) /\ Command \in LoadCommand
         /\ taken \in Nat /\ Len(Slice.commands) \in Nat
<1>1. file \in File /\ tried + 1 \in 1 .. Len(file.slices) /\ taken \in Nat
  <2>1. Len(file.slices) \in Nat
    BY DEF TypeOK, File
  <2> QED BY <2>1 DEF TypeOK, Absorbing
<1>2. Slice.commands \in Seq(LoadCommand) /\ Len(Slice.commands) \in Nat
  BY <1>1, SliceFacts DEF Slice
<1>3. taken + 1 \in 1 .. Len(Slice.commands)
  BY <1>1, <1>2
<1> QED BY <1>1, <1>2, <1>3 DEF Command

(* A command absorbed keeps the invariant if the fields it leaves are      *)
(* those that the list up to it decides.                                   *)
LEMMA AbsorbStep ==
  ASSUME HeaderInv, NEW kind, Absorb(kind), header' \in Header,
         VersionsDecided(Slice.commands, taken + 1, header'),
         StartsDecided(Slice.commands, taken + 1, header')
  PROVE  HeaderInv'
<1>1. /\ TypeOK /\ SliceInv /\ FieldsInv /\ WalkInv /\ CountInv
      /\ phase = "commands" /\ taken < Len(Slice.commands) /\ taken' = taken + 1
      /\ UNCHANGED <<file, want, phase, tried, count, walkVars>>
  BY DEF HeaderInv, Absorb
<1>2. Slice' = Slice
  BY <1>1 DEF Slice
<1>3. taken \in Nat /\ Len(Slice.commands) \in Nat
  BY <1>1, CommandAt
<1>4. TypeOK'
  BY <1>1, <1>2, <1>3 DEF TypeOK, Absorbing
<1>5. SliceInv'
  BY <1>1, <1>2 DEF SliceInv, Absorbing, Chosen, ArchMatches
<1>6. FieldsInv'
  BY <1>1, <1>2 DEF FieldsInv
<1>7. WalkInv' /\ CountInv'
  BY <1>1 DEF WalkInv, CountInv, walkVars
<1> QED BY <1>4, <1>5, <1>6, <1>7 DEF HeaderInv

LEMMA LastStep == HeaderInv /\ TakeLast => HeaderInv'
<1> SUFFICES ASSUME HeaderInv, NEW kind \in LastWins, Absorb(kind),
                    header' = [header EXCEPT ![kind] = Command.value]
             PROVE  HeaderInv'
  BY DEF TakeLast
<1>1. /\ TypeOK /\ FieldsInv /\ phase = "commands" /\ taken < Len(Slice.commands)
      /\ Command.kind = kind /\ Command = Slice.commands[taken + 1]
  BY DEF HeaderInv, Absorb, Command
<1>2. /\ Command \in LoadCommand /\ taken \in Nat /\ header \in Header
      /\ VersionsDecided(Slice.commands, taken, header)
      /\ StartsDecided(Slice.commands, taken, header)
  BY <1>1, CommandAt DEF TypeOK, FieldsInv, Absorbing
<1>3. PICK c \in LoadCommand : c = Command
  BY <1>2
<1>4. IF kind = "starts" THEN c.value \in StartsValue ELSE c.value \in Values
  BY <1>1, <1>3, CommandFacts DEF LastWins
<1>5. /\ header' \in Header
      /\ header'.minOs = header.minOs /\ header'.sdk = header.sdk
      /\ kind # "starts" => header'.starts = header.starts
      /\ kind = "starts" => header'.starts = c.value
  BY <1>2, <1>3, <1>4 DEF Header, LastWins
<1>6. VersionsDecided(Slice.commands, taken + 1, header')
  BY <1>1, <1>2, <1>5, VersionsKept DEF LastWins
<1>7. StartsDecided(Slice.commands, taken + 1, header')
  BY <1>1, <1>2, <1>3, <1>5, StartsKept, StartsTaken
<1> QED BY <1>5, <1>6, <1>7, AbsorbStep

LEMMA BuildStep == HeaderInv /\ TakeBuildVersion => HeaderInv'
<1> SUFFICES ASSUME HeaderInv, TakeBuildVersion PROVE HeaderInv'
  OBVIOUS
<1>1. /\ TypeOK /\ FieldsInv /\ phase = "commands" /\ taken < Len(Slice.commands)
      /\ Absorb("build")
      /\ Command.kind = "build" /\ Command = Slice.commands[taken + 1]
  BY DEF HeaderInv, TakeBuildVersion, Absorb, Command
<1>2. /\ Command \in LoadCommand /\ taken \in Nat /\ header \in Header
      /\ VersionsDecided(Slice.commands, taken, header)
      /\ StartsDecided(Slice.commands, taken, header)
  BY <1>1, CommandAt DEF TypeOK, FieldsInv, Absorbing
<1>3. PICK c \in LoadCommand : c = Command
  BY <1>2
<1>4. c.version \in Versions /\ c.sdk \in Nat /\ c.tools \in Seq(Nat) /\ c.ntools \in Nat
  BY <1>1, <1>3, CommandFacts
<1>5. ToolsOf(c) \in Seq(Nat)
  BY <1>4 DEF ToolsOf
<1>6. header' = [header EXCEPT !.minOs = c.version, !.sdk = c.sdk,
                               !.tools = @ \o ToolsOf(c)]
  BY <1>3 DEF TakeBuildVersion
<1>7. header.tools \o ToolsOf(c) \in Seq(Nat)
  BY <1>2, <1>5 DEF Header
<1>8. /\ header' \in Header
      /\ header'.minOs = c.version /\ header'.sdk = c.sdk
      /\ header'.starts = header.starts
  BY <1>2, <1>4, <1>6, <1>7 DEF Header
<1>9. VersionsDecided(Slice.commands, taken + 1, header')
  BY <1>1, <1>2, <1>3, <1>8, BuildTaken
<1>10. StartsDecided(Slice.commands, taken + 1, header')
  BY <1>1, <1>2, <1>8, StartsKept
<1> QED BY <1>1, <1>8, <1>9, <1>10, AbsorbStep

LEMMA MinStep == HeaderInv /\ TakeVersionMin => HeaderInv'
<1> SUFFICES ASSUME HeaderInv, TakeVersionMin PROVE HeaderInv'
  OBVIOUS
<1>1. /\ TypeOK /\ FieldsInv /\ phase = "commands" /\ taken < Len(Slice.commands)
      /\ Absorb("min")
      /\ Command.kind = "min" /\ Command = Slice.commands[taken + 1]
  BY DEF HeaderInv, TakeVersionMin, Absorb, Command
<1>2. /\ Command \in LoadCommand /\ taken \in Nat /\ header \in Header
      /\ Slice.commands \in Seq(LoadCommand)
      /\ VersionsDecided(Slice.commands, taken, header)
      /\ StartsDecided(Slice.commands, taken, header)
  BY <1>1, CommandAt DEF TypeOK, FieldsInv, Absorbing
<1>3. PICK c \in LoadCommand : c = Command
  BY <1>2
<1>4. c.version \in Versions /\ c.sdk \in Nat
  BY <1>1, <1>3, CommandFacts
<1>5. header' = [header EXCEPT
        !.minOs = IF @ = None THEN c.version ELSE @,
        !.sdk = IF @ = None /\ c.sdk # 0 THEN c.sdk ELSE @]
  BY <1>3 DEF TakeVersionMin
<1>6. /\ header' \in Header
      /\ header'.minOs = IF header.minOs = None THEN c.version ELSE header.minOs
      /\ header'.sdk = IF header.sdk = None /\ c.sdk # 0 THEN c.sdk ELSE header.sdk
      /\ header'.starts = header.starts
  BY <1>2, <1>4, <1>5 DEF Header
<1>7. VersionsDecided(Slice.commands, taken + 1, header')
  BY <1>1, <1>2, <1>3, <1>6, MinTaken
<1>8. StartsDecided(Slice.commands, taken + 1, header')
  BY <1>1, <1>2, <1>6, StartsKept
<1> QED BY <1>1, <1>6, <1>7, <1>8, AbsorbStep

LEMMA OtherStep == HeaderInv /\ (TakeDylinker \/ TakeOther) => HeaderInv'
<1> SUFFICES ASSUME HeaderInv, TakeDylinker \/ TakeOther PROVE HeaderInv'
  OBVIOUS
<1>1. PICK kind \in {"dylinker", "other"} :
        /\ Absorb(kind)
        /\ \/ header' = header
           \/ /\ kind = "dylinker"
              /\ header' = [header EXCEPT !.dylinker = Command.value]
  <2>1. CASE TakeOther
    BY <2>1 DEF TakeOther
  <2>2. CASE TakeDylinker
    <3>1. header \in Header /\ Absorb("dylinker")
      BY <2>2 DEF HeaderInv, TypeOK, TakeDylinker
    <3>2. [header EXCEPT !.dylinker = @] = header
      BY <3>1 DEF Header
    <3> QED BY <2>2, <3>1, <3>2 DEF TakeDylinker
  <2> QED BY <2>1, <2>2
<1>2. /\ TypeOK /\ FieldsInv /\ phase = "commands" /\ taken < Len(Slice.commands)
      /\ Command.kind = kind /\ Command = Slice.commands[taken + 1]
  BY <1>1 DEF HeaderInv, Absorb, Command
<1>3. /\ Command \in LoadCommand /\ taken \in Nat /\ header \in Header
      /\ VersionsDecided(Slice.commands, taken, header)
      /\ StartsDecided(Slice.commands, taken, header)
  BY <1>2, CommandAt DEF TypeOK, FieldsInv, Absorbing
<1>4. kind = "dylinker" => Command.value \in Values \cup {None}
  BY <1>2, <1>3, CommandFacts
<1>5. /\ header' \in Header
      /\ header'.minOs = header.minOs /\ header'.sdk = header.sdk
      /\ header'.starts = header.starts
  BY <1>1, <1>3, <1>4 DEF Header
<1>6. VersionsDecided(Slice.commands, taken + 1, header')
  BY <1>2, <1>3, <1>5, VersionsKept
<1>7. StartsDecided(Slice.commands, taken + 1, header')
  BY <1>2, <1>3, <1>5, StartsKept
<1> QED BY <1>1, <1>5, <1>6, <1>7, AbsorbStep

(* Only the walk moves, and only while bytes are left to it. *)
LEMMA WalkFrame ==
  WalkStarts => /\ UNCHANGED parseVars /\ phase = "walk" /\ status = "walking"
                /\ stream' = stream /\ text' = text
BY DEF WalkStarts, Walk, TakeByte, Yield, Terminator, Break, HasByte

LEMMA WalkStep ==
  HeaderInv /\ (BeginWalk \/ NothingToWalk \/ WalkStarts \/ Count) => HeaderInv'
<1> SUFFICES ASSUME HeaderInv, BeginWalk \/ NothingToWalk \/ WalkStarts \/ Count
             PROVE  HeaderInv'
  OBVIOUS
<1>1. TypeOK /\ SliceInv /\ FieldsInv /\ WalkInv /\ CountInv
  BY DEF HeaderInv
<1>2. /\ UNCHANGED <<file, want, tried, taken, header>>
      /\ phase \in Absorbing /\ phase' \in Absorbing
  BY WalkFrame DEF BeginWalk, NothingToWalk, Count, Absorbing, parseVars
<1>3. Slice' = Slice
  BY <1>2 DEF Slice
<1>4. TypeOK' /\ SliceInv' /\ FieldsInv'
  <2>1. phase # "slices" /\ phase' # "slices" /\ phase' # "failed"
    BY <1>2 DEF Absorbing
  <2>2. TypeOK'
    BY <1>1, <1>2, <1>3 DEF TypeOK
  <2>3. SliceInv'
    BY <1>1, <1>2, <1>3, <2>1 DEF SliceInv, Chosen, ArchMatches
  <2>4. FieldsInv'
    BY <1>1, <1>2, <1>3, <2>1 DEF FieldsInv
  <2> QED BY <2>2, <2>3, <2>4
<1>5. CASE BeginWalk
  <2>1. /\ phase = "commands" /\ header.starts # None /\ phase' = "walk"
        /\ count' = count
        /\ IF header.starts.inFile /\ Slice.text # None
           THEN WalkFrom(header.starts.bytes, Slice.text) ELSE WalkNothing
    BY <1>5 DEF BeginWalk
  <2>2. starts = <<>>
    BY <1>1, <2>1 DEF WalkInv
  <2>3. IF header.starts.inFile /\ Slice.text # None
        THEN stream' = header.starts.bytes /\ text' = Slice.text
        ELSE status' = "done" /\ starts' = <<>>
    BY <2>1, <2>2 DEF WalkFrom, WalkNothing
  <2>4. WalkInv'
    BY <1>2, <1>3, <2>1, <2>3 DEF WalkInv
  <2>5. CountInv'
    BY <1>1, <2>1 DEF CountInv
  <2> QED BY <1>4, <2>4, <2>5 DEF HeaderInv
<1>6. CASE NothingToWalk
  <2>1. phase = "commands" /\ header.starts = None /\ phase' = "done" /\ count' = count
    BY <1>6 DEF NothingToWalk
  <2>2. WalkInv' /\ CountInv'
    BY <1>1, <1>2, <2>1 DEF WalkInv, CountInv
  <2> QED BY <1>4, <2>2 DEF HeaderInv
<1>7. CASE WalkStarts
  <2>1. /\ phase = "walk" /\ phase' = "walk" /\ count' = count
        /\ stream' = stream /\ text' = text /\ status = "walking"
    BY <1>7, WalkFrame DEF parseVars
  <2>2. header.starts # None /\ header.starts.inFile /\ Slice.text # None
    BY <1>1, <2>1 DEF WalkInv
  <2>3. WalkInv' /\ CountInv'
    BY <1>1, <1>2, <1>3, <2>1, <2>2 DEF WalkInv, CountInv
  <2> QED BY <1>4, <2>3 DEF HeaderInv
<1>8. CASE Count
  <2>1. /\ phase = "walk" /\ phase' = "done" /\ count' = Len(starts)
        /\ UNCHANGED walkVars
    BY <1>8 DEF Count
  <2>2. WalkInv' /\ CountInv'
    BY <1>1, <1>2, <1>3, <2>1 DEF WalkInv, CountInv, walkVars
  <2> QED BY <1>4, <2>2 DEF HeaderInv
<1> QED BY <1>5, <1>6, <1>7, <1>8

LEMMA IdleStep == HeaderInv /\ UNCHANGED vars => HeaderInv'
<1> SUFFICES ASSUME HeaderInv, UNCHANGED vars PROVE HeaderInv'
  OBVIOUS
<1>1. UNCHANGED <<file, want, phase, tried, taken, header, count, walkVars>>
  BY DEF vars, parseVars
<1>2. Slice' = Slice
  BY <1>1 DEF Slice
<1>3. TypeOK' /\ SliceInv' /\ FieldsInv'
  BY <1>1, <1>2 DEF HeaderInv, TypeOK, SliceInv, FieldsInv, Chosen, ArchMatches
<1>4. WalkInv' /\ CountInv'
  BY <1>1, <1>2 DEF HeaderInv, WalkInv, CountInv, walkVars
<1> QED BY <1>3, <1>4 DEF HeaderInv

(* The invariant holds in every state of every parse. *)
LEMMA HeaderCorrect == Spec => []HeaderInv
<1>1. HeaderInv /\ [Next]_vars => HeaderInv'
  <2> SUFFICES ASSUME HeaderInv, [Next]_vars PROVE HeaderInv'
    OBVIOUS
  <2>1. ASSUME Work PROVE HeaderInv'
    BY <2>1, SlicesStep, LastStep, BuildStep, MinStep, OtherStep, WalkStep DEF Work
  <2>2. ASSUME Parsed \/ UNCHANGED vars PROVE HeaderInv'
    BY <2>2, IdleStep DEF Parsed
  <2> QED BY <2>1, <2>2 DEF Next
<1> QED BY InitInv, <1>1, PTL DEF Spec
-----------------------------------------------------------------------------
(* Header fields, positions and selections stay well typed. *)
THEOREM TypeCorrect == Spec => []TypeOK
<1>1. HeaderInv => TypeOK
  BY DEF HeaderInv
<1> QED BY <1>1, HeaderCorrect, PTL

(* MachoBinary::parse and parse_with_arch return the first slice that can  *)
(* be decoded and matches, and fail only when there is none.               *)
THEOREM FirstSlice == Spec => []FirstMatchingSlice
<1>1. HeaderInv => FirstMatchingSlice
  <2> SUFFICES ASSUME HeaderInv PROVE FirstMatchingSlice
    OBVIOUS
  <2> DEFINE good ==
        {k \in DOMAIN file.slices :
           /\ file.slices[k].readable
           /\ want # Any =>
                /\ file.slices[k].type = want.type
                /\ want.subtype # AnySubtype =>
                     (file.slices[k].subtype - want.subtype) % CapsUnit = 0}
  <2>1. TypeOK /\ SliceInv
    BY DEF HeaderInv
  <2>2. /\ Len(file.slices) \in Nat /\ DOMAIN file.slices = 1 .. Len(file.slices)
        /\ tried \in Nat
    BY <2>1 DEF TypeOK, File
  <2>3. ASSUME NEW k \in 1 .. Len(file.slices)
        PROVE  k \in good <=> Chosen(file.slices[k])
    <3>1. PICK s \in FatSlice : s = file.slices[k]
      BY <2>1, SliceFacts DEF TypeOK
    <3>2. s.subtype \in Nat /\ CapsUnit \in Nat \ {0}
      BY HeaderAssumption DEF FatSlice
    <3>3. CASE want = Any
      BY <2>2, <3>1, <3>3 DEF Chosen, ArchMatches
    <3>4. CASE want # Any
      <4>1. want.subtype \in Nat
        BY <2>1, <3>4 DEF TypeOK
      <4>2. (s.subtype % CapsUnit = want.subtype % CapsUnit)
              <=> ((s.subtype - want.subtype) % CapsUnit = 0)
        BY <3>2, <4>1, SameRemainder
      <4>3. k \in good <=> /\ s.readable /\ s.type = want.type
                           /\ want.subtype # AnySubtype =>
                                (s.subtype - want.subtype) % CapsUnit = 0
        BY <2>2, <3>1, <3>4
      <4>4. Chosen(s) <=> /\ s.readable /\ s.type = want.type
                          /\ \/ want.subtype = AnySubtype
                             \/ s.subtype % CapsUnit = want.subtype % CapsUnit
        BY <3>4 DEF Chosen, ArchMatches
      <4> QED BY <3>1, <4>2, <4>3, <4>4
    <3> QED BY <3>3, <3>4
  <2>4. good \subseteq 1 .. Len(file.slices)
    BY <2>2
  <2> HIDE DEF good
  <2>5. phase = "failed" => good = {}
    BY <2>1, <2>3, <2>4 DEF SliceInv
  <2>6. ASSUME phase \in Absorbing
        PROVE  tried + 1 \in good /\ \A k \in good : tried + 1 <= k
    <3>1. tried + 1 \in 1 .. Len(file.slices) /\ Chosen(file.slices[tried + 1])
      BY <2>1, <2>2, <2>6 DEF TypeOK, SliceInv, Slice
    <3>2. ASSUME NEW k \in good PROVE tried + 1 <= k
      <4>1. k \in 1 .. Len(file.slices) /\ Chosen(file.slices[k])
        BY <2>3, <2>4
      <4>2. k \notin 1 .. tried
        BY <2>1, <4>1 DEF SliceInv
      <4> QED BY <2>2, <4>1, <4>2
    <3> QED BY <2>3, <3>1, <3>2
  <2> QED BY <2>5, <2>6 DEF FirstMatchingSlice, good, Absorbing
<1> QED BY <1>1, HeaderCorrect, PTL

(* Whatever the order of the commands, minimum OS and SDK come from one    *)
(* LC_BUILD_VERSION, and the first legacy command counts without one.      *)
THEOREM BuildWins == Spec => []BuildVersionWins
<1>1. HeaderInv => BuildVersionWins
  <2> SUFFICES ASSUME HeaderInv, phase \in Absorbing PROVE BuildVersionWins
    BY DEF BuildVersionWins, Absorbing
  <2> DEFINE cmds == Slice.commands
  <2>1. VersionsDecided(cmds, taken, header)
    BY DEF HeaderInv, FieldsInv
  <2>2. /\ CommandsOf({"build"}) = Kind(cmds, taken, "build")
        /\ CommandsOf({"min"}) = Kind(cmds, taken, "min")
    BY DEF CommandsOf, Kind
  <2>3. Kind(cmds, taken, "min") \subseteq Nat
    BY DEF Kind
  <2> HIDE DEF cmds
  <2>4. Kind(cmds, taken, "build") = {} /\ Kind(cmds, taken, "min") # {}
          => header.minOs = cmds[FirstOf(Kind(cmds, taken, "min"))].version
    BY <2>1, <2>3, FirstIs DEF VersionsDecided
  <2> QED BY <2>1, <2>2, <2>4 DEF BuildVersionWins, VersionsDecided, cmds
<1> QED BY <1>1, HeaderCorrect, PTL

(* function_starts_count is absent just when the load command is, and else *)
(* the number of addresses the last such command yields.                   *)
THEOREM StartsCounted == Spec => []CountsStarts
<1>1. HeaderInv => CountsStarts
  <2> SUFFICES ASSUME HeaderInv, phase = "done" PROVE CountsStarts
    BY DEF CountsStarts
  <2> DEFINE cmds == Slice.commands
             ks   == Kind(cmds, taken, "starts")
  <2>1. StartsDecided(cmds, taken, header) /\ WalkInv /\ TypeOK
    BY DEF HeaderInv, FieldsInv, Absorbing
  <2>2. CommandsOf({"starts"}) = ks /\ ks \subseteq Nat
    BY DEF CommandsOf, Kind
  <2>3. CASE ks = {}
    BY <2>1, <2>2, <2>3 DEF StartsDecided, WalkInv, CountsStarts
  <2>4. CASE ks # {}
    <3>1. PICK k \in ks : /\ \A j \in ks : j <= k
                          /\ header.starts = cmds[k].value
      BY <2>1, <2>4 DEF StartsDecided
    <3>2. LastOf(ks) = k
      BY <2>2, <3>1, LastIs
    <3>3. header.starts # None
      <4>1. cmds \in Seq(LoadCommand) /\ taken <= Len(cmds)
        <5>1. file \in File /\ tried + 1 \in 1 .. Len(file.slices)
          <6>1. Len(file.slices) \in Nat
            BY <2>1 DEF TypeOK, File
          <6> QED BY <2>1, <6>1 DEF TypeOK, Absorbing
        <5> QED BY <2>1, <5>1, SliceFacts DEF TypeOK, Slice, Absorbing
      <4>2. cmds[k] \in LoadCommand /\ cmds[k].kind = "starts"
        BY <2>1, <4>1 DEF Kind, TypeOK
      <4> QED BY <3>1, <4>2, CommandFacts, NoneIsNoValue
    <3>4. count = Len(starts)
      BY <2>1, <3>3 DEF WalkInv
    <3>5. IF header.starts.inFile /\ Slice.text # None
          THEN stream = header.starts.bytes /\ text = Slice.text
          ELSE starts = <<>>
      BY <2>1, <3>3 DEF WalkInv
    <3> HIDE DEF ks
    <3> QED BY <2>2, <2>4, <3>1, <3>2, <3>4, <3>5 DEF CountsStarts
  <2> QED BY <2>3, <2>4
<1> QED BY <1>1, HeaderCorrect, PTL

(* Until the walk begins there is no stream. *)
NotBegun == phase \in {"slices", "commands"} => WalkInit

(* The steps before the walk leave it alone, and it begins at the first    *)
(* byte of the command's bytes.                                            *)
LEMMA StreamSteps ==
  HeaderInv /\ NotBegun /\ StreamInv /\ [Next]_vars => NotBegun' /\ StreamInv'
<1> SUFFICES ASSUME HeaderInv, NotBegun, StreamInv, [Next]_vars
             PROVE  NotBegun' /\ StreamInv'
  OBVIOUS
<1>1. CASE /\ UNCHANGED walkVars
           /\ phase' \in {"slices", "commands"} => phase \in {"slices", "commands"}
  <2>1. WalkInit => WalkInit'
    BY <1>1 DEF WalkInit, walkVars
  <2> QED BY <1>1, <2>1, StreamKept DEF NotBegun
<1>2. CASE BeginWalk
  <2>1. /\ WalkInit /\ header.starts # None /\ header \in Header /\ phase = "commands"
        /\ phase' = "walk"
        /\ IF header.starts.inFile /\ Slice.text # None
           THEN WalkFrom(header.starts.bytes, Slice.text) ELSE WalkNothing
    BY <1>2 DEF BeginWalk, NotBegun, HeaderInv, TypeOK
  <2>2. header.starts.bytes \in Seq(Byte)
    BY <2>1 DEF Header, StartsValue
  <2>3. Slice.text \in Nat \cup {None}
    <3>1. file \in File /\ tried + 1 \in 1 .. Len(file.slices)
      <4>1. file \in File /\ Len(file.slices) \in Nat
        BY DEF HeaderInv, TypeOK, File
      <4> QED BY <2>1, <4>1 DEF HeaderInv, TypeOK, Absorbing
    <3> QED BY <3>1, SliceFacts DEF Slice, FatSlice
  <2>4. StreamInv'
    BY <2>1, <2>2, <2>3, StreamBegins, StreamEmpty
  <2> QED BY <2>1, <2>4 DEF NotBegun
<1>3. CASE WalkStarts
  <2>1. Walk /\ phase' = "walk"
    BY <1>3, WalkFrame DEF WalkStarts, parseVars
  <2> QED BY <2>1, StreamStep DEF NotBegun
<1>4. CASE PickSlice \/ SkipSlice \/ NoSlice \/ NothingToWalk \/ Count
  BY <1>1, <1>4 DEF PickSlice, SkipSlice, NoSlice, NothingToWalk, Count
<1>5. CASE TakeLast \/ TakeBuildVersion \/ TakeVersionMin \/ TakeDylinker \/ TakeOther
  BY <1>1, <1>5 DEF TakeLast, TakeBuildVersion, TakeVersionMin, TakeDylinker, TakeOther, Absorb
<1>6. CASE Parsed \/ UNCHANGED vars
  BY <1>1, <1>6 DEF Parsed, vars, parseVars
<1> QED BY <1>2, <1>3, <1>4, <1>5, <1>6 DEF Next, Work

(* The addresses of LC_FUNCTION_STARTS are the running sums of the numbers *)
(* the stream encodes, from the base of __TEXT, none left out before the   *)
(* first that is 0, does not fit or leads out of the address space.        *)
THEOREM EveryStart == Spec => []YieldsEveryStart
<1>1. Init => NotBegun /\ StreamInv
  BY StreamInit DEF Init, NotBegun
<1>2. Spec => [](NotBegun /\ StreamInv)
  BY <1>1, StreamSteps, HeaderCorrect, PTL DEF Spec
<1> QED BY <1>2, StreamYields, PTL
=============================================================================
