-------------------------- MODULE ObjcMembersProofs --------------------------
(***************************************************************************)
(* Proofs about ObjcMembers, for every image and every attribute string.   *)
(* What a row, a list or an entry says is left to the operators that read  *)
(* it; what is proved is the order and the completeness of the walk: which *)
(* rows come out, where each member is put, and that a string is cut into  *)
(* pieces without a gap.                                                   *)
(***************************************************************************)
EXTENDS MemberProperties, FiniteSetTheorems, WellFoundedInduction, TLAPS

(* What is called decides the phases, and only the lists of the last row   *)
(* are read.                                                               *)
PhaseInv ==
  /\ call \in Calls \cup {"attributes"}
  /\ phase = "attributes" => call = "attributes"
  /\ call = "attributes" => phase \in {"attributes", "done"}
  /\ phase = "collect" => call = "categories" /\ holders = <<>>
  /\ phase # "lists" => layout = None /\ lists = <<>>
  /\ layout # None => lists # <<>>
  /\ call # "attributes" => image \in Images

(* The invariant of parse_attributes *)

Item == [key: STRING, value: Seq(STRING)]

AttributesTyped ==
  /\ items \in Seq(Item)
  /\ call # "attributes" => items = <<>> /\ typeEncoding = <<>>
  /\ call = "attributes" => text \in Strings

AttributesInv == AttributesTyped /\ ItemsSpanString
-----------------------------------------------------------------------------
(* Sequences, and least elements *)

LEMMA SeqFacts ==
  ASSUME NEW S, NEW s \in Seq(S)
  PROVE  /\ Len(s) \in Nat /\ DOMAIN s = 1 .. Len(s)
         /\ \A k \in 1 .. Len(s) : s[k] \in S
OBVIOUS

LEMMA AppendFacts ==
  ASSUME NEW S, NEW s \in Seq(S), NEW e \in S
  PROVE  /\ Append(s, e) \in Seq(S)
         /\ Len(Append(s, e)) = Len(s) + 1
         /\ \A k \in 1 .. Len(s) : Append(s, e)[k] = s[k]
         /\ Append(s, e)[Len(s) + 1] = e
OBVIOUS

(* Every non-empty set of natural numbers has a least element. *)
LEMMA LeastNat ==
  ASSUME NEW T \in SUBSET Nat, T # {}
  PROVE  \E x \in T : \A y \in T : x <= y
<1> DEFINE less == {ss \in Nat \X Nat : ss[1] < ss[2]}
<1>1. IsWellFoundedOn(less, Nat)
  BY NatLessThanWellFounded DEF OpToRel
<1>2. PICK x \in T : \A y \in T : ~(<<y, x>> \in less)
  <2> HIDE DEF less
  <2> QED BY <1>1, WFMin
<1>3. ASSUME NEW y \in T PROVE x <= y
  <2>1. <<y, x>> \in Nat \X Nat /\ <<y, x>>[1] = y /\ <<y, x>>[2] = x
    OBVIOUS
  <2>2. ~(y < x)
    BY <1>2, <2>1
  <2> QED BY <2>2
<1> QED BY <1>3

LEMMA MinFacts ==
  ASSUME NEW T \in SUBSET Nat, T # {}
  PROVE  Min(T) \in T /\ \A y \in T : Min(T) <= y
BY LeastNat DEF Min

(* A least element is the minimum. *)
LEMMA MinIs ==
  ASSUME NEW T \in SUBSET Nat, NEW x \in T, \A y \in T : x <= y
  PROVE  Min(T) = x
<1>1. Min(T) \in T /\ Min(T) <= x
  BY MinFacts
<1>2. x <= Min(T) /\ x \in Nat /\ Min(T) \in Nat
  BY <1>1
<1> QED BY <1>1, <1>2

LEMMA MinOfTwo ==
  ASSUME NEW x \in Nat, NEW y \in Nat
  PROVE  Min({x, y}) = IF x <= y THEN x ELSE y
<1>1. {x, y} \in SUBSET Nat
  OBVIOUS
<1>2. CASE x <= y
  <2>1. \A z \in {x, y} : x <= z
    BY <1>2
  <2> QED BY <1>1, <1>2, <2>1, MinIs
<1>3. CASE ~(x <= y)
  <2>1. \A z \in {x, y} : y <= z
    BY <1>3
  <2> QED BY <1>1, <1>3, <2>1, MinIs
<1> QED BY <1>2, <1>3

LEMMA LastFacts ==
  ASSUME NEW n \in Nat, NEW c \in Nat, NEW f, f \in [0 .. n -> 0 .. c]
  PROVE  f[n] \in Nat /\ f[n] <= c
<1>1. n \in 0 .. n
  OBVIOUS
<1> QED BY <1>1
-----------------------------------------------------------------------------
(* parse_attributes *)

(* The bytes of a string, and the end that is found behind a position. *)
LEMMA TextFacts ==
  ASSUME AttributesTyped, call = "attributes"
  PROVE  /\ text.bytes \in Seq(STRING) /\ Len(text.bytes) \in Nat
         /\ DOMAIN text.bytes = 1 .. Len(text.bytes)
         /\ \A k \in 1 .. Len(text.bytes) : text.bytes[k] \in STRING
BY StringsAssumption, SeqFacts DEF AttributesTyped

LEMMA EndFacts ==
  ASSUME AttributesTyped, call = "attributes",
         NEW i \in 1 .. Len(text.bytes) + 1
  PROVE  /\ EndOf(i) \in i .. Len(text.bytes) + 1 /\ IsEnd(i, EndOf(i))
         /\ \A j \in i .. EndOf(i) - 1 : ~IsEnd(i, j)
<1> DEFINE ends == {j \in i .. Len(text.bytes) + 1 : IsEnd(i, j)}
<1>1. Len(text.bytes) \in Nat
  BY TextFacts
<1>2. Len(text.bytes) + 1 \in ends
  BY <1>1 DEF IsEnd
<1>3. ends \in SUBSET Nat
  BY <1>1
<1>4. EndOf(i) \in ends /\ \A y \in ends : EndOf(i) <= y
  BY <1>2, <1>3, MinFacts DEF EndOf
<1>5. ASSUME NEW j \in i .. EndOf(i) - 1 PROVE ~IsEnd(i, j)
  <2>1. j \in i .. Len(text.bytes) + 1 /\ ~(EndOf(i) <= j)
    BY <1>1, <1>4
  <2> QED BY <1>4, <2>1
<1> QED BY <1>4, <1>5

LEMMA SliceType ==
  ASSUME AttributesTyped, call = "attributes",
         NEW i \in 1 .. Len(text.bytes) + 1, NEW j \in i .. Len(text.bytes) + 1
  PROVE  Slice(i, j) \in Seq(STRING)
<1>1. text.bytes \in Seq(STRING) /\ Len(text.bytes) \in Nat
  BY TextFacts
<1>2. SubSeq(text.bytes, i, j - 1) \in Seq(STRING)
  BY <1>1
<1>3. <<>> \in Seq(STRING)
  OBVIOUS
<1>4. Slice(i, j) \in {<<>>, SubSeq(text.bytes, i, j - 1)}
  BY DEF Slice
<1> QED BY <1>2, <1>3, <1>4

(* The items up to now: the type, and where each of them ends. *)
Typed(list) == {k \in DOMAIN list : list[k].key = "T" /\ list[k].value # <<>>}

TypeOf(list) == IF Typed(list) = {} THEN <<>> ELSE list[Min(Typed(list))].value

Cut(list, end, position) ==
  /\ end \in [0 .. Len(list) -> 0 .. Len(text.bytes) + 1]
  /\ end[0] = 0
  /\ \A k \in DOMAIN list : Spans(list[k], end[k - 1], end[k])
  /\ position = Min({end[Len(list)] + 1, Len(text.bytes) + 1})

WholeString ==
  /\ typeEncoding = TypeOf(items)
  /\ call = "attributes" =>
       /\ \E end : Cut(items, end, at)
       /\ phase = "done" => at = Len(text.bytes) + 1

LEMMA SpanStringIs == ItemsSpanString <=> WholeString
<1>1. ASSUME ItemsSpanString, call = "attributes"
      PROVE  /\ \E end : Cut(items, end, at)
             /\ phase = "done" => at = Len(text.bytes) + 1
  BY <1>1 DEF ItemsSpanString, Cut
<1>2. ASSUME typeEncoding = TypeOf(items), call # "attributes"
      PROVE  ItemsSpanString
  BY <1>2 DEF ItemsSpanString, TypeOf, Typed
<1>3. ASSUME typeEncoding = TypeOf(items), \E end : Cut(items, end, at),
             phase = "done" => at = Len(text.bytes) + 1
      PROVE  ItemsSpanString
  BY <1>3 DEF ItemsSpanString, TypeOf, Typed, Cut
<1>4. ItemsSpanString => typeEncoding = TypeOf(items)
  BY DEF ItemsSpanString, TypeOf, Typed
<1> QED BY <1>1, <1>2, <1>3, <1>4 DEF WholeString

(* The first T with a type stays the first. *)
LEMMA TypeMore ==
  ASSUME NEW list \in Seq(Item), NEW item \in Item
  PROVE  TypeOf(Append(list, item)) =
           IF item.key = "T" /\ TypeOf(list) = <<>> THEN item.value ELSE TypeOf(list)
<1> DEFINE more == Append(list, item)
           n == Len(list)
<1>1. /\ n \in Nat /\ DOMAIN list = 1 .. n /\ DOMAIN more = 1 .. n + 1
      /\ \A k \in 1 .. n : more[k] = list[k]
      /\ more[n + 1] = item
  BY AppendFacts, SeqFacts
<1>2. Typed(list) \in SUBSET Nat /\ Typed(more) \in SUBSET Nat
  BY <1>1 DEF Typed
<1> DEFINE typed == item.key = "T" /\ item.value # <<>>
<1>3. Typed(more) = Typed(list) \cup (IF typed THEN {n + 1} ELSE {})
  <2>1. 1 .. n + 1 = (1 .. n) \cup {n + 1} /\ n + 1 \notin 1 .. n
    BY <1>1
  <2> HIDE DEF more, n
  <2> QED BY <1>1, <2>1 DEF Typed
<1>4. \A k \in Typed(list) : k \in 1 .. n /\ list[k].value # <<>>
  BY <1>1 DEF Typed
<1>5. CASE Typed(list) # {}
  <2>1. Min(Typed(list)) \in Typed(list) /\ \A y \in Typed(list) : Min(Typed(list)) <= y
    BY <1>2, <1>5, MinFacts
  <2>2. Min(Typed(more)) = Min(Typed(list))
    <3>1. Min(Typed(list)) \in Typed(more)
      BY <1>3, <2>1
    <3>2. \A y \in Typed(more) : Min(Typed(list)) <= y
      BY <1>1, <1>3, <1>4, <2>1
    <3> HIDE DEF more
    <3> QED BY <1>2, <3>1, <3>2, MinIs
  <2>3. more[Min(Typed(list))] = list[Min(Typed(list))]
    BY <1>1, <1>4, <2>1
  <2>4. TypeOf(list) # <<>> /\ TypeOf(more) = TypeOf(list)
    <3> HIDE DEF more
    <3> QED BY <1>3, <1>4, <1>5, <2>1, <2>2, <2>3 DEF TypeOf
  <2> QED BY <2>4
<1>6. CASE Typed(list) = {} /\ typed
  <2>1. Typed(more) = {n + 1}
    BY <1>3, <1>6
  <2>2. Min(Typed(more)) = n + 1
    <3> HIDE DEF more
    <3> QED BY <1>1, <1>2, <2>1, MinIs
  <2>3. TypeOf(more) = item.value /\ TypeOf(list) = <<>>
    <3> HIDE DEF more
    <3> QED BY <1>1, <1>6, <2>1, <2>2 DEF TypeOf
  <2> QED BY <1>6, <2>3
<1>7. CASE Typed(list) = {} /\ ~typed
  <2>1. Typed(more) = {}
    BY <1>3, <1>7
  <2>2. TypeOf(more) = <<>> /\ TypeOf(list) = <<>>
    <3> HIDE DEF more
    <3> QED BY <1>7, <2>1 DEF TypeOf
  <2> QED BY <1>7, <2>2
<1> QED BY <1>5, <1>6, <1>7

(* One more item: it begins where the parser is. *)
LEMMA CutMore ==
  ASSUME AttributesTyped, call = "attributes", at \in 1 .. Len(text.bytes),
         NEW end, Cut(items, end, at), NEW item, item \in Item,
         item = [key |-> text.bytes[at], value |-> Slice(at + 1, EndOf(at + 1))]
  PROVE  \E later : Cut(Append(items, item), later, PastComma(EndOf(at + 1)))
<1> DEFINE n == Len(items)
           b == Len(text.bytes)
           stop == EndOf(at + 1)
           more == Append(items, item)
           later == [k \in 0 .. n + 1 |-> IF k <= n THEN end[k] ELSE stop]
<1>1. /\ n \in Nat /\ DOMAIN items = 1 .. n /\ DOMAIN more = 1 .. n + 1 /\ Len(more) = n + 1
      /\ \A k \in 1 .. n : more[k] = items[k]
      /\ more[n + 1] = item
  BY AppendFacts, SeqFacts DEF AttributesTyped
<1>2. b \in Nat /\ at \in Nat /\ at + 1 \in 1 .. b + 1
  BY TextFacts
<1>3. /\ stop \in at + 1 .. b + 1 /\ IsEnd(at + 1, stop)
      /\ \A j \in at + 1 .. stop - 1 : ~IsEnd(at + 1, j)
  BY <1>2, EndFacts
<1>4. /\ end \in [0 .. n -> 0 .. b + 1] /\ end[0] = 0
      /\ \A k \in 1 .. n : Spans(items[k], end[k - 1], end[k])
      /\ at = Min({end[n] + 1, b + 1})
  BY <1>1 DEF Cut
<1>5. at = end[n] + 1 /\ end[n] \in Nat
  <2>1. end[n] \in Nat /\ end[n] + 1 \in Nat /\ b + 1 \in Nat
    <3>1. b + 1 \in Nat /\ end \in [0 .. n -> 0 .. b + 1]
      BY <1>2, <1>4
    <3>2. end[n] \in Nat
      <4> HIDE DEF n, b
      <4> QED BY <1>1, <3>1, LastFacts
    <3> QED BY <3>1, <3>2
  <2>2. at = IF end[n] + 1 <= b + 1 THEN end[n] + 1 ELSE b + 1
    BY <1>4, <2>1, MinOfTwo
  <2> QED BY <1>2, <2>1, <2>2
<1>6. /\ later \in [0 .. n + 1 -> 0 .. b + 1] /\ later[0] = 0 /\ later[n + 1] = stop
      /\ \A k \in 0 .. n : later[k] = end[k]
  BY <1>1, <1>2, <1>3, <1>4
<1> HIDE DEF later, more, n
<1>7. Spans(item, end[n], stop)
  <2> DEFINE from == end[n]
  <2>1. from + 2 = at + 1 /\ from + 1 = at /\ from + 1 < stop
    BY <1>2, <1>3, <1>5
  <2>2. \A i \in from + 2 .. stop - 1 : ~Ends(from, i)
    BY <1>3, <2>1 DEF IsEnd, Ends
  <2>3. Ends(from, stop)
    BY <1>3, <2>1 DEF IsEnd, Ends
  <2>4. item.key = text.bytes[from + 1]
    BY <2>1
  <2>5. item.value = IF from + 2 < stop /\ text.bytes[from + 2] = "cont" THEN <<>>
                     ELSE SubSeq(text.bytes, from + 2, stop - 1)
    BY <2>1 DEF Slice
  <2> QED BY <2>1, <2>2, <2>3, <2>4, <2>5 DEF Spans, Foreign
<1>8. \A k \in 1 .. n + 1 : Spans(more[k], later[k - 1], later[k])
  <2>1. ASSUME NEW k \in 1 .. n PROVE Spans(more[k], later[k - 1], later[k])
    BY <1>1, <1>4, <1>6
  <2>2. Spans(more[n + 1], later[n], later[n + 1])
    BY <1>1, <1>6, <1>7
  <2>3. \A k \in 1 .. n + 1 : k \in 1 .. n \/ k = n + 1
    BY <1>1
  <2>4. \A k \in 1 .. n + 1 : k = n + 1 => k - 1 = n
    BY <1>1
  <2>5. ASSUME NEW k \in 1 .. n + 1 PROVE Spans(more[k], later[k - 1], later[k])
    <3>1. CASE k \in 1 .. n
      BY <2>1, <3>1
    <3>2. CASE k = n + 1
      <4>1. k - 1 = n
        BY <2>4, <3>2
      <4> QED BY <2>2, <3>2, <4>1
    <3> QED BY <2>3, <3>1, <3>2
  <2> QED BY <2>5
<1>9. PastComma(stop) = Min({later[n + 1] + 1, b + 1})
  <2>1. stop \in Nat /\ stop <= b + 1
    BY <1>2, <1>3
  <2>2. CASE stop <= b
    <3>1. Min({stop + 1, b + 1}) = stop + 1
      BY <1>2, <2>1, <2>2, MinIs
    <3> QED BY <1>6, <2>2, <3>1 DEF PastComma
  <2>3. CASE ~(stop <= b)
    <3>1. stop = b + 1 /\ Min({stop + 1, b + 1}) = b + 1
      BY <1>2, <2>1, <2>3, MinIs
    <3> QED BY <1>6, <2>3, <3>1 DEF PastComma
  <2> QED BY <2>2, <2>3
<1>10. Cut(more, later, PastComma(stop))
  BY <1>1, <1>6, <1>8, <1>9 DEF Cut
<1> QED BY <1>10 DEF more

(* Where the parser is. *)
LEMMA PositionFacts ==
  ASSUME AttributesTyped, call = "attributes", NEW end, Cut(items, end, at)
  PROVE  at \in 1 .. Len(text.bytes) + 1
<1>1. Len(text.bytes) \in Nat /\ Len(items) \in Nat
  BY TextFacts, SeqFacts DEF AttributesTyped
<1>2. end[Len(items)] \in Nat
  <2>1. end \in [0 .. Len(items) -> 0 .. Len(text.bytes) + 1]
    BY DEF Cut
  <2>2. Len(text.bytes) + 1 \in Nat
    BY <1>1
  <2> QED BY <1>1, <2>1, <2>2, LastFacts
<1>3. at = Min({end[Len(items)] + 1, Len(text.bytes) + 1})
  BY DEF Cut
<1>4. at = IF end[Len(items)] + 1 <= Len(text.bytes) + 1
           THEN end[Len(items)] + 1 ELSE Len(text.bytes) + 1
  BY <1>1, <1>2, <1>3, MinOfTwo
<1> QED BY <1>1, <1>2, <1>4

(* What a string says does not change. *)
LEMMA SpansSame ==
  ASSUME text' = text
  PROVE  \A item, from, end : Spans(item, from, end)' <=> Spans(item, from, end)
<1>1. ASSUME NEW i, NEW j PROVE InQuotes(i, j)' <=> InQuotes(i, j)
  <2>1. {k \in i .. j - 1 : text'.bytes[k] = "quote"} = {k \in i .. j - 1 : text.bytes[k] = "quote"}
    OBVIOUS
  <2> QED BY <2>1 DEF InQuotes
<1>2. \A from, i : Ends(from, i)' <=> Ends(from, i)
  BY <1>1 DEF Ends
<1> QED BY <1>2 DEF Spans, Foreign

LEMMA AttributesInit == Init => AttributesInv
<1> SUFFICES ASSUME Init PROVE AttributesInv
  OBVIOUS
<1>1. at = 1 /\ items = <<>> /\ typeEncoding = <<>>
  BY DEF Init, AttrInit
<1>2. items \in Seq(Item)
  BY <1>1
<1>3. call = "attributes" => text \in Strings /\ phase = "attributes"
  BY DEF Init, Calls
<1>4. AttributesTyped
  BY <1>1, <1>2, <1>3 DEF AttributesTyped
<1>5. typeEncoding = TypeOf(items)
  <2>1. Typed(items) = {}
    BY <1>1 DEF Typed
  <2> QED BY <1>1, <2>1 DEF TypeOf
<1>6. ASSUME call = "attributes" PROVE \E end : Cut(items, end, at)
  <2> DEFINE end == [k \in 0 .. 0 |-> 0]
  <2>1. Len(text.bytes) \in Nat
    BY <1>4, <1>6, TextFacts
  <2>2. end \in [0 .. Len(items) -> 0 .. Len(text.bytes) + 1] /\ end[0] = 0 /\ Len(items) = 0
    BY <1>1, <2>1
  <2>3. Min({1, Len(text.bytes) + 1}) = 1
    BY <2>1, MinIs
  <2> HIDE DEF end
  <2>4. end[Len(items)] + 1 = 1 /\ DOMAIN items = {}
    BY <1>1, <2>2
  <2>5. Cut(items, end, at)
    BY <1>1, <2>2, <2>3, <2>4 DEF Cut
  <2> QED BY <2>5
<1>7. ItemsSpanString
  BY <1>1, <1>3, <1>5, <1>6, SpanStringIs DEF WholeString
<1> QED BY <1>4, <1>7 DEF AttributesInv

(* A step that leaves the string alone. *)
LEMMA AttributesSame ==
  ASSUME AttributesTyped, ItemsSpanString, UNCHANGED attrVars, call' = call,
         call # "attributes" \/ phase' = phase
  PROVE  AttributesInv'
<1>1. UNCHANGED <<text, at, items, typeEncoding>>
  BY DEF attrVars
<1>2. AttributesTyped'
  BY <1>1 DEF AttributesTyped
<1>3. WholeString
  BY SpanStringIs
<1>4. (TypeOf(items))' = TypeOf(items)
  BY <1>1 DEF TypeOf, Typed
<1>5. ASSUME NEW end PROVE Cut(items, end, at)' <=> Cut(items, end, at)
  BY <1>1, SpansSame DEF Cut
<1>6. WholeString'
  <2>1. ASSUME call' = "attributes" PROVE \E end : Cut(items, end, at)'
    <3>1. PICK end : Cut(items, end, at)
      BY <1>3, <2>1 DEF WholeString
    <3> QED BY <1>5, <3>1
  <2>2. call' = "attributes" => phase' = phase
    OBVIOUS
  <2> QED BY <1>1, <1>3, <1>4, <2>1, <2>2 DEF WholeString
<1>7. ItemsSpanString'
  BY <1>6, SpanStringIs, PTL
<1> QED BY <1>2, <1>7 DEF AttributesInv

LEMMA AttributesStep ==
  ASSUME PhaseInv, AttributesInv, [Next]_vars
  PROVE  AttributesInv'
<1>0. AttributesTyped /\ ItemsSpanString
  BY DEF AttributesInv
<1>1. ASSUME NextAttribute PROVE AttributesInv'
  <2> DEFINE stop == EndOf(at + 1)
             item == [key |-> text.bytes[at], value |-> Slice(at + 1, stop)]
  <2>1. /\ at <= Len(text.bytes) /\ items' = Append(items, item)
        /\ typeEncoding' = IF text.bytes[at] = "T" /\ typeEncoding = <<>>
                           THEN item.value ELSE typeEncoding
        /\ at' = PastComma(stop) /\ text' = text
        /\ phase = "attributes" /\ call' = call /\ phase' = phase
    BY <1>1 DEF NextAttribute, TakeItem, listVars
  <2>2. call = "attributes"
    BY <2>1 DEF PhaseInv
  <2>3. typeEncoding = TypeOf(items) /\ \E end : Cut(items, end, at)
    BY <1>0, <2>2, SpanStringIs DEF WholeString
  <2>4. at \in 1 .. Len(text.bytes)
    <3>1. PICK end : Cut(items, end, at)
      BY <2>3
    <3>2. at \in 1 .. Len(text.bytes) + 1 /\ Len(text.bytes) \in Nat
      BY <1>0, <2>2, <3>1, PositionFacts, TextFacts
    <3> QED BY <2>1, <3>2
  <2>5. item \in Item
    <3>1. Len(text.bytes) \in Nat /\ text.bytes[at] \in STRING
      BY <1>0, <2>2, <2>4, TextFacts
    <3>2. at + 1 \in 1 .. Len(text.bytes) + 1
      BY <2>4, <3>1
    <3>3. stop \in at + 1 .. Len(text.bytes) + 1
      BY <1>0, <2>2, <3>2, EndFacts
    <3>4. Slice(at + 1, stop) \in Seq(STRING)
      BY <1>0, <2>2, <3>2, <3>3, SliceType
    <3> HIDE DEF stop
    <3> QED BY <3>1, <3>4 DEF Item
  <2>6. typeEncoding' = TypeOf(items')
    <3>1. typeEncoding' = IF item.key = "T" /\ typeEncoding = <<>>
                          THEN item.value ELSE typeEncoding
      BY <2>1
    <3> HIDE DEF item
    <3> QED BY <1>0, <2>1, <2>3, <2>5, <3>1, TypeMore DEF AttributesTyped
  <2>7. PICK later : Cut(Append(items, item), later, PastComma(stop))
    BY <1>0, <2>2, <2>3, <2>4, <2>5, CutMore
  <2>8. (\E end : Cut(items, end, at))'
    BY <2>1, <2>7, SpansSame DEF Cut
  <2>9. items' \in Seq(Item)
    <3> HIDE DEF item
    <3> QED BY <1>0, <2>1, <2>5, AppendFacts DEF AttributesTyped
  <2>10. AttributesTyped'
    BY <1>0, <2>1, <2>2, <2>9 DEF AttributesTyped
  <2>11. phase' # "done"
    BY <2>1
  <2>12. (TypeOf(items))' = TypeOf(items')
    BY DEF TypeOf, Typed
  <2>13. WholeString'
    BY <2>6, <2>8, <2>11, <2>12 DEF WholeString
  <2>14. ItemsSpanString'
    BY <2>13, SpanStringIs, PTL
  <2> QED BY <2>10, <2>14 DEF AttributesInv
<1>2. ASSUME EndAttributes PROVE AttributesInv'
  <2>1. /\ phase = "attributes" /\ at > Len(text.bytes) /\ phase' = "done" /\ call' = call
        /\ text' = text /\ at' = at /\ items' = items /\ typeEncoding' = typeEncoding
    BY <1>2 DEF EndAttributes, Parsed, attrVars
  <2>2. call = "attributes"
    BY <2>1 DEF PhaseInv
  <2>3. AttributesTyped'
    BY <1>0, <2>1, <2>2 DEF AttributesTyped
  <2>4. typeEncoding = TypeOf(items) /\ \E end : Cut(items, end, at)
    BY <1>0, <2>2, SpanStringIs DEF WholeString
  <2>5. at = Len(text.bytes) + 1
    <3>1. PICK end : Cut(items, end, at)
      BY <2>4
    <3>2. at \in 1 .. Len(text.bytes) + 1 /\ Len(text.bytes) \in Nat
      BY <1>0, <2>2, <3>1, PositionFacts, TextFacts
    <3> QED BY <2>1, <3>2
  <2>6. (\E end : Cut(items, end, at))'
    BY <2>1, <2>4, SpansSame DEF Cut
  <2>7. typeEncoding' = (TypeOf(items))'
    BY <2>1, <2>4 DEF TypeOf, Typed
  <2>8. (at = Len(text.bytes) + 1)'
    BY <2>1, <2>5
  <2>9. WholeString'
    BY <2>6, <2>7, <2>8 DEF WholeString
  <2>10. ItemsSpanString'
    BY <2>9, SpanStringIs, PTL
  <2> QED BY <2>3, <2>10 DEF AttributesInv
<1>3. ASSUME Walk PROVE AttributesInv'
  <2>1. UNCHANGED attrVars /\ call' = call
    BY <1>3 DEF Walk, CollectCategory, SkipSlot, EndCollect, TakeRow, PassRow,
         EndRows, OpenList, EmptyList, TakeMember, PassMember, EndList, EndLists
  <2>2. phase \in {"collect", "rows", "lists"}
    BY <1>3 DEF Walk, PhaseInv, HasEntry, CollectCategory, SkipSlot, EndCollect, TakeRow,
         PassRow, EndRows, OpenList, EmptyList, TakeMember, PassMember, EndList, EndLists
  <2>3. call # "attributes"
    BY <2>2 DEF PhaseInv
  <2> QED BY <1>0, <2>1, <2>3, AttributesSame
<1>4. ASSUME Returned \/ UNCHANGED vars PROVE AttributesInv'
  <2>1. UNCHANGED attrVars /\ call' = call /\ phase' = phase
    BY <1>4 DEF Returned, vars, listVars
  <2> QED BY <1>0, <2>1, AttributesSame
<1> QED BY <1>1, <1>2, <1>3, <1>4 DEF Next
-----------------------------------------------------------------------------
(* Phases *)

LEMMA PhaseInit == Init => PhaseInv
BY DEF Init, PhaseInv, Calls

LEMMA PhaseStep == PhaseInv /\ [Next]_vars => PhaseInv'
<1> SUFFICES ASSUME PhaseInv, [Next]_vars PROVE PhaseInv'
  OBVIOUS
<1>1. ASSUME CollectCategory \/ SkipSlot \/ EndCollect PROVE PhaseInv'
  BY <1>1 DEF PhaseInv, CollectCategory, SkipSlot, EndCollect
<1>2. ASSUME TakeRow \/ PassRow \/ EndRows PROVE PhaseInv'
  BY <1>2 DEF PhaseInv, TakeRow, PassRow, EndRows
<1>3. ASSUME OpenList \/ EmptyList \/ EndLists PROVE PhaseInv'
  BY <1>3 DEF PhaseInv, OpenList, EmptyList, EndLists
<1>4. ASSUME TakeMember \/ PassMember \/ EndList PROVE PhaseInv'
  BY <1>4 DEF PhaseInv, HasEntry, TakeMember, PassMember, EndList
<1>5. ASSUME NextAttribute \/ EndAttributes PROVE PhaseInv'
  BY <1>5 DEF PhaseInv, NextAttribute, EndAttributes, listVars
<1>6. ASSUME Returned \/ UNCHANGED vars PROVE PhaseInv'
  BY <1>6 DEF PhaseInv, Returned, vars, listVars
<1> QED BY <1>1, <1>2, <1>3, <1>4, <1>5, <1>6 DEF Next, Walk
-----------------------------------------------------------------------------
(* Sequences of anything *)

IsSequence(s) == s \in Seq({s[k] : k \in DOMAIN s})

LEMMA SequenceOf ==
  ASSUME NEW S, NEW s \in Seq(S)
  PROVE  IsSequence(s)
<1> DEFINE R == {s[k] : k \in DOMAIN s}
<1>1. Len(s) \in Nat /\ DOMAIN s = 1 .. Len(s) /\ s = [k \in 1 .. Len(s) |-> s[k]]
  OBVIOUS
<1>2. \A k \in 1 .. Len(s) : s[k] \in R
  BY <1>1
<1> HIDE DEF R
<1>3. s \in [1 .. Len(s) -> R]
  BY <1>1, <1>2
<1>4. s \in Seq(R)
  BY <1>1, <1>3
<1> QED BY <1>4 DEF IsSequence, R

LEMMA SequenceEmpty == IsSequence(<<>>)
<1>1. <<>> \in Seq({})
  OBVIOUS
<1> QED BY <1>1, SequenceOf

LEMMA SequenceFacts ==
  ASSUME NEW s, IsSequence(s)
  PROVE  Len(s) \in Nat /\ DOMAIN s = 1 .. Len(s)
BY DEF IsSequence

LEMMA SequenceAppend ==
  ASSUME NEW s, IsSequence(s), NEW e
  PROVE  /\ IsSequence(Append(s, e)) /\ Len(s) \in Nat
         /\ Len(Append(s, e)) = Len(s) + 1
         /\ DOMAIN s = 1 .. Len(s) /\ DOMAIN Append(s, e) = 1 .. Len(s) + 1
         /\ \A k \in 1 .. Len(s) : Append(s, e)[k] = s[k]
         /\ Append(s, e)[Len(s) + 1] = e
<1> DEFINE S == {s[k] : k \in DOMAIN s} \cup {e}
<1>1. s \in Seq(S) /\ e \in S
  <2>1. Len(s) \in Nat /\ s \in [1 .. Len(s) -> {s[k] : k \in DOMAIN s}]
    BY DEF IsSequence
  <2>2. \A k \in 1 .. Len(s) : s[k] \in S
    BY <2>1
  <2>3. s \in [1 .. Len(s) -> S]
    <3> HIDE DEF S
    <3> QED BY <2>1, <2>2
  <2> QED BY <2>1, <2>3
<1> HIDE DEF S
<1>2. Append(s, e) \in Seq(S)
  BY <1>1
<1>3. IsSequence(Append(s, e))
  BY <1>2, SequenceOf
<1> QED BY <1>1, <1>3, SeqFacts, AppendFacts

LEMMA SequenceTail ==
  ASSUME NEW s, IsSequence(s), s # <<>>
  PROVE  /\ Head(s) = s[1] /\ Len(s) \in Nat \ {0}
         /\ IsSequence(Tail(s)) /\ Len(Tail(s)) = Len(s) - 1
         /\ \A k \in 1 .. Len(s) - 1 : Tail(s)[k] = s[k + 1]
<1>1. PICK S : s \in Seq(S)
  BY DEF IsSequence
<1>2. /\ Head(s) = s[1] /\ Tail(s) \in Seq(S) /\ Len(Tail(s)) = Len(s) - 1
      /\ Len(s) \in Nat /\ Len(s) > 0
      /\ \A k \in 1 .. Len(s) - 1 : Tail(s)[k] = s[k + 1]
  BY <1>1
<1>3. IsSequence(Tail(s))
  BY <1>2, SequenceOf
<1> QED BY <1>2, <1>3
-----------------------------------------------------------------------------
(* What the image says stays: it and the rebases are never written. *)

Reads == <<image, targets>>

LEMMA ReadSame ==
  ASSUME UNCHANGED Reads
  PROVE  /\ \A slot : Resolve(slot)' = Resolve(slot)
         /\ \A slot : TextAt(slot)' = TextAt(slot)
         /\ \A field, of, slot : ListOf(field, of, slot)' = ListOf(field, of, slot)
<1>1. \A slot : Resolve(slot)' = Resolve(slot)
  BY DEF Resolve, Reads
<1>2. \A slot : TextAt(slot)' = TextAt(slot)
  BY <1>1 DEF TextAt, Reads
<1> QED BY <1>1, <1>2 DEF ListOf

LEMMA LayoutSame ==
  ASSUME UNCHANGED Reads
  PROVE  \A of, address : Layout(of, address)' = Layout(of, address)
BY DEF Layout, Reads

LEMMA RecordSame ==
  ASSUME UNCHANGED Reads
  PROVE  /\ \A class, fields : ClassRow(class, fields)' = ClassRow(class, fields)
         /\ \A va : ProtocolRow(va)' = ProtocolRow(va)
         /\ \A va : CategoryRow(va)' = CategoryRow(va)
<1>1. \A class, fields : ClassRow(class, fields)' = ClassRow(class, fields)
  <2> SUFFICES ASSUME NEW class, NEW fields
               PROVE  ClassRow(class, fields)' = ClassRow(class, fields)
    OBVIOUS
  <2> DEFINE ro == class.ro
             list(field) ==
               CASE field = "methods" -> ListOf(field, "methods", ro + 4 * WordSize)
                 [] field = "protocols" -> ListOf(field, "names", ro + 5 * WordSize)
                 [] field = "ivars" -> ListOf(field, "ivars", ro + 6 * WordSize)
                 [] field = "properties" -> ListOf(field, "properties", ro + 8 * WordSize)
             all == [k \in DOMAIN fields |-> list(fields[k])]
             name == TextAt(ro + 3 * WordSize)
  <2>1. \A field : list(field)' = list(field)
    BY ReadSame
  <2>2. all' = all /\ name' = name
    <3> HIDE DEF list
    <3> QED BY <2>1, ReadSame
  <2>3. ClassRow(class, fields) =
          IF ro # None /\ ReadBytes(image, ro, 9 * WordSize) /\ name # None
          THEN [address |-> class.address, name |-> name, host |-> None,
                meta |-> class.meta, lists |-> all]
          ELSE None
    BY DEF ClassRow
  <2>4. ClassRow(class, fields)' =
          IF ro # None /\ ReadBytes(image', ro, 9 * WordSize) /\ name' # None
          THEN [address |-> class.address, name |-> name', host |-> None,
                meta |-> class.meta, lists |-> all']
          ELSE None
    BY DEF ClassRow
  <2> HIDE DEF all, name
  <2> QED BY <2>2, <2>3, <2>4 DEF Reads
<1>2. \A va : ProtocolRow(va)' = ProtocolRow(va)
  BY ReadSame DEF ProtocolRow, Reads
<1>3. \A va : HostName(va)' = HostName(va)
  BY ReadSame DEF HostName, Reads
<1>4. \A va : CategoryRow(va)' = CategoryRow(va)
  BY ReadSame, <1>3 DEF CategoryRow, Reads
<1> QED BY <1>1, <1>2, <1>4

LEMMA MemberSame ==
  ASSUME UNCHANGED Reads
  PROVE  \A kind, va : Member(kind, va)' = Member(kind, va)
<1>1. \A va : LegacyMethod(va)' = LegacyMethod(va)
  BY ReadSame DEF LegacyMethod, Reads
<1>2. \A kind, va : SmallMethod(kind, va)' = SmallMethod(kind, va)
  BY ReadSame DEF SmallMethod, SmallImp, Reads
<1>3. \A va : IvarEntry(va)' = IvarEntry(va)
  BY ReadSame DEF IvarEntry, IvarOffset, Reads
<1>4. \A va : PropertyEntry(va)' = PropertyEntry(va)
  BY ReadSame DEF PropertyEntry, Reads
<1>5. \A slot : ProtocolName(slot)' = ProtocolName(slot)
  BY ReadSame, RecordSame DEF ProtocolName, Reads
<1> QED BY <1>1, <1>2, <1>3, <1>4, <1>5 DEF Member

LEMMA DecodeSame ==
  ASSUME UNCHANGED Reads, call' = call
  PROVE  \A entry : Decode(entry)' = Decode(entry)
<1>1. \A slot : ProtocolAt(slot)' = ProtocolAt(slot)
  BY ReadSame, RecordSame DEF ProtocolAt
<1> QED BY <1>1, RecordSame DEF Decode

LEMMA SlotsSame ==
  ASSUME UNCHANGED Reads
  PROVE  CategorySlots' = CategorySlots /\ \A k : CategoryAt(k)' = CategoryAt(k)
<1>1. CategorySlots' = CategorySlots
  BY DEF CategorySlots, Reads
<1> QED BY <1>1, ReadSame DEF CategoryAt
-----------------------------------------------------------------------------
(* Selections: a list holds the values at some positions, in their order. *)

Selects(list, good, value) ==
  \E slot \in Listings(good, Len(list)) :
    \A i \in 1 .. Len(list) : list[i] = value[slot[i]]

LEMMA SelectsNone ==
  ASSUME NEW value
  PROVE  Selects(<<>>, {}, value)
<1> DEFINE slot == [i \in 1 .. 0 |-> 0]
<1>1. slot \in Listings({}, 0)
  BY DEF Listings
<1>2. Len(<<>>) = 0
  OBVIOUS
<1> HIDE DEF slot
<1> QED BY <1>1, <1>2 DEF Selects

LEMMA ListingMore ==
  ASSUME NEW S \in SUBSET Nat, NEW n \in Nat, NEW slot \in Listings(S, n),
         NEW x \in Nat, \A k \in S : k < x
  PROVE  [i \in 1 .. (n + 1) |-> IF i <= n THEN slot[i] ELSE x]
           \in Listings(S \cup {x}, n + 1)
<1> DEFINE more == [i \in 1 .. (n + 1) |-> IF i <= n THEN slot[i] ELSE x]
<1>1. /\ slot \in [1 .. n -> S]
      /\ \A i, j \in 1 .. n : i < j => slot[i] < slot[j]
      /\ \A k \in S : \E i \in 1 .. n : slot[i] = k
  BY DEF Listings
<1>2. /\ \A i \in 1 .. n : more[i] = slot[i] /\ slot[i] \in S
      /\ more[n + 1] = x
      /\ \A i \in 1 .. (n + 1) : i \in 1 .. n \/ i = n + 1
      /\ \A i \in 1 .. n : i \in 1 .. (n + 1) /\ i < n + 1
      /\ n + 1 \in 1 .. (n + 1)
  BY <1>1
<1>3. more \in [1 .. (n + 1) -> S \cup {x}]
  BY <1>1
<1> HIDE DEF more
<1>4. \A i, j \in 1 .. (n + 1) : i < j => more[i] < more[j]
  <2> SUFFICES ASSUME NEW i \in 1 .. (n + 1), NEW j \in 1 .. (n + 1), i < j
               PROVE  more[i] < more[j]
    OBVIOUS
  <2>1. i \in 1 .. n
    OBVIOUS
  <2>2. CASE j \in 1 .. n
    BY <1>1, <1>2, <2>1, <2>2
  <2>3. CASE j = n + 1
    BY <1>2, <2>1, <2>3
  <2> QED BY <1>2, <2>2, <2>3
<1>5. \A k \in S \cup {x} : \E i \in 1 .. (n + 1) : more[i] = k
  BY <1>1, <1>2
<1>6. more \in Listings(S \cup {x}, n + 1)
  BY <1>3, <1>4, <1>5 DEF Listings
<1> QED BY <1>6 DEF more

(* The value at one more position is selected. *)
LEMMA SelectsMore ==
  ASSUME NEW list, IsSequence(list), NEW S \in SUBSET Nat, NEW value,
         Selects(list, S, value), NEW x \in Nat, \A k \in S : k < x
  PROVE  Selects(Append(list, value[x]), S \cup {x}, value)
<1> DEFINE n == Len(list)
           more == Append(list, value[x])
<1>1. /\ n \in Nat /\ Len(more) = n + 1
      /\ \A k \in 1 .. n : more[k] = list[k]
      /\ more[n + 1] = value[x]
  BY SequenceAppend
<1>2. PICK slot \in Listings(S, n) : \A i \in 1 .. n : list[i] = value[slot[i]]
  BY DEF Selects
<1> DEFINE longer == [i \in 1 .. (n + 1) |-> IF i <= n THEN slot[i] ELSE x]
<1>3. longer \in Listings(S \cup {x}, n + 1)
  <2> HIDE DEF n
  <2> QED BY <1>1, <1>2, ListingMore
<1>4. \A i \in 1 .. n + 1 : more[i] = value[longer[i]]
  BY <1>1, <1>2
<1> HIDE DEF more, longer
<1> QED BY <1>1, <1>3, <1>4 DEF Selects, more

(* A selection from a selection. *)
LEMMA ListingThrough ==
  ASSUME NEW S \in SUBSET Nat, NEW n \in Nat, NEW g \in Listings(S, n),
         NEW T \in SUBSET (1 .. n), NEW m \in Nat, NEW h \in Listings(T, m)
  PROVE  [i \in 1 .. m |-> g[h[i]]] \in Listings({g[k] : k \in T}, m)
<1> DEFINE slot == [i \in 1 .. m |-> g[h[i]]]
<1>1. /\ \A i \in 1 .. n : g[i] \in S
      /\ \A i, j \in 1 .. n : i < j => g[i] < g[j]
  BY DEF Listings
<1>2. /\ \A i \in 1 .. m : h[i] \in T /\ h[i] \in 1 .. n
      /\ \A i, j \in 1 .. m : i < j => h[i] < h[j]
      /\ \A k \in T : \E i \in 1 .. m : h[i] = k
  BY DEF Listings
<1>3. slot \in [1 .. m -> {g[k] : k \in T}]
  BY <1>2
<1>4. \A i, j \in 1 .. m : i < j => slot[i] < slot[j]
  BY <1>1, <1>2
<1>5. \A x \in {g[k] : k \in T} : \E i \in 1 .. m : slot[i] = x
  BY <1>2
<1> HIDE DEF slot
<1>6. slot \in Listings({g[k] : k \in T}, m)
  BY <1>3, <1>4, <1>5 DEF Listings
<1> QED BY <1>6 DEF slot
-----------------------------------------------------------------------------
(* The slots of categories and the rows that are walked *)

LEMMA SlotsFacts ==
  ASSUME NEW section, IsSection(section)
  PROVE  Slots(section) \in Seq(Nat)
<1>1. CASE section = None
  BY <1>1 DEF Slots
<1>2. CASE section # None
  <2>1. section.address \in Nat /\ section.size \in Nat /\ WordSize \in Nat \ {0}
    BY <1>2, DataAssumption DEF IsSection
  <2>2. section.size \div WordSize \in Nat
    BY <2>1
  <2>3. Slots(section) = [k \in 1 .. section.size \div WordSize |->
                            section.address + (k - 1) * WordSize]
    BY <1>2 DEF Slots
  <2>4. \A k \in 1 .. section.size \div WordSize :
          section.address + (k - 1) * WordSize \in Nat
    <3>1. \A k \in Nat \ {0} : (k - 1) * WordSize \in Nat
      BY <2>1
    <3> QED BY <2>1, <2>2, <3>1
  <2> DEFINE n == section.size \div WordSize
  <2>5. n \in Nat /\ Slots(section) \in [1 .. n -> Nat]
    BY <2>2, <2>3, <2>4
  <2> HIDE DEF n
  <2> QED BY <2>5
<1> QED BY <1>1, <1>2

LEMMA CategorySlotsFacts ==
  ASSUME PhaseInv, call # "attributes"
  PROVE  IsSequence(CategorySlots) /\ Len(CategorySlots) \in Nat
         /\ DOMAIN CategorySlots = 1 .. Len(CategorySlots)
<1>1. IsSection(image.catlist) /\ IsSection(image.nlcatlist)
  BY ImagesAssumption DEF PhaseInv, IsImage
<1>2. Slots(image.catlist) \in Seq(Nat) /\ Slots(image.nlcatlist) \in Seq(Nat)
  BY <1>1, SlotsFacts
<1>3. CategorySlots \in Seq(Nat)
  BY <1>2 DEF CategorySlots
<1> QED BY <1>3, SequenceOf, SequenceFacts

LEMMA SourceFacts ==
  ASSUME PhaseInv, call # "attributes", IsSequence(ordered)
  PROVE  Len(Source) \in Nat /\ DOMAIN Source = 1 .. Len(Source)
<1>1. IsSection(image.protolist) /\ \E S : image.classes \in Seq(S)
  BY ImagesAssumption DEF PhaseInv, IsImage
<1>2. Slots(image.protolist) \in Seq(Nat)
  BY <1>1, SlotsFacts
<1>3. IsSequence(Slots(image.protolist)) /\ IsSequence(image.classes)
  BY <1>1, <1>2, SequenceOf
<1>4. IsSequence(Source)
  BY <1>3 DEF Source, PhaseInv, Calls
<1> QED BY <1>4, SequenceFacts

(* Where categories are listed first, up to a slot. *)
FirstAt(n) ==
  {k \in 1 .. n : CategoryAt(k) # 0 /\ \A j \in 1 .. k - 1 : CategoryAt(j) # CategoryAt(k)}

SlotValue == [k \in DOMAIN CategorySlots |-> CategoryAt(k)]

SlotsPassed == IF phase = "collect" THEN row ELSE Len(CategorySlots)

DecodableTo(n) == {k \in 1 .. n : Decode(Source[k]) # None}

RowValue == [k \in DOMAIN Source |-> Decode(Source[k])]

RowsInv ==
  call # "attributes" =>
    /\ row \in Nat /\ IsSequence(ordered) /\ IsSequence(holders)
    /\ SlotsPassed <= Len(CategorySlots)
    /\ call = "categories" => Selects(ordered, FirstAt(SlotsPassed), SlotValue)
    /\ phase # "collect" => /\ row <= Len(Source)
                            /\ Selects(holders, DecodableTo(row), RowValue)
    /\ phase = "done" => row = Len(Source)

(* A slot that is passed is a first one, or it names nothing new. *)
LEMMA FirstAtMore ==
  ASSUME NEW n \in Nat
  PROVE  FirstAt(n + 1) = FirstAt(n) \cup
           (IF CategoryAt(n + 1) # 0 /\ \A j \in 1 .. n : CategoryAt(j) # CategoryAt(n + 1)
            THEN {n + 1} ELSE {})
<1>1. 1 .. n + 1 = (1 .. n) \cup {n + 1} /\ (n + 1) - 1 = n /\ n + 1 \notin 1 .. n
  OBVIOUS
<1>2. ASSUME NEW k \in 1 .. n + 1
      PROVE  k \in FirstAt(n + 1) <=>
               CategoryAt(k) # 0 /\ \A j \in 1 .. k - 1 : CategoryAt(j) # CategoryAt(k)
  BY DEF FirstAt
<1>3. ASSUME NEW k \in 1 .. n PROVE k \in FirstAt(n + 1) <=> k \in FirstAt(n)
  BY DEF FirstAt
<1>4. n + 1 \in FirstAt(n + 1) <=>
        CategoryAt(n + 1) # 0 /\ \A j \in 1 .. n : CategoryAt(j) # CategoryAt(n + 1)
  BY <1>1, <1>2
<1>5. FirstAt(n) \subseteq 1 .. n /\ FirstAt(n + 1) \subseteq 1 .. n + 1
  BY DEF FirstAt
<1> QED BY <1>1, <1>3, <1>4, <1>5

(* Every address a slot names is named first somewhere. *)
LEMMA FirstExists ==
  ASSUME NEW n \in Nat, NEW k \in 1 .. n, CategoryAt(k) # 0
  PROVE  \E f \in FirstAt(n) : CategoryAt(f) = CategoryAt(k)
<1> DEFINE same == {j \in 1 .. n : CategoryAt(j) = CategoryAt(k)}
<1>1. same \in SUBSET Nat /\ k \in same
  OBVIOUS
<1>2. PICK f \in same : \A j \in same : f <= j
  <2> HIDE DEF same
  <2> QED BY <1>1, LeastNat
<1>3. f \in 1 .. n /\ CategoryAt(f) = CategoryAt(k)
  BY <1>2
<1>4. ASSUME NEW j \in 1 .. f - 1 PROVE CategoryAt(j) # CategoryAt(f)
  <2>1. j \in 1 .. n /\ ~(f <= j)
    BY <1>3
  <2> QED BY <1>2, <1>3, <2>1
<1> QED BY <1>3, <1>4 DEF FirstAt

(* cat_addrs.contains: the address was listed before. *)
LEMMA SeenIsListed ==
  ASSUME PhaseInv, RowsInv, phase = "collect", row < Len(CategorySlots), Listed # 0
  PROVE  Seen(Listed) <=> \E j \in 1 .. row : CategoryAt(j) = CategoryAt(row + 1)
<1>1. /\ call = "categories" /\ row \in Nat /\ IsSequence(ordered)
      /\ Selects(ordered, FirstAt(row), SlotValue)
  BY DEF PhaseInv, RowsInv, SlotsPassed
<1>2. /\ Len(ordered) \in Nat /\ DOMAIN ordered = 1 .. Len(ordered)
      /\ Len(CategorySlots) \in Nat /\ DOMAIN CategorySlots = 1 .. Len(CategorySlots)
  BY <1>1, SequenceFacts, CategorySlotsFacts
<1>3. Listed = CategoryAt(row + 1)
  BY DEF Listed, CategoryAt
<1>4. PICK slot \in Listings(FirstAt(row), Len(ordered)) :
        \A i \in 1 .. Len(ordered) : ordered[i] = SlotValue[slot[i]]
  BY <1>1 DEF Selects
<1>5. ASSUME NEW i \in 1 .. Len(ordered)
      PROVE  slot[i] \in 1 .. row /\ ordered[i] = CategoryAt(slot[i])
  <2>1. slot[i] \in FirstAt(row)
    BY <1>4 DEF Listings
  <2>2. slot[i] \in 1 .. row
    BY <2>1 DEF FirstAt
  <2>3. slot[i] \in DOMAIN CategorySlots
    BY <1>1, <1>2, <2>2
  <2> QED BY <1>4, <2>2, <2>3 DEF SlotValue
<1>6. ASSUME NEW k \in DOMAIN ordered, ordered[k] = Listed
      PROVE  \E j \in 1 .. row : CategoryAt(j) = CategoryAt(row + 1)
  BY <1>2, <1>3, <1>5, <1>6
<1>7. ASSUME NEW j \in 1 .. row, CategoryAt(j) = CategoryAt(row + 1)
      PROVE  Seen(Listed)
  <2>1. PICK f \in FirstAt(row) : CategoryAt(f) = CategoryAt(j)
    BY <1>1, <1>3, <1>7, FirstExists
  <2>2. PICK i \in 1 .. Len(ordered) : slot[i] = f
    BY <1>4, <2>1 DEF Listings
  <2>3. ordered[i] = Listed
    BY <1>3, <1>5, <1>7, <2>1, <2>2
  <2> QED BY <1>2, <2>2, <2>3 DEF Seen
<1> QED BY <1>6, <1>7 DEF Seen

LEMMA DecodableMore ==
  ASSUME NEW n \in Nat
  PROVE  DecodableTo(n + 1) =
           DecodableTo(n) \cup (IF Decode(Source[n + 1]) # None THEN {n + 1} ELSE {})
<1>1. 1 .. n + 1 = (1 .. n) \cup {n + 1}
  OBVIOUS
<1> QED BY <1>1 DEF DecodableTo

(* What a step of the walk keeps. *)
LEMMA SlotsKept ==
  ASSUME UNCHANGED Reads
  PROVE  /\ CategorySlots' = CategorySlots /\ SlotValue' = SlotValue
         /\ \A n : FirstAt(n)' = FirstAt(n)
<1>1. CategorySlots' = CategorySlots /\ \A k : CategoryAt(k)' = CategoryAt(k)
  BY SlotsSame
<1>2. SlotValue' = SlotValue
  BY <1>1 DEF SlotValue
<1>3. \A n : FirstAt(n)' = FirstAt(n)
  BY <1>1 DEF FirstAt
<1> QED BY <1>1, <1>2, <1>3

LEMMA RowsKept ==
  ASSUME UNCHANGED Reads, UNCHANGED <<call, ordered>>
  PROVE  /\ Source' = Source /\ RowValue' = RowValue
         /\ \A n : DecodableTo(n)' = DecodableTo(n)
<1>1. Source' = Source
  BY DEF Source, Reads
<1>2. \A entry : Decode(entry)' = Decode(entry)
  BY DecodeSame
<1>3. RowValue' = RowValue
  BY <1>1, <1>2 DEF RowValue
<1>4. \A n : DecodableTo(n)' = DecodableTo(n)
  BY <1>1, <1>2 DEF DecodableTo
<1> QED BY <1>1, <1>3, <1>4

LEMMA RowsInit == Init => RowsInv
<1> SUFFICES ASSUME Init, call # "attributes" PROVE RowsInv
  BY DEF RowsInv
<1>1. /\ PhaseInv /\ row = 0 /\ ordered = <<>> /\ holders = <<>>
      /\ phase = "collect" <=> call = "categories"
      /\ phase \in {"collect", "rows"}
  BY PhaseInit DEF Init
<1>2. IsSequence(ordered) /\ IsSequence(holders)
  BY <1>1, SequenceEmpty
<1>3. Len(CategorySlots) \in Nat /\ Len(Source) \in Nat
  BY <1>1, <1>2, CategorySlotsFacts, SourceFacts
<1>4. FirstAt(0) = {} /\ DecodableTo(0) = {}
  BY DEF FirstAt, DecodableTo
<1>5. Selects(ordered, FirstAt(0), SlotValue) /\ Selects(holders, DecodableTo(0), RowValue)
  BY <1>1, <1>4, SelectsNone
<1>6. /\ SlotsPassed <= Len(CategorySlots)
      /\ call = "categories" => SlotsPassed = 0
  BY <1>1, <1>3 DEF SlotsPassed
<1> QED BY <1>1, <1>2, <1>3, <1>5, <1>6 DEF RowsInv

(* The rows do not change while the lists of one are read. *)
LEMMA RowsSame ==
  ASSUME RowsInv, UNCHANGED Reads, UNCHANGED <<call, row, ordered, holders>>,
         (phase = "collect") <=> (phase' = "collect"), phase' = "done" => row = Len(Source)
  PROVE  RowsInv'
BY SlotsKept, RowsKept DEF RowsInv, SlotsPassed, Selects

LEMMA RowsStep ==
  ASSUME PhaseInv, RowsInv, [Next]_vars
  PROVE  RowsInv'
<1> USE DEF Reads
<1>1. ASSUME CollectCategory PROVE RowsInv'
  <2>1. /\ UNCHANGED Reads /\ call' = call /\ phase' = phase /\ holders' = holders
        /\ phase = "collect" /\ row < Len(CategorySlots) /\ row' = row + 1
        /\ Listed # 0 /\ ~Seen(Listed) /\ ordered' = Append(ordered, Listed)
    BY <1>1 DEF CollectCategory
  <2>2. /\ call = "categories" /\ row \in Nat /\ IsSequence(ordered) /\ IsSequence(holders)
        /\ Selects(ordered, FirstAt(row), SlotValue)
    BY <2>1 DEF PhaseInv, RowsInv, SlotsPassed
  <2>3. Len(CategorySlots) \in Nat /\ DOMAIN CategorySlots = 1 .. Len(CategorySlots)
    BY <2>2, CategorySlotsFacts
  <2>4. Listed = SlotValue[row + 1] /\ Listed = CategoryAt(row + 1)
    <3>1. row + 1 \in DOMAIN CategorySlots
      BY <2>1, <2>2, <2>3
    <3> QED BY <3>1 DEF Listed, CategoryAt, SlotValue
  <2>5. FirstAt(row + 1) = FirstAt(row) \cup {row + 1}
    BY <2>1, <2>2, <2>4, SeenIsListed, FirstAtMore
  <2>6. Selects(ordered', FirstAt(row + 1), SlotValue)
    <3>1. FirstAt(row) \in SUBSET Nat /\ \A k \in FirstAt(row) : k < row + 1
      BY <2>2 DEF FirstAt
    <3>2. row + 1 \in Nat
      BY <2>2
    <3>3. Selects(Append(ordered, SlotValue[row + 1]), FirstAt(row) \cup {row + 1}, SlotValue)
      BY <2>2, <3>1, <3>2, SelectsMore
    <3> QED BY <2>1, <2>4, <2>5, <3>3
  <2>7. IsSequence(ordered') /\ row' \in Nat /\ row' <= Len(CategorySlots)
    BY <2>1, <2>2, <2>3, SequenceAppend
  <2> QED BY <2>1, <2>2, <2>6, <2>7, SlotsKept DEF RowsInv, SlotsPassed, Selects
<1>2. ASSUME SkipSlot PROVE RowsInv'
  <2>1. /\ UNCHANGED Reads /\ UNCHANGED <<call, phase, holders, ordered>>
        /\ phase = "collect" /\ row < Len(CategorySlots) /\ row' = row + 1
        /\ Listed = 0 \/ Seen(Listed)
    BY <1>2 DEF SkipSlot
  <2>2. /\ call = "categories" /\ row \in Nat /\ IsSequence(ordered) /\ IsSequence(holders)
        /\ Selects(ordered, FirstAt(row), SlotValue)
    BY <2>1 DEF PhaseInv, RowsInv, SlotsPassed
  <2>3. Len(CategorySlots) \in Nat
    BY <2>2, CategorySlotsFacts
  <2>4. Listed = CategoryAt(row + 1)
    BY DEF Listed, CategoryAt
  <2>5. FirstAt(row + 1) = FirstAt(row)
    <3>1. ~(CategoryAt(row + 1) # 0 /\ \A j \in 1 .. row : CategoryAt(j) # CategoryAt(row + 1))
      BY <2>1, <2>4, SeenIsListed
    <3> QED BY <2>2, <3>1, FirstAtMore
  <2>6. row' \in Nat /\ row' <= Len(CategorySlots)
    BY <2>1, <2>2, <2>3
  <2> QED BY <2>1, <2>2, <2>5, <2>6, SlotsKept DEF RowsInv, SlotsPassed, Selects
<1>3. ASSUME EndCollect PROVE RowsInv'
  <2>1. /\ UNCHANGED Reads /\ UNCHANGED <<call, holders, ordered>>
        /\ phase = "collect" /\ row = Len(CategorySlots) /\ row' = 0 /\ phase' = "rows"
    BY <1>3 DEF EndCollect
  <2>2. /\ call = "categories" /\ row \in Nat /\ IsSequence(ordered) /\ holders = <<>>
        /\ Selects(ordered, FirstAt(row), SlotValue)
    BY <2>1 DEF PhaseInv, RowsInv, SlotsPassed
  <2>3. IsSequence(holders)
    BY <2>2, SequenceEmpty
  <2>4. Len(CategorySlots) \in Nat /\ Len(Source) \in Nat
    BY <2>2, CategorySlotsFacts, SourceFacts
  <2>5. DecodableTo(0) = {}
    BY DEF DecodableTo
  <2>6. Selects(holders, DecodableTo(0), RowValue)
    BY <2>2, <2>5, SelectsNone
  <2> QED BY <2>1, <2>2, <2>3, <2>4, <2>6, SlotsKept, RowsKept DEF RowsInv, SlotsPassed, Selects
<1>4. ASSUME TakeRow PROVE RowsInv'
  <2>1. /\ UNCHANGED Reads /\ UNCHANGED <<call, ordered>>
        /\ phase = "rows" /\ row < Len(Source) /\ row' = row + 1 /\ phase' = "lists"
        /\ Decode(Source[row + 1]) # None
        /\ holders' = Append(holders, Decode(Source[row + 1]))
    BY <1>4 DEF TakeRow
  <2>2. /\ call # "attributes" /\ row \in Nat /\ IsSequence(ordered) /\ IsSequence(holders)
        /\ SlotsPassed = Len(CategorySlots)
        /\ call = "categories" => Selects(ordered, FirstAt(SlotsPassed), SlotValue)
        /\ Selects(holders, DecodableTo(row), RowValue)
    BY <2>1 DEF PhaseInv, RowsInv, SlotsPassed
  <2>3. Len(Source) \in Nat /\ DOMAIN Source = 1 .. Len(Source) /\ Len(CategorySlots) \in Nat
    BY <2>2, SourceFacts, CategorySlotsFacts
  <2>4. Decode(Source[row + 1]) = RowValue[row + 1]
    <3>1. row + 1 \in DOMAIN Source
      BY <2>1, <2>2, <2>3
    <3> QED BY <3>1 DEF RowValue
  <2>5. Selects(holders', DecodableTo(row + 1), RowValue)
    <3>1. DecodableTo(row) \in SUBSET Nat /\ \A k \in DecodableTo(row) : k < row + 1
      BY <2>2 DEF DecodableTo
    <3>2. row + 1 \in Nat
      BY <2>2
    <3>3. Selects(Append(holders, RowValue[row + 1]), DecodableTo(row) \cup {row + 1}, RowValue)
      BY <2>2, <3>1, <3>2, SelectsMore
    <3>4. DecodableTo(row + 1) = DecodableTo(row) \cup {row + 1}
      BY <2>1, <2>2, DecodableMore
    <3> QED BY <2>1, <2>4, <3>3, <3>4
  <2>6. IsSequence(holders') /\ row' \in Nat /\ row' <= Len(Source)
    BY <2>1, <2>2, <2>3, SequenceAppend
  <2> QED BY <2>1, <2>2, <2>3, <2>5, <2>6, SlotsKept, RowsKept DEF RowsInv, SlotsPassed, Selects
<1>5. ASSUME PassRow PROVE RowsInv'
  <2>1. /\ UNCHANGED Reads /\ UNCHANGED <<call, ordered, holders, phase>>
        /\ phase = "rows" /\ row < Len(Source) /\ row' = row + 1
        /\ Decode(Source[row + 1]) = None
    BY <1>5 DEF PassRow
  <2>2. /\ call # "attributes" /\ row \in Nat /\ IsSequence(ordered) /\ IsSequence(holders)
        /\ SlotsPassed = Len(CategorySlots)
        /\ call = "categories" => Selects(ordered, FirstAt(SlotsPassed), SlotValue)
        /\ Selects(holders, DecodableTo(row), RowValue)
    BY <2>1 DEF PhaseInv, RowsInv, SlotsPassed
  <2>3. Len(Source) \in Nat /\ Len(CategorySlots) \in Nat
    BY <2>2, SourceFacts, CategorySlotsFacts
  <2>4. DecodableTo(row + 1) = DecodableTo(row)
    BY <2>1, <2>2, DecodableMore
  <2>5. row' \in Nat /\ row' <= Len(Source)
    BY <2>1, <2>2, <2>3
  <2> QED BY <2>1, <2>2, <2>3, <2>4, <2>5, SlotsKept, RowsKept DEF RowsInv, SlotsPassed, Selects
<1>6. ASSUME EndRows \/ OpenList \/ EmptyList \/ EndLists PROVE RowsInv'
  <2>1. /\ UNCHANGED Reads /\ UNCHANGED <<call, row, ordered, holders>>
        /\ phase # "collect" /\ phase' # "collect"
        /\ phase' = "done" => row = Len(Source)
    BY <1>6 DEF EndRows, OpenList, EmptyList, EndLists
  <2> QED BY <2>1, RowsSame
<1>7. ASSUME TakeMember \/ PassMember \/ EndList PROVE RowsInv'
  <2>1. /\ UNCHANGED Reads /\ UNCHANGED <<call, row, ordered, holders, phase>>
        /\ phase = "lists"
    BY <1>7 DEF TakeMember, PassMember, EndList, HasEntry, PhaseInv
  <2> QED BY <2>1, RowsSame
<1>8. ASSUME NextAttribute \/ EndAttributes PROVE RowsInv'
  BY <1>8 DEF NextAttribute, EndAttributes, listVars, PhaseInv, RowsInv
<1>9. ASSUME Returned \/ UNCHANGED vars PROVE RowsInv'
  <2>1. /\ UNCHANGED Reads /\ UNCHANGED <<call, row, ordered, holders, phase>>
    BY <1>9 DEF Returned, vars, listVars
  <2>2. call # "attributes" /\ phase' = "done" => row = Len(Source)
    BY <2>1 DEF RowsInv
  <2> QED BY <2>1, <2>2, SlotsKept, RowsKept DEF RowsInv, SlotsPassed, Selects
<1> QED BY <1>1, <1>2, <1>3, <1>4, <1>5, <1>6, <1>7, <1>8, <1>9 DEF Next, Walk

(* What the invariant says when the walk has ended. *)
LEMMA RowsSound == PhaseInv /\ RowsInv => EachRowOnce
<1> SUFFICES ASSUME PhaseInv, RowsInv, phase = "done", call # "attributes"
             PROVE  EachRowOnce
  BY DEF EachRowOnce
<1>1. /\ IsSequence(ordered) /\ IsSequence(holders) /\ row = Len(Source)
      /\ Selects(holders, DecodableTo(Len(Source)), RowValue)
      /\ call = "categories" => Selects(ordered, FirstAt(Len(CategorySlots)), SlotValue)
  BY DEF RowsInv, SlotsPassed
<1>2. /\ Len(Source) \in Nat /\ DOMAIN Source = 1 .. Len(Source)
      /\ Len(CategorySlots) \in Nat /\ DOMAIN CategorySlots = 1 .. Len(CategorySlots)
      /\ Len(ordered) \in Nat /\ DOMAIN ordered = 1 .. Len(ordered)
      /\ Len(holders) \in Nat /\ DOMAIN holders = 1 .. Len(holders)
  BY <1>1, SourceFacts, CategorySlotsFacts, SequenceFacts
<1>3. Decodable = DecodableTo(Len(Source))
  BY <1>2 DEF Decodable, DecodableTo
<1>4. PICK h \in Listings(Decodable, Len(holders)) :
        \A i \in 1 .. Len(holders) : holders[i] = RowValue[h[i]]
  BY <1>1, <1>3 DEF Selects
<1>5. ASSUME NEW i \in 1 .. Len(holders)
      PROVE  h[i] \in DOMAIN Source /\ holders[i] = Decode(Source[h[i]])
  <2>1. h[i] \in Decodable
    BY <1>4 DEF Listings
  <2>2. h[i] \in DOMAIN Source
    BY <2>1 DEF Decodable
  <2> QED BY <1>4, <2>2 DEF RowValue
<1>6. CASE call # "categories"
  BY <1>2, <1>4, <1>5, <1>6 DEF EachRowOnce
<1>7. CASE call = "categories"
  <2>1. Source = ordered /\ \A entry : Decode(entry) = CategoryRow(entry)
    BY <1>7 DEF Source, Decode
  <2> DEFINE n == Len(ordered)
             first == FirstAt(Len(CategorySlots))
  <2>2. PICK g \in Listings(first, n) : \A i \in 1 .. n : ordered[i] = SlotValue[g[i]]
    BY <1>1, <1>7 DEF Selects
  <2>3. ASSUME NEW i \in 1 .. n
        PROVE  g[i] \in first /\ ordered[i] = CategoryAt(g[i])
    <3>1. g[i] \in first
      BY <2>2 DEF Listings
    <3>2. g[i] \in DOMAIN CategorySlots
      BY <1>2, <3>1 DEF FirstAt
    <3> QED BY <2>2, <3>1, <3>2 DEF SlotValue
  <2>4. Decodable \in SUBSET (1 .. n)
    BY <1>2, <2>1 DEF Decodable
  <2>5. first \in SUBSET Nat
    BY <1>2 DEF FirstAt
  <2> DEFINE slot == [i \in 1 .. Len(holders) |-> g[h[i]]]
  <2>6. slot \in Listings({g[k] : k \in Decodable}, Len(holders))
    <3> DEFINE m == Len(holders)
    <3>1. /\ n \in Nat /\ m \in Nat /\ first \in SUBSET Nat /\ Decodable \in SUBSET (1 .. n)
          /\ g \in Listings(first, n) /\ h \in Listings(Decodable, m)
      BY <1>2, <1>4, <2>2, <2>4, <2>5
    <3> HIDE DEF n, first, m
    <3>2. [i \in 1 .. m |-> g[h[i]]] \in Listings({g[k] : k \in Decodable}, m)
      BY <3>1, ListingThrough
    <3> QED BY <3>2 DEF m
  <2>7. {g[k] : k \in Decodable} = FirstListed
    <3>1. ASSUME NEW k \in Decodable PROVE g[k] \in FirstListed
      <4>1. k \in 1 .. n /\ CategoryRow(ordered[k]) # None
        BY <2>1, <2>4 DEF Decodable
      <4>2. g[k] \in first /\ CategoryRow(CategoryAt(g[k])) # None
        BY <2>3, <4>1
      <4> QED BY <1>2, <4>2 DEF FirstAt, FirstListed
    <3>2. ASSUME NEW f \in FirstListed PROVE \E k \in Decodable : g[k] = f
      <4>1. f \in first /\ CategoryRow(CategoryAt(f)) # None
        BY <1>2 DEF FirstAt, FirstListed
      <4>2. PICK k \in 1 .. n : g[k] = f
        BY <2>2, <4>1 DEF Listings
      <4>3. k \in Decodable
        BY <1>2, <2>1, <2>3, <4>1, <4>2 DEF Decodable
      <4> QED BY <4>2, <4>3
    <3> QED BY <3>1, <3>2
  <2>8. \A i \in DOMAIN holders : holders[i] = CategoryRow(CategoryAt(slot[i]))
    <3> SUFFICES ASSUME NEW i \in 1 .. Len(holders)
                 PROVE  holders[i] = CategoryRow(CategoryAt(slot[i]))
      BY <1>2
    <3>1. h[i] \in 1 .. n /\ holders[i] = CategoryRow(ordered[h[i]])
      BY <1>2, <1>5, <2>1
    <3>2. slot[i] = g[h[i]]
      OBVIOUS
    <3> QED BY <2>3, <3>1, <3>2
  <2> HIDE DEF slot
  <2> QED BY <1>7, <2>6, <2>7, <2>8 DEF EachRowOnce
<1> QED BY <1>6, <1>7
-----------------------------------------------------------------------------
(* Lists ordered by places: the member of a place stands at its rank. *)

Place == Nat \X Nat \X Nat

InOrder(list, places, value) ==
  /\ IsFiniteSet(places) /\ Len(list) = Cardinality(places)
  /\ \A p \in places : list[Rank(places, p)] = value[p]

LEMMA UpToFacts ==
  ASSUME NEW p \in Place, NEW q \in Place, p # q
  PROVE  UpTo(p, p) /\ (UpTo(p, q) => ~UpTo(q, p))
<1>1. /\ p[1] \in Nat /\ p[2] \in Nat /\ p[3] \in Nat
      /\ q[1] \in Nat /\ q[2] \in Nat /\ q[3] \in Nat
      /\ p[1] # q[1] \/ p[2] # q[2] \/ p[3] # q[3]
  BY DEF Place
<1> QED BY <1>1 DEF UpTo

LEMMA RankFacts ==
  ASSUME NEW places \in SUBSET Place, IsFiniteSet(places), NEW p \in places
  PROVE  Rank(places, p) \in 1 .. Cardinality(places) /\ Cardinality(places) \in Nat
<1> DEFINE below == {q \in places : UpTo(q, p)}
<1>1. p \in below /\ below \subseteq places
  <2>1. UpTo(p, p)
    <3>1. p \in Place
      OBVIOUS
    <3>2. p[1] \in Nat /\ p[2] \in Nat /\ p[3] \in Nat
      BY <3>1 DEF Place
    <3> QED BY <3>2 DEF UpTo
  <2> QED BY <2>1
<1>2. IsFiniteSet(below) /\ Cardinality(below) <= Cardinality(places)
  BY <1>1, FS_Subset
<1>3. Cardinality(below) \in Nat /\ Cardinality(places) \in Nat /\ Cardinality(below) # 0
  BY <1>1, <1>2, FS_CardinalityType, FS_EmptySet
<1> QED BY <1>2, <1>3 DEF Rank

(* One more member, whose place is behind those of the others. *)
LEMMA InOrderMore ==
  ASSUME NEW places \in SUBSET Place, NEW q \in Place, q \notin places,
         \A p \in places : UpTo(p, q),
         NEW list, IsSequence(list), NEW value, NEW later, InOrder(list, places, value),
         \A p \in places : later[p] = value[p]
  PROVE  InOrder(Append(list, later[q]), places \cup {q}, later)
<1> DEFINE more == Append(list, later[q])
           all == places \cup {q}
<1>1. /\ IsFiniteSet(places) /\ Len(list) = Cardinality(places)
      /\ \A p \in places : list[Rank(places, p)] = value[p]
      /\ Cardinality(places) \in Nat
  BY FS_CardinalityType DEF InOrder
<1>2. IsFiniteSet(all) /\ Cardinality(all) = Cardinality(places) + 1
  BY <1>1, FS_AddElement
<1>3. /\ Len(more) = Len(list) + 1
      /\ \A k \in 1 .. Len(list) : more[k] = list[k]
      /\ more[Len(list) + 1] = later[q]
  BY SequenceAppend
<1>4. ASSUME NEW p \in places PROVE more[Rank(all, p)] = later[p]
  <2>1. ~UpTo(q, p)
    BY UpToFacts
  <2>2. {r \in all : UpTo(r, p)} = {r \in places : UpTo(r, p)}
    BY <2>1
  <2>3. Rank(all, p) = Rank(places, p)
    <3> HIDE DEF all
    <3> QED BY <2>2 DEF Rank
  <2>4. Rank(places, p) \in 1 .. Len(list)
    BY <1>1, RankFacts
  <2> HIDE DEF more, all
  <2> QED BY <1>1, <1>3, <2>3, <2>4
<1>5. more[Rank(all, q)] = later[q]
  <2>1. q[1] \in Nat /\ q[2] \in Nat /\ q[3] \in Nat
    BY DEF Place
  <2>2. UpTo(q, q)
    BY <2>1 DEF UpTo
  <2>3. {r \in all : UpTo(r, q)} = all
    BY <2>2
  <2>4. Rank(all, q) = Cardinality(all)
    <3> HIDE DEF all
    <3> QED BY <2>3 DEF Rank
  <2> HIDE DEF more, all
  <2> QED BY <1>1, <1>2, <1>3, <2>4
<1> HIDE DEF more
<1>6. \A p \in all : more[Rank(all, p)] = later[p]
  BY <1>4, <1>5
<1> HIDE DEF all
<1>7. InOrder(more, all, later)
  BY <1>1, <1>2, <1>3, <1>6 DEF InOrder
<1> QED BY <1>7 DEF more, all
-----------------------------------------------------------------------------
(* The lists of a row *)

LEMMA SequenceFunction ==
  ASSUME NEW n \in Nat, NEW f, f = [k \in 1 .. n |-> f[k]]
  PROVE  IsSequence(f)
<1> DEFINE S == {f[k] : k \in 1 .. n}
<1>1. f \in [1 .. n -> S]
  <2>1. \A k \in 1 .. n : f[k] \in S
    OBVIOUS
  <2> HIDE DEF S
  <2> QED BY <2>1
<1> HIDE DEF S
<1>2. f \in Seq(S)
  BY <1>1
<1> QED BY <1>2, SequenceOf

LEMMA ClassLists ==
  ASSUME NEW class, NEW fields, NEW n \in Nat, DOMAIN fields = 1 .. n,
         ClassRow(class, fields) # None
  PROVE  IsSequence(ClassRow(class, fields).lists)
<1> DEFINE ro == class.ro
           list(field) ==
             CASE field = "methods" -> ListOf(field, "methods", ro + 4 * WordSize)
               [] field = "protocols" -> ListOf(field, "names", ro + 5 * WordSize)
               [] field = "ivars" -> ListOf(field, "ivars", ro + 6 * WordSize)
               [] field = "properties" -> ListOf(field, "properties", ro + 8 * WordSize)
           all == [k \in DOMAIN fields |-> list(fields[k])]
<1>1. ClassRow(class, fields).lists = all
  BY DEF ClassRow
<1>2. all = [k \in 1 .. n |-> all[k]]
  <2> HIDE DEF list
  <2> QED OBVIOUS
<1> HIDE DEF all
<1>3. IsSequence(all)
  BY <1>2, SequenceFunction
<1> QED BY <1>1, <1>3

LEMMA ProtocolLists ==
  ASSUME NEW va, ProtocolRow(va) # None
  PROVE  IsSequence(ProtocolRow(va).lists)
<1> DEFINE base == <<ListOf("instance", "methods", va + 3 * WordSize),
                     ListOf("class", "methods", va + 4 * WordSize),
                     ListOf("optional instance", "methods", va + 5 * WordSize),
                     ListOf("optional class", "methods", va + 6 * WordSize),
                     ListOf("properties", "properties", va + 7 * WordSize),
                     ListOf("protocols", "names", va + 2 * WordSize)>>
           last == ListOf("class properties", "properties", va + 11 * WordSize)
<1>1. ProtocolRow(va).lists \in {base, Append(base, last)}
  BY DEF ProtocolRow
<1>2. DOMAIN base = 1 .. 6 /\ base = [k \in 1 .. 6 |-> base[k]]
  OBVIOUS
<1> HIDE DEF base, last
<1>3. IsSequence(base)
  BY <1>2, SequenceFunction
<1>4. IsSequence(Append(base, last))
  BY <1>3, SequenceAppend
<1> QED BY <1>1, <1>3, <1>4

LEMMA CategoryLists ==
  ASSUME NEW va, CategoryRow(va) # None
  PROVE  IsSequence(CategoryRow(va).lists)
<1> DEFINE base == <<ListOf("instance", "methods", va + 2 * WordSize),
                     ListOf("class", "methods", va + 3 * WordSize),
                     ListOf("protocols", "names", va + 4 * WordSize),
                     ListOf("properties", "properties", va + 5 * WordSize)>>
           last == ListOf("class properties", "properties", va + 6 * WordSize)
<1>1. CategoryRow(va).lists \in {base, Append(base, last)}
  BY DEF CategoryRow
<1>2. DOMAIN base = 1 .. 4 /\ base = [k \in 1 .. 4 |-> base[k]]
  OBVIOUS
<1> HIDE DEF base, last
<1>3. IsSequence(base)
  BY <1>2, SequenceFunction
<1>4. IsSequence(Append(base, last))
  BY <1>3, SequenceAppend
<1> QED BY <1>1, <1>3, <1>4

LEMMA DecodeLists ==
  ASSUME call \in Calls, NEW entry, Decode(entry) # None
  PROVE  IsSequence(Decode(entry).lists)
<1>1. CASE call = "categories"
  BY <1>1, CategoryLists DEF Decode
<1>2. CASE call = "protocols"
  <2>1. Decode(entry) = ProtocolRow(OrZero(Resolve(entry)))
    BY <1>2 DEF Decode, ProtocolAt
  <2> QED BY <2>1, ProtocolLists
<1>3. CASE call = "classes"
  <2> DEFINE fields == <<"methods", "ivars", "properties">>
  <2>1. Decode(entry) = ClassRow(entry, fields) /\ DOMAIN fields = 1 .. 3
    BY <1>3 DEF Decode
  <2> HIDE DEF fields
  <2> QED BY <2>1, ClassLists
<1>4. CASE call = "conformances"
  <2> DEFINE fields == <<"protocols">>
  <2>1. Decode(entry) = ClassRow(entry, fields) /\ DOMAIN fields = 1 .. 1
    BY <1>4 DEF Decode
  <2> HIDE DEF fields
  <2> QED BY <2>1, ClassLists
<1> QED BY <1>1, <1>2, <1>3, <1>4 DEF Calls

LEMMA LayoutCount ==
  ASSUME PhaseInv, call # "attributes", NEW of, NEW address, Layout(of, address) # None
  PROVE  Layout(of, address).count \in Nat
<1>1. image.words \in [DOMAIN image.words -> Nat]
  BY ImagesAssumption DEF PhaseInv, IsImage
<1>2. Word(image, address) \in Nat
  BY <1>1 DEF Word, WordAt
<1>3. High(image, address) \in Nat
  <2>1. HalfUnit \in Nat \ {0}
    BY DataAssumption
  <2>2. \A w \in Nat : w \div HalfUnit \in Nat
    BY <2>1
  <2> QED BY <1>2, <2>2 DEF High
<1>4. Min({Word(image, address), MaxNames}) \in Nat
  BY <1>2, MemberAssumption, MinOfTwo
<1>5. Layout(of, address).count \in {Min({Word(image, address), MaxNames}), High(image, address)}
  BY DEF Layout
<1> QED BY <1>3, <1>4, <1>5
-----------------------------------------------------------------------------
(* The lists that are left, and the one being read *)

LastLists == IF holders = <<>> THEN <<>> ELSE holders[Len(holders)].lists

Drained == Len(LastLists) - Len(lists)

ListsInv ==
  call # "attributes" =>
    /\ \A k \in 1 .. Len(holders) : IsSequence(holders[k].lists)
    /\ phase = "lists" => holders # <<>>
    /\ IsSequence(lists) /\ Len(lists) <= Len(LastLists)
    /\ \A i \in 1 .. Len(lists) : lists[i] = LastLists[Drained + i]
    /\ layout # None => /\ layout = Layout(Head(lists).of, Head(lists).at)
                        /\ cursor \in 0 .. layout.count

LEMMA ListsInit == Init => ListsInv
<1> SUFFICES ASSUME Init PROVE ListsInv
  OBVIOUS
<1>1. holders = <<>> /\ lists = <<>> /\ layout = None /\ phase # "lists"
  BY DEF Init
<1> QED BY <1>1, SequenceEmpty DEF ListsInv, LastLists, Drained

(* The next list is the one behind those that are drained. *)
LEMMA HeadFacts ==
  ASSUME ListsInv, RowsInv, call # "attributes", lists # <<>>
  PROVE  /\ Len(holders) \in Nat \ {0} /\ Drained \in Nat
         /\ LastLists = holders[Len(holders)].lists
         /\ Drained + 1 \in DOMAIN LastLists /\ Head(lists) = LastLists[Drained + 1]
<1>1. /\ IsSequence(lists) /\ Len(lists) <= Len(LastLists)
      /\ \A i \in 1 .. Len(lists) : lists[i] = LastLists[Drained + i]
      /\ IsSequence(holders)
  BY DEF ListsInv, RowsInv
<1>2. Head(lists) = lists[1] /\ Len(lists) \in Nat \ {0}
  BY <1>1, SequenceTail
<1>3. holders # <<>>
  <2>1. ASSUME holders = <<>> PROVE FALSE
    <3>1. Len(LastLists) = 0
      BY <2>1 DEF LastLists
    <3> QED BY <1>1, <1>2, <3>1
  <2> QED BY <2>1
<1>4. Len(holders) \in Nat \ {0} /\ LastLists = holders[Len(holders)].lists
  BY <1>1, <1>3, SequenceTail DEF LastLists
<1>5. IsSequence(LastLists)
  <2>1. Len(holders) \in 1 .. Len(holders)
    BY <1>4
  <2> QED BY <1>4, <2>1 DEF ListsInv
<1>6. Len(LastLists) \in Nat /\ DOMAIN LastLists = 1 .. Len(LastLists)
  BY <1>5, SequenceFacts
<1>7. Drained \in Nat /\ Drained + 1 \in 1 .. Len(LastLists)
  BY <1>1, <1>2, <1>6 DEF Drained
<1>8. Head(lists) = LastLists[Drained + 1]
  BY <1>1, <1>2
<1> QED BY <1>4, <1>6, <1>7, <1>8

LEMMA ListsStep ==
  ASSUME PhaseInv, RowsInv, ListsInv, [Next]_vars
  PROVE  ListsInv'
<1> USE DEF Reads
<1>1. ASSUME TakeRow PROVE ListsInv'
  <2> DEFINE holder == Decode(Source[row + 1])
  <2>1. /\ call' = call /\ phase = "rows" /\ phase' = "lists"
        /\ holder # None /\ holders' = Append(holders, holder) /\ lists' = holder.lists
        /\ layout' = layout
    BY <1>1 DEF TakeRow
  <2>2. call \in Calls /\ call # "attributes" /\ layout = None
    BY <2>1 DEF PhaseInv
  <2>3. IsSequence(holder.lists)
    BY <2>1, <2>2, DecodeLists
  <2> HIDE DEF holder
  <2>4. /\ IsSequence(holders') /\ Len(holders) \in Nat /\ Len(holders') = Len(holders) + 1
        /\ \A k \in 1 .. Len(holders) : holders'[k] = holders[k]
        /\ holders'[Len(holders) + 1] = holder
    BY <2>1, <2>2, SequenceAppend DEF RowsInv
  <2>5. holders' # <<>>
    BY <2>4
  <2>6. LastLists' = holder.lists
    BY <2>4, <2>5 DEF LastLists
  <2>7. Len(lists') \in Nat /\ Drained' = 0 /\ Len(lists') = Len(LastLists')
    BY <2>1, <2>3, <2>6, SequenceFacts DEF Drained
  <2>8. \A k \in 1 .. Len(holders') : IsSequence(holders'[k].lists)
    <3>1. \A k \in 1 .. Len(holders') : k \in 1 .. Len(holders) \/ k = Len(holders) + 1
      BY <2>4
    <3> QED BY <2>2, <2>3, <2>4, <3>1 DEF ListsInv
  <2>9. \A i \in 1 .. Len(lists') : lists'[i] = LastLists'[Drained' + i]
    BY <2>1, <2>6, <2>7
  <2> QED BY <2>1, <2>2, <2>3, <2>5, <2>7, <2>8, <2>9 DEF ListsInv
<1>2. ASSUME UNCHANGED Reads, UNCHANGED <<call, holders, lists>>,
             phase' = "lists" => phase = "lists",
             \/ layout' = None
             \/ layout' = layout /\ cursor' = cursor
             \/ layout' # None /\ layout' = Layout(Head(lists).of, Head(lists).at)
                /\ cursor' = 0
             \/ layout # None /\ layout' = layout /\ cursor < layout.count /\ cursor' = cursor + 1
      PROVE  ListsInv'
  <2> SUFFICES ASSUME call # "attributes" PROVE ListsInv'
    BY <1>2 DEF ListsInv
  <2>1. LastLists' = LastLists /\ Drained' = Drained
    BY <1>2 DEF LastLists, Drained
  <2>2. Layout(Head(lists).of, Head(lists).at)' = Layout(Head(lists).of, Head(lists).at)
    BY <1>2, LayoutSame
  <2>3. ASSUME layout' # None
        PROVE  /\ layout' = Layout(Head(lists).of, Head(lists).at)
               /\ cursor' \in 0 .. layout'.count
    <3>1. layout' = Layout(Head(lists).of, Head(lists).at)
      BY <1>2, <2>3 DEF ListsInv
    <3>2. layout'.count \in Nat
      BY <2>3, <3>1, LayoutCount
    <3> QED BY <1>2, <2>3, <3>1, <3>2 DEF ListsInv
  <2>4. /\ \A k \in 1 .. Len(holders) : IsSequence(holders[k].lists)
        /\ phase = "lists" => holders # <<>>
        /\ IsSequence(lists) /\ Len(lists) <= Len(LastLists)
        /\ \A i \in 1 .. Len(lists) : lists[i] = LastLists[Drained + i]
    BY DEF ListsInv
  <2> QED BY <1>2, <2>1, <2>2, <2>3, <2>4 DEF ListsInv
<1>3. ASSUME EmptyList \/ EndList PROVE ListsInv'
  <2>1. /\ UNCHANGED <<call, holders, phase>>
        /\ lists' = Tail(lists) /\ lists # <<>> /\ layout' = None /\ phase = "lists"
    BY <1>3 DEF EmptyList, EndList, PhaseInv
  <2>2. call # "attributes"
    BY <2>1 DEF PhaseInv
  <2>3. /\ IsSequence(lists) /\ Len(lists) <= Len(LastLists)
        /\ \A i \in 1 .. Len(lists) : lists[i] = LastLists[Drained + i]
        /\ holders # <<>>
        /\ \A k \in 1 .. Len(holders) : IsSequence(holders[k].lists)
    BY <2>1, <2>2 DEF ListsInv
  <2>4. /\ Len(lists) \in Nat \ {0} /\ IsSequence(lists') /\ Len(lists') = Len(lists) - 1
        /\ \A k \in 1 .. Len(lists) - 1 : lists'[k] = lists[k + 1]
    BY <2>1, <2>3, SequenceTail
  <2>5. LastLists' = LastLists /\ Drained \in Nat /\ Len(LastLists) \in Nat
    BY <2>1, <2>2, <2>3, HeadFacts, SequenceFacts DEF LastLists
  <2>6. Drained' = Drained + 1 /\ Len(lists') <= Len(LastLists')
    BY <2>3, <2>4, <2>5 DEF Drained
  <2>7. \A i \in 1 .. Len(lists') : lists'[i] = LastLists'[Drained' + i]
    <3> SUFFICES ASSUME NEW i \in 1 .. Len(lists) - 1
                 PROVE  lists'[i] = LastLists[(Drained + 1) + i]
      BY <2>4, <2>5, <2>6
    <3>1. lists'[i] = lists[i + 1] /\ i + 1 \in 1 .. Len(lists)
      BY <2>4
    <3>2. lists[i + 1] = LastLists[Drained + (i + 1)]
      BY <2>3, <3>1
    <3>3. Drained + (i + 1) = (Drained + 1) + i
      BY <2>5
    <3> QED BY <3>1, <3>2, <3>3
  <2> QED BY <2>1, <2>3, <2>4, <2>6, <2>7 DEF ListsInv
<1>4. ASSUME OpenList \/ EndLists PROVE ListsInv'
  BY <1>2, <1>4 DEF OpenList, EndLists
<1>5. ASSUME TakeMember \/ PassMember PROVE ListsInv'
  BY <1>2, <1>5 DEF TakeMember, PassMember, HasEntry
<1>6. ASSUME CollectCategory \/ SkipSlot \/ EndCollect \/ PassRow \/ EndRows PROVE ListsInv'
  BY <1>2, <1>6 DEF CollectCategory, SkipSlot, EndCollect, PassRow, EndRows
<1>7. ASSUME NextAttribute \/ EndAttributes PROVE ListsInv'
  BY <1>7 DEF NextAttribute, EndAttributes, listVars, PhaseInv, ListsInv
<1>8. ASSUME Returned \/ UNCHANGED vars PROVE ListsInv'
  BY <1>2, <1>8 DEF Returned, vars, listVars
<1> QED BY <1>1, <1>3, <1>4, <1>5, <1>6, <1>7, <1>8 DEF Next, Walk
-----------------------------------------------------------------------------
(* The members *)

(* A place that the walk is past. *)
Before(p) ==
  \/ p[1] < Len(holders)
  \/ p[1] = Len(holders) /\ p[2] <= Drained
  \/ p[1] = Len(holders) /\ p[2] = Drained + 1 /\ layout # None /\ p[3] < cursor

Passed == {p \in MemberPlaces : Before(p)}

MemberValue == [p \in MemberPlaces |-> MemberOf(p)]

OrderInv ==
  call # "attributes" => IsSequence(members) /\ InOrder(members, Passed, MemberValue)

(* A place is a row, a list of it, and an entry that is a member. *)
PlacesAre ==
  /\ MemberPlaces \in SUBSET Place
  /\ \A p \in Place :
       p \in MemberPlaces <=>
         /\ p[1] \in 1 .. Len(holders)
         /\ p[2] \in DOMAIN holders[p[1]].lists
         /\ p[3] \in Places(holders[p[1]].lists[p[2]].of, holders[p[1]].lists[p[2]].at)

LEMMA PlaceFacts == RowsInv /\ ListsInv /\ call # "attributes" => PlacesAre
<1> SUFFICES ASSUME RowsInv, ListsInv, call # "attributes" PROVE PlacesAre
  OBVIOUS
<1>1. Len(holders) \in Nat /\ DOMAIN holders = 1 .. Len(holders)
  BY SequenceFacts DEF RowsInv
<1>2. ASSUME NEW k \in 1 .. Len(holders)
      PROVE  DOMAIN holders[k].lists \subseteq Nat
  BY <1>2, SequenceFacts DEF ListsInv
<1>3. \A of, address : Places(of, address) \subseteq Nat
  BY DEF Places
<1>4. ASSUME NEW p
      PROVE  p \in MemberPlaces <=>
               \E k \in 1 .. Len(holders) : \E j \in DOMAIN holders[k].lists :
                 \E e \in Places(holders[k].lists[j].of, holders[k].lists[j].at) :
                   p = <<k, j, e>>
  BY <1>1 DEF MemberPlaces
<1>5. MemberPlaces \in SUBSET Place
  <2> SUFFICES ASSUME NEW p \in MemberPlaces PROVE p \in Place
    OBVIOUS
  <2>1. PICK k \in 1 .. Len(holders) : \E j \in DOMAIN holders[k].lists :
               \E e \in Places(holders[k].lists[j].of, holders[k].lists[j].at) :
                   p = <<k, j, e>>
    BY <1>4
  <2>2. PICK j \in DOMAIN holders[k].lists :
               \E e \in Places(holders[k].lists[j].of, holders[k].lists[j].at) :
                   p = <<k, j, e>>
    BY <2>1
  <2>3. PICK e \in Places(holders[k].lists[j].of, holders[k].lists[j].at) : p = <<k, j, e>>
    BY <2>2
  <2>4. k \in Nat /\ j \in Nat /\ e \in Nat
    BY <1>1, <1>2, <1>3
  <2> QED BY <2>3, <2>4 DEF Place
<1>6. ASSUME NEW p \in Place
      PROVE  p \in MemberPlaces <=>
               /\ p[1] \in 1 .. Len(holders)
               /\ p[2] \in DOMAIN holders[p[1]].lists
               /\ p[3] \in Places(holders[p[1]].lists[p[2]].of, holders[p[1]].lists[p[2]].at)
  <2>1. p = <<p[1], p[2], p[3]>>
    BY DEF Place
  <2>2. ASSUME p \in MemberPlaces
        PROVE  /\ p[1] \in 1 .. Len(holders)
               /\ p[2] \in DOMAIN holders[p[1]].lists
               /\ p[3] \in Places(holders[p[1]].lists[p[2]].of, holders[p[1]].lists[p[2]].at)
    BY <1>4, <2>2
  <2> QED BY <1>4, <2>1, <2>2
<1> QED BY <1>5, <1>6 DEF PlacesAre

LEMMA EntriesSame ==
  ASSUME UNCHANGED Reads
  PROVE  /\ \A of, address : Layout(of, address)' = Layout(of, address)
         /\ \A kind, va : Member(kind, va)' = Member(kind, va)
         /\ \A of, address : Places(of, address)' = Places(of, address)
<1>1. \A of, address : Layout(of, address)' = Layout(of, address)
  BY LayoutSame
<1>2. \A kind, va : Member(kind, va)' = Member(kind, va)
  BY MemberSame
<1>3. \A of, address : Places(of, address)' = Places(of, address)
  BY <1>1, <1>2 DEF Places
<1> QED BY <1>1, <1>2, <1>3

(* Rows that are out keep their places and their members. *)
LEMMA PlacesSame ==
  ASSUME UNCHANGED Reads, holders' = holders
  PROVE  MemberPlaces' = MemberPlaces /\ MemberValue' = MemberValue
<1>1. MemberPlaces' = MemberPlaces
  BY EntriesSame DEF MemberPlaces
<1>2. \A p : MemberOf(p)' = MemberOf(p)
  BY EntriesSame DEF MemberOf
<1> QED BY <1>1, <1>2 DEF MemberValue

(* A step that yields nothing passes no member. *)
LEMMA OrderSame ==
  ASSUME UNCHANGED Reads, UNCHANGED <<holders, members>>, call' = call, OrderInv,
         \A p \in MemberPlaces : Before(p)' <=> Before(p)
  PROVE  OrderInv'
<1>1. Passed' = Passed
  BY PlacesSame DEF Passed
<1> QED BY <1>1, PlacesSame DEF OrderInv, InOrder, Rank

LEMMA OrderInit == Init => OrderInv
<1> SUFFICES ASSUME Init PROVE OrderInv
  OBVIOUS
<1>1. holders = <<>> /\ members = <<>>
  BY DEF Init
<1>2. Passed = {}
  BY <1>1 DEF Passed, MemberPlaces
<1>3. Len(members) = 0
  BY <1>1
<1> QED BY <1>1, <1>2, <1>3, FS_EmptySet, SequenceEmpty DEF OrderInv, InOrder

(* Between two rows, every member of the rows that are out is passed. *)
LEMMA AllPassed ==
  ASSUME PhaseInv, RowsInv, ListsInv, call # "attributes", phase # "lists"
  PROVE  Passed = MemberPlaces
<1>1. lists = <<>> /\ Len(lists) = 0
  BY DEF PhaseInv
<1> SUFFICES ASSUME NEW p \in MemberPlaces PROVE Before(p)
  BY DEF Passed
<1>2. /\ p \in Place /\ p[1] \in 1 .. Len(holders)
      /\ p[2] \in DOMAIN holders[p[1]].lists
  BY PlaceFacts DEF PlacesAre
<1>3. Len(holders) \in Nat
  BY SequenceFacts DEF RowsInv
<1>4. CASE p[1] = Len(holders)
  <2>1. holders # <<>>
    BY <1>2, <1>4
  <2>2. LastLists = holders[p[1]].lists
    BY <1>4, <2>1 DEF LastLists
  <2>3. Len(LastLists) \in Nat /\ DOMAIN LastLists = 1 .. Len(LastLists)
    BY <1>2, <2>2, SequenceFacts DEF ListsInv
  <2>4. p[2] <= Drained
    BY <1>1, <1>2, <2>2, <2>3 DEF Drained
  <2> QED BY <1>4, <2>4 DEF Before
<1>5. CASE p[1] # Len(holders)
  BY <1>2, <1>3, <1>5 DEF Before
<1> QED BY <1>4, <1>5

(* The row that is taken adds places, and all of them are ahead. *)
LEMMA OrderTakeRow ==
  ASSUME PhaseInv, RowsInv, ListsInv, OrderInv, RowsInv', ListsInv', TakeRow
  PROVE  OrderInv'
<1> DEFINE holder == Decode(Source[row + 1])
<1>1. /\ UNCHANGED Reads /\ call' = call /\ phase = "rows"
      /\ holders' = Append(holders, holder) /\ lists' = holder.lists
      /\ layout' = layout /\ members' = members
  BY DEF TakeRow, Reads
<1>2. call # "attributes" /\ layout = None
  BY <1>1 DEF PhaseInv
<1> HIDE DEF holder
<1>3. /\ Len(holders) \in Nat /\ Len(holders') = Len(holders) + 1
      /\ \A k \in 1 .. Len(holders) : holders'[k] = holders[k]
      /\ holders'[Len(holders) + 1] = holder
  BY <1>1, <1>2, SequenceAppend DEF RowsInv
<1>4. PlacesAre /\ PlacesAre'
  <2>1. (RowsInv /\ ListsInv /\ call # "attributes" => PlacesAre)'
    BY PlaceFacts, PTL
  <2> QED BY <1>1, <1>2, <2>1, PlaceFacts
<1>5. \A of, address : Places(of, address)' = Places(of, address)
  BY <1>1, EntriesSame
<1>6. Passed = MemberPlaces
  BY <1>1, <1>2, AllPassed
<1>7. Drained' = 0
  <2>1. holders' # <<>>
    BY <1>3
  <2>2. LastLists' = holder.lists /\ IsSequence(lists')
    BY <1>1, <1>2, <1>3, <2>1 DEF LastLists, ListsInv
  <2> QED BY <1>1, <2>2, SequenceFacts DEF Drained
<1>8. ASSUME NEW p \in Place, p[1] \in 1 .. Len(holders)
      PROVE  p \in MemberPlaces' <=> p \in MemberPlaces
  <2>1. p[1] \in 1 .. Len(holders') /\ holders'[p[1]] = holders[p[1]]
    BY <1>3, <1>8
  <2> QED BY <1>4, <1>5, <1>8, <2>1 DEF PlacesAre
<1>9. Passed' = MemberPlaces
  <2>1. ASSUME NEW p \in MemberPlaces PROVE p \in Passed'
    <3>1. p \in Place /\ p[1] \in 1 .. Len(holders)
      BY <1>4 DEF PlacesAre
    <3>2. p[1] < Len(holders')
      BY <1>3, <3>1
    <3> QED BY <1>8, <3>1, <3>2 DEF Passed, Before
  <2>2. ASSUME NEW p \in Passed' PROVE p \in MemberPlaces
    <3>1. p \in MemberPlaces' /\ Before(p)'
      BY DEF Passed
    <3>2. p \in Place /\ p[1] \in 1 .. Len(holders')
      BY <1>4, <3>1 DEF PlacesAre
    <3>3. p[1] # Len(holders')
      <4> SUFFICES ASSUME p[1] = Len(holders') PROVE FALSE
        OBVIOUS
      <4>1. p[2] \in DOMAIN holder.lists /\ IsSequence(holder.lists)
        BY <1>1, <1>2, <1>3, <1>4, <3>1, <3>2 DEF PlacesAre, ListsInv
      <4>2. p[2] \in Nat \ {0}
        BY <4>1, SequenceFacts
      <4> QED BY <1>1, <1>2, <1>3, <1>7, <3>1, <4>2 DEF Before
    <3>4. p[1] \in 1 .. Len(holders)
      BY <1>3, <3>2, <3>3
    <3> QED BY <1>8, <3>1, <3>2, <3>4
  <2> QED BY <2>1, <2>2
<1>10. ASSUME NEW p \in MemberPlaces PROVE MemberValue'[p] = MemberValue[p]
  <2>1. p \in Place /\ p[1] \in 1 .. Len(holders)
    BY <1>4 DEF PlacesAre
  <2>2. p \in MemberPlaces' /\ holders'[p[1]] = holders[p[1]]
    BY <1>3, <1>8, <2>1
  <2>3. /\ \A of, address : Layout(of, address)' = Layout(of, address)
        /\ \A kind, va : Member(kind, va)' = Member(kind, va)
    BY <1>1, EntriesSame
  <2>4. MemberOf(p)' = MemberOf(p)
    BY <2>2, <2>3 DEF MemberOf
  <2> QED BY <2>2, <2>4 DEF MemberValue
<1>11. IsSequence(members) /\ InOrder(members, MemberPlaces, MemberValue)
  BY <1>2, <1>6 DEF OrderInv
<1>12. InOrder(members, MemberPlaces, MemberValue')
  BY <1>10, <1>11 DEF InOrder
<1> QED BY <1>1, <1>9, <1>11, <1>12 DEF OrderInv, InOrder, Rank

(* The entry the walk stands at. *)
Here == <<Len(holders), Drained + 1, cursor>>

LEMMA HereFacts ==
  ASSUME PhaseInv, RowsInv, ListsInv, HasEntry
  PROVE  /\ call # "attributes" /\ phase = "lists" /\ Here \in Place
         /\ Len(holders) \in Nat /\ Drained \in Nat /\ cursor \in Nat
         /\ Here \in MemberPlaces <=> Entry # None
         /\ MemberOf(Here) = [row |-> Len(holders), field |-> Head(lists).field, member |-> Entry]
         /\ Here[1] = Len(holders) /\ Here[2] = Drained + 1 /\ Here[3] = cursor
<1>1. layout # None /\ cursor < layout.count /\ lists # <<>> /\ phase = "lists"
  BY DEF HasEntry, PhaseInv
<1>2. call # "attributes"
  BY <1>1 DEF PhaseInv
<1>3. layout = Layout(Head(lists).of, Head(lists).at) /\ cursor \in 0 .. layout.count
  BY <1>1, <1>2 DEF ListsInv
<1>4. layout.count \in Nat /\ cursor \in 0 .. layout.count - 1
  <2>1. layout.count \in Nat
    BY <1>1, <1>2, <1>3, LayoutCount
  <2> QED BY <1>1, <1>3, <2>1
<1>5. /\ Len(holders) \in Nat \ {0} /\ Drained \in Nat
      /\ LastLists = holders[Len(holders)].lists
      /\ Drained + 1 \in DOMAIN LastLists /\ Head(lists) = LastLists[Drained + 1]
  BY <1>1, <1>2, HeadFacts
<1>6. Here \in Place /\ Here[1] = Len(holders) /\ Here[2] = Drained + 1 /\ Here[3] = cursor
  BY <1>4, <1>5 DEF Here, Place
<1>7. cursor \in Places(Head(lists).of, Head(lists).at) <=> Entry # None
  BY <1>1, <1>3, <1>4 DEF Places, Entry
<1>8. Here \in MemberPlaces <=> Entry # None
  <2>1. PlacesAre
    BY <1>2, PlaceFacts
  <2> QED BY <1>5, <1>6, <1>7, <2>1 DEF PlacesAre
<1>9. MemberOf(Here) = [row |-> Len(holders), field |-> Head(lists).field, member |-> Entry]
  BY <1>3, <1>5, <1>6 DEF MemberOf, Entry
<1> QED BY <1>1, <1>2, <1>4, <1>5, <1>6, <1>8, <1>9

(* The step over an entry passes its place and no other. *)
LEMMA BeforeHere ==
  ASSUME PhaseInv, RowsInv, ListsInv, HasEntry, UNCHANGED <<holders, lists, layout>>,
         cursor' = cursor + 1, NEW p \in Place
  PROVE  /\ Before(p)' <=> Before(p) \/ p = Here
         /\ ~(Before(Here))
         /\ Before(p) => UpTo(p, Here)
<1>1. /\ Here \in Place /\ Len(holders) \in Nat /\ Drained \in Nat /\ cursor \in Nat
      /\ Here[1] = Len(holders) /\ Here[2] = Drained + 1 /\ Here[3] = cursor
      /\ layout # None
  BY HereFacts DEF HasEntry
<1>2. Drained' = Drained
  BY DEF Drained, LastLists
<1>3. /\ p[1] \in Nat /\ p[2] \in Nat /\ p[3] \in Nat
      /\ p = Here <=> p[1] = Here[1] /\ p[2] = Here[2] /\ p[3] = Here[3]
  BY <1>1 DEF Place
<1>4. Before(p)' <=> Before(p) \/ p = Here
  BY <1>1, <1>2, <1>3 DEF Before
<1>5. ~Before(Here)
  BY <1>1 DEF Before
<1>6. Before(p) => UpTo(p, Here)
  BY <1>1, <1>3 DEF Before, UpTo
<1> QED BY <1>4, <1>5, <1>6

LEMMA OrderTakeMember ==
  ASSUME PhaseInv, RowsInv, ListsInv, OrderInv, TakeMember
  PROVE  OrderInv'
<1>1. /\ HasEntry /\ UNCHANGED Reads /\ UNCHANGED <<call, holders, lists, layout>>
      /\ cursor' = cursor + 1 /\ Entry # None
      /\ members' = Append(members, [row |-> Len(holders), field |-> Head(lists).field,
                                     member |-> Entry])
  BY DEF TakeMember, Reads
<1>2. /\ call # "attributes" /\ Here \in Place /\ Here \in MemberPlaces
      /\ members' = Append(members, MemberOf(Here))
  BY <1>1, HereFacts
<1>3. PlacesAre /\ IsSequence(members) /\ InOrder(members, Passed, MemberValue)
  BY <1>2, PlaceFacts DEF OrderInv
<1>4. MemberPlaces' = MemberPlaces /\ MemberValue' = MemberValue
  BY <1>1, PlacesSame
<1>5. Passed \in SUBSET Place
  BY <1>3 DEF Passed, PlacesAre
<1>6. /\ Passed' = Passed \cup {Here} /\ Here \notin Passed
      /\ \A p \in Passed : UpTo(p, Here)
  <2>1. \A p \in MemberPlaces : /\ Before(p)' <=> Before(p) \/ p = Here
                                /\ ~(Before(Here))
                                /\ Before(p) => UpTo(p, Here)
    BY <1>1, <1>3, BeforeHere DEF PlacesAre
  <2>2. Passed' = {p \in MemberPlaces : Before(p)'}
    BY <1>4 DEF Passed
  <2> QED BY <1>2, <2>1, <2>2 DEF Passed
<1>7. MemberValue[Here] = MemberOf(Here)
  BY <1>2 DEF MemberValue
<1>8. InOrder(Append(members, MemberValue[Here]), Passed \cup {Here}, MemberValue)
  BY <1>2, <1>3, <1>5, <1>6, InOrderMore
<1>9. IsSequence(members')
  BY <1>2, <1>3, SequenceAppend
<1> QED BY <1>2, <1>4, <1>6, <1>7, <1>8, <1>9 DEF OrderInv, InOrder, Rank

(* The entry that is passed over is no member. *)
LEMMA OrderPassMember ==
  ASSUME PhaseInv, RowsInv, ListsInv, OrderInv, PassMember
  PROVE  OrderInv'
<1>1. /\ HasEntry /\ UNCHANGED Reads /\ UNCHANGED <<call, holders, lists, layout, members>>
      /\ cursor' = cursor + 1 /\ Entry = None
  BY DEF PassMember, Reads
<1>2. call # "attributes" /\ Here \notin MemberPlaces
  BY <1>1, HereFacts
<1>3. PlacesAre
  BY <1>2, PlaceFacts
<1>4. \A p \in MemberPlaces : Before(p)' <=> Before(p) \/ p = Here
  BY <1>1, <1>3, BeforeHere DEF PlacesAre
<1>5. \A p \in MemberPlaces : Before(p)' <=> Before(p)
  BY <1>2, <1>4
<1> QED BY <1>1, <1>5, OrderSame

(* Opening a list passes nothing. *)
LEMMA OrderOpenList ==
  ASSUME PhaseInv, RowsInv, ListsInv, OrderInv, OpenList
  PROVE  OrderInv'
<1>1. /\ UNCHANGED Reads /\ UNCHANGED <<call, holders, lists, members>>
      /\ layout = None /\ cursor' = 0 /\ phase = "lists"
  BY DEF OpenList, Reads
<1>2. PlacesAre
  BY <1>1, PlaceFacts DEF PhaseInv
<1>3. Drained' = Drained
  BY <1>1 DEF Drained, LastLists
<1>4. ASSUME NEW p \in MemberPlaces PROVE Before(p)' <=> Before(p)
  <2>1. p[3] \in Nat
    BY <1>2 DEF PlacesAre, Place
  <2>2. ~(p[3] < 0)
    BY <2>1
  <2> QED BY <1>1, <1>3, <2>2 DEF Before
<1> QED BY <1>1, <1>4, OrderSame

(* A list that ends, or is not there, has no entry ahead. *)
LEMMA OrderNextList ==
  ASSUME PhaseInv, RowsInv, ListsInv, OrderInv, EmptyList \/ EndList
  PROVE  OrderInv'
<1>1. /\ UNCHANGED Reads /\ UNCHANGED <<call, holders, members>>
      /\ lists' = Tail(lists) /\ layout' = None
      /\ lists # <<>> /\ phase = "lists"
  BY DEF EmptyList, EndList, Reads, PhaseInv
<1>2. call # "attributes"
  BY <1>1 DEF PhaseInv
<1>3. PlacesAre /\ IsSequence(lists)
  BY <1>2, PlaceFacts DEF ListsInv
<1>4. /\ Len(holders) \in Nat \ {0} /\ Drained \in Nat
      /\ LastLists = holders[Len(holders)].lists
      /\ Drained + 1 \in DOMAIN LastLists /\ Head(lists) = LastLists[Drained + 1]
  BY <1>1, <1>2, HeadFacts
<1>5. Drained' = Drained + 1
  <2>1. LastLists' = LastLists
    BY <1>1 DEF LastLists
  <2>2. Len(lists) \in Nat /\ Len(lists') = Len(lists) - 1
    BY <1>1, <1>3, SequenceTail
  <2>3. Len(LastLists) \in Nat
    <3>1. IsSequence(LastLists)
      BY <1>2, <1>4 DEF ListsInv
    <3> QED BY <3>1, SequenceFacts
  <2> QED BY <2>1, <2>2, <2>3 DEF Drained
<1>6. ASSUME NEW e \in Places(Head(lists).of, Head(lists).at)
      PROVE  layout # None /\ e < cursor
  <2> DEFINE found == Layout(Head(lists).of, Head(lists).at)
  <2>1. found # None /\ e \in 0 .. found.count - 1
    BY <1>6 DEF Places
  <2>2. found.count \in Nat
    BY <1>2, <2>1, LayoutCount
  <2>3. EndList
    BY <2>1 DEF EmptyList
  <2>4. layout # None /\ cursor >= layout.count /\ layout = found /\ cursor \in 0 .. layout.count
    BY <1>2, <2>3 DEF EndList, ListsInv
  <2> QED BY <2>1, <2>2, <2>4
<1>7. ASSUME NEW p \in MemberPlaces PROVE Before(p)' <=> Before(p)
  <2>1. /\ p \in Place /\ p[1] \in 1 .. Len(holders)
        /\ p[3] \in Places(holders[p[1]].lists[p[2]].of, holders[p[1]].lists[p[2]].at)
    BY <1>3 DEF PlacesAre
  <2>2. p[1] \in Nat /\ p[2] \in Nat /\ p[3] \in Nat
    BY <2>1 DEF Place
  <2>3. ASSUME p[1] = Len(holders), p[2] = Drained + 1
        PROVE  layout # None /\ p[3] < cursor
    BY <1>4, <1>6, <2>1, <2>3
  <2> QED BY <1>1, <1>4, <1>5, <2>2, <2>3 DEF Before
<1> QED BY <1>1, <1>7, OrderSame

LEMMA OrderStep ==
  ASSUME PhaseInv, RowsInv, ListsInv, OrderInv, RowsInv', ListsInv', [Next]_vars
  PROVE  OrderInv'
<1>1. CASE TakeRow
  BY <1>1, OrderTakeRow
<1>2. CASE TakeMember
  BY <1>2, OrderTakeMember
<1>3. CASE PassMember
  BY <1>3, OrderPassMember
<1>4. CASE OpenList
  BY <1>4, OrderOpenList
<1>5. CASE EmptyList \/ EndList
  BY <1>5, OrderNextList
<1>6. CASE \/ CollectCategory \/ SkipSlot \/ EndCollect \/ PassRow \/ EndRows \/ EndLists
           \/ Returned \/ UNCHANGED vars
  <2>1. /\ UNCHANGED Reads /\ UNCHANGED <<call, holders, members>>
        /\ UNCHANGED <<lists, layout, cursor>>
    BY <1>6 DEF CollectCategory, SkipSlot, EndCollect, PassRow, EndRows, EndLists,
                Returned, vars, listVars, Reads
  <2>2. Drained' = Drained
    BY <2>1 DEF Drained, LastLists
  <2>3. \A p \in MemberPlaces : Before(p)' <=> Before(p)
    BY <2>1, <2>2 DEF Before
  <2> QED BY <2>1, <2>3, OrderSame
<1>7. CASE NextAttribute \/ EndAttributes
  BY <1>7 DEF NextAttribute, EndAttributes, listVars, PhaseInv, OrderInv
<1> QED BY <1>1, <1>2, <1>3, <1>4, <1>5, <1>6, <1>7 DEF Next, Walk

(* When the walk has ended every place is passed. *)
LEMMA OrderSound == PhaseInv /\ RowsInv /\ ListsInv /\ OrderInv => MembersInOrder
<1> SUFFICES ASSUME PhaseInv, RowsInv, ListsInv, OrderInv, phase = "done",
                    call # "attributes"
             PROVE  MembersInOrder
  BY DEF MembersInOrder
<1>1. Passed = MemberPlaces
  BY AllPassed
<1>2. InOrder(members, MemberPlaces, MemberValue)
  BY <1>1 DEF OrderInv
<1> QED BY <1>2 DEF InOrder, MembersInOrder, MemberValue
-----------------------------------------------------------------------------
(* The theorems *)

MembersInv == PhaseInv /\ AttributesInv /\ RowsInv /\ ListsInv /\ OrderInv

LEMMA MembersInit == Init => MembersInv
BY PhaseInit, AttributesInit, RowsInit, ListsInit, OrderInit DEF MembersInv

LEMMA MembersStep == MembersInv /\ [Next]_vars => MembersInv'
<1> SUFFICES ASSUME MembersInv, [Next]_vars PROVE MembersInv'
  OBVIOUS
<1>1. PhaseInv' /\ AttributesInv' /\ RowsInv'
  BY PhaseStep, AttributesStep, RowsStep DEF MembersInv
<1>2. ListsInv'
  BY ListsStep DEF MembersInv
<1>3. OrderInv'
  BY <1>1, <1>2, OrderStep DEF MembersInv
<1> QED BY <1>1, <1>2, <1>3 DEF MembersInv

(* For every image and every string: the invariant the other three rest    *)
(* on, with the rows and the members up to where the walk is.              *)
THEOREM MembersInvariant == Spec => []MembersInv
<1>1. Init => MembersInv
  BY MembersInit
<1>2. MembersInv /\ [Next]_vars => MembersInv'
  BY MembersStep
<1> QED BY <1>1, <1>2, PTL DEF Spec

(* For every image: each category comes once, where either section lists   *)
(* it first, and each row of the other iterators once and in order,        *)
(* whatever cannot be decoded stands between them.                         *)
THEOREM RowsComeOnce == Spec => []EachRowOnce
<1>1. MembersInv => EachRowOnce
  BY RowsSound DEF MembersInv
<1> QED BY <1>1, MembersInvariant, PTL

(* For every image: the members are the entries of every list of every row *)
(* that is out, in the order of rows, lists and entries, none twice, none  *)
(* missing, each under its own row and field.                              *)
THEOREM MembersComeInOrder == Spec => []MembersInOrder
<1>1. MembersInv => MembersInOrder
  BY OrderSound DEF MembersInv
<1> QED BY <1>1, MembersInvariant, PTL

(* For every string, however commas and quotes stand: its items lie one    *)
(* behind the other from its beginning to its end, cut at the commas       *)
(* outside of quotes and at no others, and each has all bytes behind its   *)
(* key as value; except where a longer character stands in place of the    *)
(* key, whose item has an empty value, so that its text is lost.           *)
THEOREM StringsAreCut == Spec => []ItemsSpanString
<1>1. MembersInv => ItemsSpanString
  BY DEF MembersInv, AttributesInv
<1> QED BY <1>1, MembersInvariant, PTL
=============================================================================
