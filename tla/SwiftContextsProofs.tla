------------------------- MODULE SwiftContextsProofs -------------------------
(***************************************************************************)
(* Proofs about SwiftContexts, for every image: any table, any parent      *)
(* relation, cycles included.                                              *)
(*                                                                         *)
(* The way up from a type is a fact of the image, not of the walk.  So the *)
(* invariant follows the walk along that path, when there is one, and says *)
(* that it can never end when there is none.                               *)
(***************************************************************************)
EXTENDS SwiftContexts, TLAPS

(* No way up that ends is longer than what the model keeps of a walk. *)
Shallow ==
  \A va \in DOMAIN image.contexts : \A path \in PathsFrom(va) : Len(path) < MaxHops

Type == [address: DOMAIN image.contexts, parent: 0 .. (Limit - 1), name: Names]

TypeOK ==
  /\ IsImage(image)
  /\ phase \in {"types", "parents", "done"}
  /\ cursor \in 0 .. Len(image.slots)
  /\ types \in Seq(Type)
  /\ next \in 0 .. (Limit - 1)
  /\ hops \in Seq(Names)
  /\ qualified \in Seq(Seq(Names))
  /\ phase = "parents" => types # <<>>

(* Who is below the j-th hop of a path. *)
Below(va, path, j) == IF j = 1 THEN va ELSE path[j - 1]

(* The names are those of the first j contexts, the elided ones left out. *)
Spelt(path, j, names) ==
  \E at \in Listings(NamedOf(path, j), Len(names)) :
    \A k \in 1 .. Len(names) : names[k] = ContextName(path[at[k]])

(* The walk from va has made the first j hops of the way up. *)
OnPath(va, path, j) ==
  /\ next = ParentOf(Below(va, path, j + 1))
  /\ Len(hops) <= j
  /\ Spelt(path, j, hops)

(* The walk is between two descriptors from which no way up ends. *)
Lost ==
  \E va \in DOMAIN image.contexts : PathsFrom(va) = {} /\ next = ParentOf(va)

ChainInv ==
  phase = "parents" =>
    \/ \E path \in PathsFrom(types[Len(types)].address) :
         \E j \in 0 .. Len(path) : OnPath(types[Len(types)].address, path, j)
    \/ Lost

ContextsInv == TypeOK /\ EveryTypeListed /\ (Shallow => ChainInv /\ QualifiedByAncestors)
-----------------------------------------------------------------------------
(* A sequence is a function on the positions up to its length. *)
LEMMA SeqFacts ==
  ASSUME NEW S, NEW s \in Seq(S)
  PROVE  /\ Len(s) \in Nat /\ DOMAIN s = 1 .. Len(s)
         /\ \A k \in 1 .. Len(s) : s[k] \in S
OBVIOUS

(* An image, component by component. *)
LEMMA ImageFacts ==
  ASSUME IsImage(image)
  PROVE  /\ image.slots \in Seq([va: Nat, rel: Int]) /\ Len(image.slots) \in Nat
         /\ DOMAIN image.slots = 1 .. Len(image.slots)
         /\ \A k \in 1 .. Len(image.slots) :
              image.slots[k].va \in Nat /\ image.slots[k].rel \in Int
         /\ DOMAIN image.readable = DOMAIN image.contexts
         /\ \A va \in DOMAIN image.contexts :
              /\ va \in Nat /\ image.readable[va] \in Nat
              /\ image.contexts[va].parent \in Int /\ image.contexts[va].name \in Int
         /\ \A va \in DOMAIN image.strings : image.strings[va] \in Names
<1>1. /\ image.slots \in Seq([va: Nat, rel: Int])
      /\ DOMAIN image.contexts \subseteq Nat
      /\ image.contexts \in [DOMAIN image.contexts -> Context]
      /\ image.readable \in [DOMAIN image.contexts -> Nat]
      /\ image.strings \in [DOMAIN image.strings -> Names]
  BY DEF IsImage
<1>2. \A k \in 1 .. Len(image.slots) : image.slots[k] \in [va: Nat, rel: Int]
  BY <1>1, SeqFacts
<1>3. \A va \in DOMAIN image.contexts : image.contexts[va] \in Context
  BY <1>1
<1> QED BY <1>1, <1>2, <1>3 DEF Context

LEMMA Division ==
  ASSUME NEW v \in Int, NEW m \in Nat \ {0}
  PROVE  /\ v % m \in 0 .. (m - 1) /\ v \div m \in Int
         /\ v = m * (v \div m) + (v % m)
<1>1. v % m \in 0 .. (m - 1) /\ v \div m \in Int
  OBVIOUS
<1>2. v = m * (v \div m) + (v % m)
  BY Z3
<1> QED BY <1>1, <1>2

(* Two numbers have the same remainder just when their difference has none.*)
LEMMA Congruence ==
  ASSUME NEW p \in Int, NEW v \in Int, NEW m \in Nat \ {0}, p \in 0 .. (m - 1)
  PROVE  v % m = p <=> (p - v) % m = 0
<1>1. PICK q \in Int, r \in 0 .. (m - 1) : v = m * q + r /\ r = v % m
  BY Division
<1>2. PICK d \in Int, s \in 0 .. (m - 1) : p - v = m * d + s /\ s = (p - v) % m
  <2>1. p - v \in Int
    OBVIOUS
  <2>2. /\ (p - v) % m \in 0 .. (m - 1) /\ (p - v) \div m \in Int
        /\ p - v = m * ((p - v) \div m) + ((p - v) % m)
    BY <2>1, Division
  <2> QED BY <2>2
<1>3. PICK e \in Int : e = q + d
  OBVIOUS
<1>4. m * e = p - r - s
  <2>1. m * (q + d) = m * q + m * d
    BY Z3
  <2>2. PICK y \in Int, z \in Int : y = m * q /\ z = m * d
    BY Z3
  <2>3. v = y + r /\ p - v = z + s
    BY <1>1, <1>2, <2>2
  <2>4. y + z = p - r - s
    BY <2>3
  <2> QED BY <1>3, <2>1, <2>2, <2>4
<1>5. CASE s = 0
  <2>1. m * e = p - r /\ p - r < m /\ r - p < m
    BY <1>4, <1>5
  <2>2. p - r = 0
    BY <2>1, Z3
  <2> QED BY <1>1, <1>2, <1>5, <2>2
<1>6. CASE s # 0
  <2>1. SUFFICES ASSUME r = p PROVE FALSE
    BY <1>1, <1>2, <1>6
  <2>2. m * e = -s /\ s > 0 /\ s < m
    BY <1>4, <1>6, <2>1
  <2> QED BY <2>2, Z3
<1> QED BY <1>5, <1>6

LEMMA PointerType ==
  ASSUME NEW base \in Int, NEW rel \in Int
  PROVE  RelativePointer(base, rel) \in 0 .. (Limit - 1)
BY ContextAssumption DEF RelativePointer

LEMMA ParentType ==
  ASSUME IsImage(image), NEW va \in DOMAIN image.contexts
  PROVE  ParentOf(va) \in 0 .. (Limit - 1)
<1>1. va + 4 \in Int /\ image.contexts[va].parent \in Int
  BY ImageFacts
<1>2. RelativePointer(va + 4, image.contexts[va].parent) \in 0 .. (Limit - 1)
  BY <1>1, PointerType
<1> QED BY <1>2, ContextAssumption DEF ParentOf

(* The parent relation is what the walk finds at next. *)
LEMMA UpIsParent ==
  ASSUME IsImage(image), NEW va \in DOMAIN image.contexts
  PROVE  Up(va) = IF ParentOf(va) # 0 /\ Readable(ParentOf(va), 8)
                  THEN {ParentOf(va)} ELSE {}
<1> DEFINE rel == image.contexts[va].parent
           p   == ParentOf(va)
<1>1. va \in Nat /\ rel \in Int /\ p \in 0 .. (Limit - 1)
  BY ImageFacts, ParentType
<1>2. CASE rel = 0
  BY <1>2 DEF Up, ParentOf
<1>3. CASE rel # 0
  <2>1. p = (va + 4 + rel) % Limit
    BY <1>3 DEF ParentOf, RelativePointer
  <2>2. ASSUME NEW c \in DOMAIN image.contexts, Readable(c, 8)
        PROVE  (c - va - 4 - rel) % Limit = 0 <=> c = p
    <3>1. c \in Nat /\ c + 8 < Limit
      BY <2>2, ImageFacts DEF Readable
    <3>2. c \in Int /\ va + 4 + rel \in Int /\ c \in 0 .. (Limit - 1)
          /\ Limit \in Nat \ {0}
      BY <1>1, <3>1, ContextAssumption
    <3>3. (va + 4 + rel) % Limit = c <=> (c - (va + 4 + rel)) % Limit = 0
      BY <3>2, Congruence
    <3>4. c - (va + 4 + rel) = c - va - 4 - rel
      BY <1>1, <3>1
    <3> QED BY <2>1, <3>3, <3>4
  <2>3. Readable(p, 8) => p \in DOMAIN image.contexts
    BY ImageFacts DEF Readable
  <2>4. Up(va) = {c \in DOMAIN image.contexts \ {0} :
                    Readable(c, 8) /\ (c - va - 4 - rel) % Limit = 0}
    BY <1>3 DEF Up
  <2> HIDE DEF p, rel
  <2>5. Up(va) = IF p # 0 /\ Readable(p, 8) THEN {p} ELSE {}
    BY <2>2, <2>3, <2>4
  <2> QED BY <2>5 DEF p
<1> QED BY <1>2, <1>3
-----------------------------------------------------------------------------
(* Lists of positions *)

LEMMA ListingNone ==
  ASSUME NEW at, at = [i \in 1 .. 0 |-> 0]
  PROVE  at \in Listings({}, 0)
BY DEF Listings

LEMMA ListingMore ==
  ASSUME NEW S \in SUBSET Nat, NEW n \in Nat, NEW at \in Listings(S, n),
         NEW x \in Nat, \A k \in S : k < x
  PROVE  [i \in 1 .. (n + 1) |-> IF i <= n THEN at[i] ELSE x]
           \in Listings(S \cup {x}, n + 1)
<1> DEFINE more == [i \in 1 .. (n + 1) |-> IF i <= n THEN at[i] ELSE x]
<1>1. /\ at \in [1 .. n -> S]
      /\ \A i, j \in 1 .. n : i < j => at[i] < at[j]
      /\ \A k \in S : \E i \in 1 .. n : at[i] = k
  BY DEF Listings
<1>2. /\ \A i \in 1 .. n : more[i] = at[i] /\ at[i] \in S
      /\ more[n + 1] = x
      /\ \A i \in 1 .. (n + 1) : i \in 1 .. n \/ i = n + 1
      /\ \A i \in 1 .. n : i \in 1 .. (n + 1) /\ i < n + 1
      /\ n + 1 \in 1 .. (n + 1)
  BY <1>1
<1>3. more \in [1 .. (n + 1) -> S \cup {x}]
  BY <1>1
<1> HIDE DEF more
<1>4. \A i, j \in 1 .. (n + 1) : i < j => more[i] < more[j]
  <2> SUFFICES ASSUME NEW i \in 1 .. (n + 1), NEW j \in 1 .. (n + 1), i < j
               PROVE  more[i] < more[j]
    OBVIOUS
  <2>1. i \in 1 .. n
    OBVIOUS
  <2>2. CASE j \in 1 .. n
    BY <1>1, <1>2, <2>1, <2>2
  <2>3. CASE j = n + 1
    BY <1>2, <2>1, <2>3
  <2> QED BY <1>2, <2>2, <2>3
<1>5. \A k \in S \cup {x} : \E i \in 1 .. (n + 1) : more[i] = k
  BY <1>1, <1>2
<1>6. more \in Listings(S \cup {x}, n + 1)
  BY <1>3, <1>4, <1>5 DEF Listings
<1> QED BY <1>6 DEF more

LEMMA SpeltNone ==
  ASSUME NEW path
  PROVE  Spelt(path, 0, <<>>)
<1>1. NamedOf(path, 0) = {} /\ Len(<<>>) = 0
  BY DEF NamedOf
<1>2. PICK at : at = [i \in 1 .. 0 |-> 0]
  OBVIOUS
<1>3. at \in Listings(NamedOf(path, 0), Len(<<>>))
  BY <1>1, <1>2, ListingNone
<1>4. \A k \in 1 .. Len(<<>>) : FALSE
  BY <1>1
<1> QED BY <1>3, <1>4 DEF Spelt

(* One context more, with a name or without. *)
LEMMA SpeltMore ==
  ASSUME NEW path, NEW j \in Nat, NEW names \in Seq(Names), Spelt(path, j, names),
         NEW name, name = ContextName(path[j + 1]), name \in Names \cup {None}
  PROVE  Spelt(path, j + 1, IF name # None THEN Append(names, name) ELSE names)
<1>1. 1 .. (j + 1) = (1 .. j) \cup {j + 1}
  OBVIOUS
<1>2. CASE name = None
  <2>1. NamedOf(path, j + 1) = NamedOf(path, j)
    BY <1>1, <1>2 DEF NamedOf
  <2> QED BY <1>2, <2>1 DEF Spelt
<1>3. CASE name # None
  <2> DEFINE S == NamedOf(path, j)
  <2>1. NamedOf(path, j + 1) = S \cup {j + 1}
    BY <1>1, <1>3 DEF NamedOf
  <2>2. S \in SUBSET Nat /\ \A k \in S : k < j + 1
    BY DEF NamedOf
  <2>3. PICK n \in Nat : n = Len(names)
    OBVIOUS
  <2>4. PICK at \in Listings(S, n) : \A k \in 1 .. n : names[k] = ContextName(path[at[k]])
    BY <2>3 DEF Spelt
  <2> HIDE DEF S
  <2> DEFINE more == [i \in 1 .. (n + 1) |-> IF i <= n THEN at[i] ELSE j + 1]
  <2>5. more \in Listings(S \cup {j + 1}, n + 1)
    <3>1. PICK x \in Nat : x = j + 1
      OBVIOUS
    <3>2. [i \in 1 .. (n + 1) |-> IF i <= n THEN at[i] ELSE x]
            \in Listings(S \cup {x}, n + 1)
      <4>1. S \in SUBSET Nat /\ \A k \in S : k < x
        BY <2>2, <3>1
      <4> QED BY <2>4, <4>1, ListingMore, Zenon
    <3> QED BY <3>1, <3>2
  <2>6. /\ \A k \in 1 .. n : more[k] = at[k]
        /\ more[n + 1] = j + 1
    OBVIOUS
  <2> HIDE DEF more
  <2>7. /\ Len(Append(names, name)) = n + 1
        /\ \A k \in 1 .. n : Append(names, name)[k] = names[k]
        /\ Append(names, name)[n + 1] = name
    BY <1>3, <2>3
  <2>8. \A k \in 1 .. (n + 1) : Append(names, name)[k] = ContextName(path[more[k]])
    <3>1. \A k \in 1 .. (n + 1) : k \in 1 .. n \/ k = n + 1
      OBVIOUS
    <3> QED BY <2>4, <2>6, <2>7, <3>1
  <2>9. Spelt(path, j + 1, Append(names, name))
    BY <2>1, <2>5, <2>7, <2>8 DEF Spelt
  <2> QED BY <1>3, <2>9
<1> QED BY <1>2, <1>3
-----------------------------------------------------------------------------
(* Ways up *)

LEMMA PathIs ==
  ASSUME NEW va, NEW n \in 0 .. MaxHops, NEW path \in [1 .. n -> DOMAIN image.contexts]
  PROVE  /\ Len(path) = n /\ DOMAIN path = 1 .. n
         /\ path \in PathsFrom(va) <=>
              /\ \A i \in 1 .. n : path[i] \in Up(Below(va, path, i))
              /\ Up(Below(va, path, n + 1)) = {}
<1>1. n \in Nat
  BY ContextAssumption
<1>2. path \in Seq(DOMAIN image.contexts) /\ Len(path) = n /\ DOMAIN path = 1 .. n
  BY <1>1
<1>3. path = <<>> <=> n = 0
  BY <1>1, <1>2
<1>4. Up(IF path = <<>> THEN va ELSE path[Len(path)]) = Up(Below(va, path, n + 1))
  BY <1>1, <1>2, <1>3 DEF Below
<1>5. IsPathFrom(path, va) <=> /\ \A i \in 1 .. n : path[i] \in Up(Below(va, path, i))
                               /\ Up(Below(va, path, n + 1)) = {}
  BY <1>2, <1>4 DEF IsPathFrom, Below
<1>6. path \in UNION {[1 .. m -> DOMAIN image.contexts] : m \in 0 .. MaxHops}
  OBVIOUS
<1> QED BY <1>2, <1>5, <1>6 DEF PathsFrom

LEMMA PathFacts ==
  ASSUME NEW va, NEW path \in PathsFrom(va)
  PROVE  /\ Len(path) \in 0 .. MaxHops
         /\ path \in [1 .. Len(path) -> DOMAIN image.contexts]
         /\ \A i \in 1 .. Len(path) : path[i] \in Up(Below(va, path, i))
         /\ Up(Below(va, path, Len(path) + 1)) = {}
<1>1. PICK n \in 0 .. MaxHops : path \in [1 .. n -> DOMAIN image.contexts]
  BY DEF PathsFrom
<1> QED BY <1>1, PathIs

(* Where no way up ends there is a parent, and none ends at it either. *)
LEMMA NoWay ==
  ASSUME IsImage(image), Shallow, NEW va \in DOMAIN image.contexts, PathsFrom(va) = {}
  PROVE  Up(va) # {} /\ \A p \in Up(va) : PathsFrom(p) = {}
<1>0. MaxHops \in Nat
  BY ContextAssumption
<1>1. Up(va) # {}
  <2>1. SUFFICES ASSUME Up(va) = {} PROVE FALSE
    OBVIOUS
  <2> DEFINE none == [i \in 1 .. 0 |-> va]
  <2>2. none \in [1 .. 0 -> DOMAIN image.contexts] /\ 0 \in 0 .. MaxHops
    BY <1>0
  <2>3. \A i \in 1 .. 0 : none[i] \in Up(Below(va, none, i))
    OBVIOUS
  <2>4. Up(Below(va, none, 0 + 1)) = {}
    BY <2>1 DEF Below
  <2> HIDE DEF none
  <2>5. none \in PathsFrom(va)
    BY <2>2, <2>3, <2>4, PathIs, Zenon
  <2> QED BY <2>5
<1>2. ASSUME NEW p \in Up(va), NEW path \in PathsFrom(p)
      PROVE  FALSE
  <2>1. p \in DOMAIN image.contexts
    BY DEF Up
  <2>2. PICK n \in Nat : n = Len(path) /\ n < MaxHops
    BY <1>0, <2>1, PathFacts DEF Shallow
  <2>3. /\ path \in [1 .. n -> DOMAIN image.contexts]
        /\ \A i \in 1 .. n : path[i] \in Up(Below(p, path, i))
        /\ Up(Below(p, path, n + 1)) = {}
    BY <2>2, PathFacts
  <2> DEFINE longer == [i \in 1 .. (n + 1) |-> IF i = 1 THEN p ELSE path[i - 1]]
  <2>4. /\ longer \in [1 .. (n + 1) -> DOMAIN image.contexts]
        /\ n + 1 \in 0 .. MaxHops
    <3>1. \A i \in 1 .. (n + 1) : i = 1 \/ i - 1 \in 1 .. n
      OBVIOUS
    <3> QED BY <1>0, <2>1, <2>2, <2>3, <3>1
  <2>5. \A i \in 1 .. (n + 1) : longer[i] = Below(p, path, i)
    BY DEF Below
  <2> HIDE DEF longer
  <2>6. \A i \in 2 .. (n + 2) : Below(va, longer, i) = Below(p, path, i - 1)
    <3>1. \A i \in 2 .. (n + 2) : i # 1 /\ i - 1 \in 1 .. (n + 1)
      OBVIOUS
    <3> QED BY <2>5, <3>1 DEF Below
  <2>7. ASSUME NEW i \in 1 .. (n + 1)
        PROVE  longer[i] \in Up(Below(va, longer, i))
    <3>1. CASE i = 1
      BY <2>5, <3>1 DEF Below
    <3>2. CASE i # 1
      <4>1. i - 1 \in 1 .. n /\ i \in 2 .. (n + 2)
        BY <3>2
      <4>2. longer[i] = path[i - 1]
        BY <2>5, <3>2 DEF Below
      <4> QED BY <2>3, <2>6, <4>1, <4>2
    <3> QED BY <3>1, <3>2
  <2>8. Up(Below(va, longer, (n + 1) + 1)) = {}
    <3>1. (n + 1) + 1 \in 2 .. (n + 2) /\ ((n + 1) + 1) - 1 = n + 1
      OBVIOUS
    <3> QED BY <2>3, <2>6, <3>1
  <2>9. longer \in PathsFrom(va)
    BY <2>4, <2>7, <2>8, PathIs
  <2> QED BY <2>9
<1> QED BY <1>1, <1>2
-----------------------------------------------------------------------------
(* What the invariant is made of. *)

RowsListed(n, rows) ==
  \E at \in Listings(Good(n), Len(rows)) :
    \A i \in DOMAIN rows :
      (rows[i].address - image.slots[at[i]].va - image.slots[at[i]].rel) % Limit = 0

NamedRight(full, type) ==
  \E path \in PathsFrom(type.address) :
    LET n == Len(full) - 1
    IN  /\ full[n + 1] = type.name
        /\ \E at \in Listings(NamedOf(path, Len(path)), n) :
             \A k \in 1 .. n : full[n + 1 - k] = ContextName(path[at[k]])

(* All of this is read off the image, which no step writes. *)
LEMMA ImageFrame ==
  ASSUME image' = image
  PROVE  /\ \A im : IsImage(im)' = IsImage(im)
         /\ \A va : PathsFrom(va)' = PathsFrom(va)
         /\ \A va : ParentOf(va)' = ParentOf(va)
         /\ \A path, j, names : Spelt(path, j, names)' <=> Spelt(path, j, names)
         /\ \A n, rows : RowsListed(n, rows)' <=> RowsListed(n, rows)
         /\ \A full, type : NamedRight(full, type)' <=> NamedRight(full, type)
         /\ Shallow' <=> Shallow
         /\ Type' = Type
<1>1. /\ \A va, len : Readable(va, len)' = Readable(va, len)
      /\ \A va : ReadCStr(va)' = ReadCStr(va)
  BY DEF Readable, ReadCStr
<1>2. /\ \A va : TypeName(va)' = TypeName(va)
      /\ \A va : ContextName(va)' = ContextName(va)
      /\ \A va : Up(va)' = Up(va)
  BY <1>1 DEF TypeName, ContextName, Up
<1>3. \A va : PathsFrom(va)' = PathsFrom(va)
  BY <1>2 DEF PathsFrom, IsPathFrom
<1>4. \A path, j : NamedOf(path, j)' = NamedOf(path, j)
  BY <1>2 DEF NamedOf
<1>5. \A n : Good(n)' = Good(n)
  BY <1>1, <1>2 DEF Good
<1>6. Shallow' <=> Shallow
  BY <1>3 DEF Shallow
<1>7. \A path, j, names : Spelt(path, j, names)' <=> Spelt(path, j, names)
  BY <1>2, <1>4 DEF Spelt
<1>8. \A n, rows : RowsListed(n, rows)' <=> RowsListed(n, rows)
  BY <1>5 DEF RowsListed
<1>9. \A full, type : NamedRight(full, type)' <=> NamedRight(full, type)
  BY <1>2, <1>3, <1>4 DEF NamedRight
<1>10. /\ \A im : IsImage(im)' = IsImage(im)
       /\ \A va : ParentOf(va)' = ParentOf(va)
       /\ Type' = Type
  BY DEF IsImage, ParentOf, Type
<1> QED BY <1>3, <1>6, <1>7, <1>8, <1>9, <1>10

(* A string is a name or none. *)
LEMMA NameTypes ==
  ASSUME IsImage(image), NEW va
  PROVE  /\ TypeName(va) \in Names \cup {None}
         /\ ContextName(va) \in Names \cup {None}
<1>1. \A x : ReadCStr(x) \in Names \cup {None}
  BY ImageFacts DEF ReadCStr
<1> QED BY <1>1 DEF TypeName, ContextName

(* A slot is good just when the iterator yields its type. *)
LEMMA GoodNext ==
  ASSUME TypeOK, HasSlot
  PROVE  /\ cursor \in Nat /\ Slot.va \in Nat /\ Slot.rel \in Int
         /\ Slot = image.slots[cursor + 1]
         /\ Good(cursor + 1) = IF IsType THEN Good(cursor) \cup {cursor + 1}
                               ELSE Good(cursor)
         /\ IsType => /\ Pointee \in DOMAIN image.contexts
                      /\ (Pointee - Slot.va - Slot.rel) % Limit = 0
<1>1. /\ IsImage(image) /\ cursor \in Nat /\ cursor + 1 \in 1 .. Len(image.slots)
      /\ Slot = image.slots[cursor + 1]
  BY ImageFacts DEF TypeOK, HasSlot, Slot
<1>2. Slot.va \in Nat /\ Slot.rel \in Int
  BY <1>1, ImageFacts
<1>3. PICK p \in 0 .. (Limit - 1) : p = Pointee
  <2>1. RelativePointer(Slot.va, Slot.rel) \in 0 .. (Limit - 1)
    <3>1. PICK b \in Int, r \in Int : b = Slot.va /\ r = Slot.rel
      BY <1>2
    <3> QED BY <3>1, PointerType
  <2> QED BY <2>1 DEF Pointee
<1>4. p = (Slot.va + Slot.rel) % Limit
  BY <1>3 DEF Pointee, RelativePointer
<1>5. ASSUME NEW c \in DOMAIN image.contexts, Readable(c, 20)
      PROVE  (c - Slot.va - Slot.rel) % Limit = 0 <=> c = p
  <2>1. c \in Nat /\ c + 8 < Limit
    BY <1>1, <1>5, ImageFacts DEF Readable
  <2>2. c \in Int /\ Slot.va + Slot.rel \in Int /\ c \in 0 .. (Limit - 1)
        /\ Limit \in Nat \ {0}
    BY <1>2, <2>1, ContextAssumption
  <2>3. (Slot.va + Slot.rel) % Limit = c <=> (c - (Slot.va + Slot.rel)) % Limit = 0
    BY <2>2, Congruence
  <2>4. c - (Slot.va + Slot.rel) = c - Slot.va - Slot.rel
    BY <1>2, <2>1
  <2> QED BY <1>4, <2>3, <2>4
<1>6. Readable(p, 20) => p \in DOMAIN image.contexts
  BY <1>1, ImageFacts DEF Readable
<1>7. IsType <=> Slot.rel # 0 /\ Readable(p, 20) /\ TypeName(p) # None
  BY <1>3 DEF IsType
<1>8. IsType <=> /\ Slot.rel # 0
                 /\ \E va \in DOMAIN image.contexts :
                      /\ (va - Slot.va - Slot.rel) % Limit = 0
                      /\ Readable(va, 20) /\ TypeName(va) # None
  BY <1>5, <1>6, <1>7
<1>9. Good(cursor + 1) = IF IsType THEN Good(cursor) \cup {cursor + 1} ELSE Good(cursor)
  <2>1. 1 .. (cursor + 1) = (1 .. cursor) \cup {cursor + 1}
    BY <1>1
  <2> QED BY <1>1, <1>8, <2>1 DEF Good
<1>10. IsType => p \in DOMAIN image.contexts /\ (p - Slot.va - Slot.rel) % Limit = 0
  BY <1>5, <1>6, <1>7
<1> QED BY <1>1, <1>2, <1>3, <1>9, <1>10

(* One row more, for a slot behind those that have one. *)
LEMMA RowsMore ==
  ASSUME NEW n \in Nat, NEW rows \in Seq(Type), NEW row \in Type, RowsListed(n, rows),
         Good(n + 1) = Good(n) \cup {n + 1},
         (row.address - image.slots[n + 1].va - image.slots[n + 1].rel) % Limit = 0
  PROVE  RowsListed(n + 1, Append(rows, row))
<1>1. PICK m \in Nat : m = Len(rows)
  OBVIOUS
<1>2. PICK at \in Listings(Good(n), m) :
        \A i \in 1 .. m :
          (rows[i].address - image.slots[at[i]].va - image.slots[at[i]].rel) % Limit = 0
  BY <1>1, SeqFacts DEF RowsListed
<1>3. PICK x \in Nat : x = n + 1
  OBVIOUS
<1>4. Good(n) \in SUBSET Nat /\ \A k \in Good(n) : k < x
  BY <1>3 DEF Good
<1> DEFINE more == [i \in 1 .. (m + 1) |-> IF i <= m THEN at[i] ELSE x]
<1>5. more \in Listings(Good(n) \cup {x}, m + 1)
  BY <1>2, <1>4, ListingMore, Zenon
<1>6. (\A i \in 1 .. m : more[i] = at[i]) /\ more[m + 1] = x
  OBVIOUS
<1> HIDE DEF more
<1>7. /\ Append(rows, row) \in Seq(Type) /\ Len(Append(rows, row)) = m + 1
      /\ \A i \in 1 .. m : Append(rows, row)[i] = rows[i]
      /\ Append(rows, row)[m + 1] = row
  BY <1>1
<1>8. DOMAIN Append(rows, row) = 1 .. (m + 1)
  BY <1>7, SeqFacts
<1>9. \A i \in 1 .. (m + 1) : i \in 1 .. m \/ i = m + 1
  OBVIOUS
<1> DEFINE all == Append(rows, row)
<1>10. ASSUME NEW i \in 1 .. (m + 1)
       PROVE  (all[i].address - image.slots[more[i]].va - image.slots[more[i]].rel)
                % Limit = 0
  <2>1. CASE i \in 1 .. m
    BY <1>2, <1>6, <1>7, <2>1
  <2>2. CASE i = m + 1
    BY <1>3, <1>6, <1>7, <2>2
  <2> QED BY <1>9, <2>1, <2>2
<1> QED BY <1>3, <1>5, <1>7, <1>8, <1>10 DEF RowsListed
-----------------------------------------------------------------------------
(* The steps. *)

LEMMA InitInv == Init => ContextsInv
<1> SUFFICES ASSUME Init PROVE ContextsInv
  OBVIOUS
<1>1. /\ IsImage(image) /\ phase = "types" /\ cursor = 0 /\ types = <<>>
      /\ next = 0 /\ hops = <<>> /\ qualified = <<>>
  BY ContextAssumption DEF Init
<1>2. TypeOK
  BY <1>1, ImageFacts, ContextAssumption DEF TypeOK
<1>3. EveryTypeListed
  <2>1. Good(0) = {} /\ Len(types) = 0 /\ Len(qualified) = 0 /\ DOMAIN types = {}
    BY <1>1 DEF Good
  <2>2. PICK at : at = [i \in 1 .. 0 |-> 0]
    OBVIOUS
  <2>3. at \in Listings(Good(0), 0)
    BY <2>1, <2>2, ListingNone
  <2> QED BY <1>1, <2>1, <2>3 DEF EveryTypeListed
<1>4. ChainInv /\ QualifiedByAncestors
  <2>1. DOMAIN qualified = {}
    BY <1>1
  <2> QED BY <1>1, <2>1 DEF ChainInv, QualifiedByAncestors
<1> QED BY <1>2, <1>3, <1>4 DEF ContextsInv

(* The two properties, in the terms of the lemmas. *)
LEMMA Properties ==
  /\ EveryTypeListed <=>
       /\ RowsListed(cursor, types)
       /\ Len(qualified) = Len(types) - (IF phase = "parents" THEN 1 ELSE 0)
       /\ phase = "done" => cursor = Len(image.slots)
  /\ QualifiedByAncestors <=>
       \A i \in DOMAIN qualified : NamedRight(qualified[i], types[i])
BY DEF EveryTypeListed, RowsListed, QualifiedByAncestors, NamedRight

(* The next state, in the terms of the lemmas. *)
LEMMA PropertiesNext ==
  ASSUME image' = image
  PROVE  /\ EveryTypeListed' <=>
              /\ RowsListed(cursor', types')
              /\ Len(qualified') = Len(types') - (IF phase' = "parents" THEN 1 ELSE 0)
              /\ phase' = "done" => cursor' = Len(image.slots)
         /\ QualifiedByAncestors' <=>
              \A i \in DOMAIN qualified' : NamedRight(qualified'[i], types'[i])
<1>1. /\ EveryTypeListed' <=>
           /\ RowsListed(cursor, types)'
           /\ Len(qualified') = Len(types') - (IF phase' = "parents" THEN 1 ELSE 0)
           /\ phase' = "done" => cursor' = Len(image'.slots)
      /\ QualifiedByAncestors' <=>
           \A i \in DOMAIN qualified' : NamedRight(qualified[i], types[i])'
  BY DEF EveryTypeListed, RowsListed, QualifiedByAncestors, NamedRight
<1>2. RowsListed(cursor, types)' <=> RowsListed(cursor', types')
  BY ImageFrame
<1>3. \A i \in DOMAIN qualified' :
        NamedRight(qualified[i], types[i])' <=> NamedRight(qualified'[i], types'[i])
  BY ImageFrame
<1> QED BY <1>1, <1>2, <1>3

LEMMA SkipStep == ContextsInv /\ (SkipRow \/ EndTypes) => ContextsInv'
<1> SUFFICES ASSUME ContextsInv, SkipRow \/ EndTypes PROVE ContextsInv'
  OBVIOUS
<1>1. /\ TypeOK /\ EveryTypeListed /\ phase = "types" /\ phase' # "parents"
      /\ UNCHANGED <<image, types, next, hops, qualified>>
  BY DEF ContextsInv, SkipRow, EndTypes, HasSlot
<1>2. IsImage(image)' /\ Type' = Type /\ Len(image.slots) \in Nat
  BY <1>1, ImageFrame, ImageFacts DEF TypeOK
<1>3. TypeOK' /\ RowsListed(cursor', types) /\ (phase' = "done" => cursor' = Len(image.slots))
  <2>1. CASE SkipRow
    <3>1. HasSlot /\ ~IsType /\ cursor' = cursor + 1 /\ phase' = phase
      BY <2>1 DEF SkipRow
    <3>2. cursor \in Nat /\ cursor < Len(image.slots)
      BY <1>1, <3>1 DEF TypeOK, HasSlot
    <3>3. TypeOK'
      BY <1>1, <1>2, <3>1, <3>2 DEF TypeOK
    <3>4. Good(cursor + 1) = Good(cursor)
      BY <1>1, <3>1, GoodNext
    <3>5. RowsListed(cursor + 1, types)
      BY <1>1, <3>4, Properties DEF RowsListed
    <3> QED BY <1>1, <3>1, <3>3, <3>5
  <2>2. CASE EndTypes
    <3>1. cursor' = cursor /\ cursor = Len(image.slots) /\ phase' = "done"
      BY <2>2 DEF EndTypes
    <3>2. TypeOK'
      BY <1>1, <1>2, <3>1 DEF TypeOK
    <3> QED BY <1>1, <3>1, <3>2, Properties
  <2> QED BY <2>1, <2>2
<1>4. EveryTypeListed'
  BY <1>1, <1>3, Properties, PropertiesNext
<1>5. Shallow' => ChainInv' /\ QualifiedByAncestors'
  BY <1>1, ImageFrame, Properties, PropertiesNext DEF ContextsInv, ChainInv
<1> QED BY <1>3, <1>4, <1>5 DEF ContextsInv

LEMMA TakeStep == ContextsInv /\ TakeRow => ContextsInv'
<1> SUFFICES ASSUME ContextsInv, TakeRow PROVE ContextsInv'
  OBVIOUS
<1>1. /\ TypeOK /\ EveryTypeListed /\ phase = "types" /\ HasSlot /\ IsType
      /\ UNCHANGED <<image, qualified>>
      /\ next' = ParentOf(Pointee) /\ hops' = <<>> /\ cursor' = cursor + 1
      /\ phase' = "parents"
  BY DEF ContextsInv, TakeRow, HasSlot
<1>2. /\ cursor \in Nat /\ Pointee \in DOMAIN image.contexts
      /\ (Pointee - Slot.va - Slot.rel) % Limit = 0
      /\ Slot = image.slots[cursor + 1]
      /\ Good(cursor + 1) = Good(cursor) \cup {cursor + 1}
  BY <1>1, GoodNext
<1>3. PICK a \in DOMAIN image.contexts : a = Pointee
  BY <1>2
<1>4. /\ IsImage(image) /\ types \in Seq(Type) /\ qualified \in Seq(Seq(Names))
      /\ ParentOf(a) \in 0 .. (Limit - 1) /\ TypeName(a) \in Names
      /\ Len(image.slots) \in Nat /\ cursor < Len(image.slots)
  BY <1>1, <1>3, ParentType, NameTypes, ImageFacts DEF TypeOK, IsType, HasSlot
<1>5. PICK row \in Type : /\ row = [address |-> a, parent |-> ParentOf(a), name |-> TypeName(a)]
                          /\ row.address = a /\ row.name = TypeName(a)
  <2>1. [address |-> a, parent |-> ParentOf(a), name |-> TypeName(a)] \in Type
    BY <1>4 DEF Type
  <2> QED BY <2>1
<1>6. types' = Append(types, row)
  BY <1>3, <1>5 DEF TakeRow
<1>7. /\ types' \in Seq(Type) /\ Len(types') = Len(types) + 1 /\ Len(types) \in Nat
      /\ \A i \in 1 .. Len(types) : types'[i] = types[i]
      /\ types'[Len(types')] = row
  BY <1>4, <1>6
<1>8. TypeOK'
  <2>1. IsImage(image)' /\ Type' = Type
    BY <1>1, <1>4, ImageFrame
  <2>2. types' # <<>>
    BY <1>7
  <2>3. cursor + 1 \in 0 .. Len(image.slots)
    BY <1>2, <1>4
  <2> QED BY <1>1, <1>3, <1>4, <1>7, <2>1, <2>2, <2>3 DEF TypeOK
<1>9. EveryTypeListed'
  <2>1. RowsListed(cursor, types) /\ Len(qualified) = Len(types)
    BY <1>1, <1>7, Properties
  <2>2. (row.address - image.slots[cursor + 1].va - image.slots[cursor + 1].rel) % Limit = 0
    BY <1>2, <1>3, <1>5
  <2>3. RowsListed(cursor + 1, Append(types, row))
    BY <1>2, <1>4, <2>1, <2>2, RowsMore
  <2> QED BY <1>1, <1>6, <1>7, <2>1, <2>3, PropertiesNext
<1>10. ChainInv'
  <2>1. types'[Len(types')].address = a
    BY <1>5, <1>7
  <2>2. CASE PathsFrom(a) = {}
    <3>1. Lost'
      BY <1>1, <1>3, <2>2, ImageFrame DEF Lost
    <3> QED BY <3>1 DEF ChainInv
  <2>3. CASE PathsFrom(a) # {}
    <3>1. PICK path \in PathsFrom(a) : TRUE
      BY <2>3
    <3>2. Len(path) \in Nat /\ 0 \in 0 .. Len(path) /\ path \in PathsFrom(a)'
      BY <1>1, PathFacts, ContextAssumption, ImageFrame
    <3>3. Below(a, path, 0 + 1) = a
      BY DEF Below
    <3>4. Spelt(path, 0, hops)'
      <4>1. Spelt(path, 0, hops')
        BY <1>1, SpeltNone
      <4> QED BY <1>1, <4>1, ImageFrame
    <3>5. next' = ParentOf(a)' /\ Len(hops') <= 0
      BY <1>1, <1>3, ImageFrame
    <3>6. OnPath(a, path, 0)'
      BY <3>3, <3>4, <3>5 DEF OnPath, Below
    <3> QED BY <2>1, <3>2, <3>6 DEF ChainInv
  <2> QED BY <2>2, <2>3
<1>11. QualifiedByAncestors \/ ~Shallow
  BY DEF ContextsInv
<1>12. Shallow => QualifiedByAncestors'
  <2>1. \A i \in DOMAIN qualified : i \in 1 .. Len(types)
    BY <1>1, <1>4, <1>7, Properties, SeqFacts
  <2> QED BY <1>1, <1>7, <1>11, <2>1, Properties, PropertiesNext
<1> QED BY <1>1, <1>8, <1>9, <1>10, <1>12, ImageFrame DEF ContextsInv

(* The walk and the way up go the same way. *)
LEMMA BelowType ==
  ASSUME NEW va \in DOMAIN image.contexts, NEW path \in PathsFrom(va),
         NEW j \in 0 .. Len(path)
  PROVE  Below(va, path, j + 1) \in DOMAIN image.contexts
<1>1. /\ Len(path) \in Nat /\ j \in Nat
      /\ path \in [1 .. Len(path) -> DOMAIN image.contexts]
  BY PathFacts, ContextAssumption
<1>2. j + 1 # 1 => j \in 1 .. Len(path)
  BY <1>1
<1> QED BY <1>1, <1>2 DEF Below

LEMMA TypeAt ==
  ASSUME TypeOK, phase = "parents"
  PROVE  /\ types[Len(types)] \in Type /\ Len(types) \in Nat \ {0}
         /\ types[Len(types)].address \in DOMAIN image.contexts
<1>1. types \in Seq(Type) /\ types # <<>>
  BY DEF TypeOK
<1>2. Len(types) \in Nat \ {0}
  BY <1>1
<1>3. types[Len(types)] \in Type
  BY <1>1, <1>2, SeqFacts
<1> QED BY <1>2, <1>3 DEF Type

LEMMA HopStep == ContextsInv /\ Hop => ContextsInv'
<1> SUFFICES ASSUME ContextsInv, Hop PROVE ContextsInv'
  OBVIOUS
<1>1. /\ TypeOK /\ EveryTypeListed /\ IsImage(image)
      /\ phase = "parents" /\ next # 0 /\ Readable(next, 8)
      /\ hops' = Push /\ next' = ParentOf(next)
      /\ UNCHANGED <<image, phase, cursor, types, qualified>>
  BY DEF ContextsInv, Hop, InChain, TypeOK
<1>2. PICK c \in DOMAIN image.contexts : c = next
  BY <1>1, ImageFacts DEF Readable
<1>3. /\ ParentOf(c) \in 0 .. (Limit - 1)
      /\ ContextName(c) \in Names \cup {None}
      /\ hops \in Seq(Names) /\ Len(hops) \in Nat
  BY <1>1, ParentType, NameTypes DEF TypeOK
<1>4. PICK name \in Names \cup {None} : name = ContextName(c)
  BY <1>3
<1>5. /\ hops' \in Seq(Names) /\ Len(hops') <= Len(hops) + 1
      /\ Len(hops) < MaxHops =>
           hops' = IF name # None THEN Append(hops, name) ELSE hops
  BY <1>1, <1>2, <1>3, <1>4 DEF Push
<1>6. TypeOK'
  BY <1>1, <1>2, <1>3, <1>5, ImageFrame DEF TypeOK
<1>7. EveryTypeListed'
  BY <1>1, Properties, PropertiesNext
<1>8. ASSUME Shallow
      PROVE  ChainInv' /\ QualifiedByAncestors'
  <2>1. ChainInv /\ QualifiedByAncestors
    BY <1>8 DEF ContextsInv
  <2>2. QualifiedByAncestors'
    BY <1>1, <2>1, Properties, PropertiesNext
  <2>3. PICK a \in DOMAIN image.contexts : a = types[Len(types)].address
    BY <1>1, TypeAt
  <2>4. CASE \E path \in PathsFrom(a) : \E j \in 0 .. Len(path) : OnPath(a, path, j)
    <3>1. PICK path \in PathsFrom(a) : \E j \in 0 .. Len(path) : OnPath(a, path, j)
      BY <2>4
    <3>2. PICK n \in Nat : n = Len(path) /\ n <= MaxHops
      BY PathFacts, ContextAssumption
    <3>3. PICK j \in 0 .. n : OnPath(a, path, j)
      BY <3>1, <3>2
    <3>4. PICK b \in DOMAIN image.contexts : b = Below(a, path, j + 1)
      BY <3>2, BelowType
    <3>5. next = ParentOf(b) /\ Len(hops) <= j /\ Spelt(path, j, hops)
      BY <3>3, <3>4 DEF OnPath
    <3>6. Up(b) = {c}
      BY <1>1, <1>2, <3>5, UpIsParent
    <3>7. j < n
      <4>1. Up(Below(a, path, n + 1)) = {}
        BY <3>2, PathFacts
      <4> QED BY <3>4, <3>6, <4>1
    <3>8. j + 1 \in 1 .. n /\ j + 1 \in 0 .. n /\ path[j + 1] = c
      <4>1. j + 1 \in 1 .. n /\ j + 1 \in 0 .. n
        BY <3>7
      <4>2. path[j + 1] \in Up(Below(a, path, j + 1))
        BY <3>2, <4>1, PathFacts
      <4> QED BY <3>4, <3>6, <4>1, <4>2
    <3>9. hops' = (IF name # None THEN Append(hops, name) ELSE hops) /\ Len(hops') <= j + 1
      <4>1. Len(hops) < MaxHops
        BY <1>3, <3>2, <3>5, <3>7, ContextAssumption
      <4>2. Len(hops') \in Nat
        BY <1>5
      <4> QED BY <1>3, <1>5, <3>5, <4>1, <4>2
    <3>10. Spelt(path, j + 1, hops')
      BY <1>3, <1>4, <3>5, <3>8, <3>9, SpeltMore
    <3>11. Below(a, path, (j + 1) + 1) = c
      <4>1. (j + 1) + 1 # 1 /\ ((j + 1) + 1) - 1 = j + 1
        OBVIOUS
      <4> QED BY <3>8, <4>1 DEF Below
    <3>12. OnPath(a, path, j + 1)'
      <4>1. next' = ParentOf(c)'
        BY <1>1, <1>2, ImageFrame
      <4>2. Spelt(path, j + 1, hops)'
        BY <1>1, <3>10, ImageFrame
      <4> QED BY <3>9, <3>11, <4>1, <4>2 DEF OnPath, Below
    <3>13. path \in PathsFrom(a)' /\ j + 1 \in 0 .. Len(path)
      BY <1>1, <3>2, <3>8, ImageFrame
    <3> QED BY <1>1, <2>2, <2>3, <3>12, <3>13 DEF ChainInv
  <2>5. CASE Lost
    <3>1. PICK b \in DOMAIN image.contexts : PathsFrom(b) = {} /\ next = ParentOf(b)
      BY <2>5 DEF Lost
    <3>2. Up(b) = {c}
      BY <1>1, <1>2, <3>1, UpIsParent
    <3>3. PathsFrom(c) = {}
      BY <1>1, <1>8, <3>1, <3>2, NoWay
    <3>4. Lost'
      BY <1>1, <1>2, <3>3, ImageFrame DEF Lost
    <3> QED BY <2>2, <3>4 DEF ChainInv
  <2> QED BY <1>1, <2>1, <2>3, <2>4, <2>5 DEF ChainInv
<1> QED BY <1>1, <1>6, <1>7, <1>8, ImageFrame DEF ContextsInv

(* The walk is over just where the way up is. *)
LEMMA EndStep == ContextsInv /\ EndChain => ContextsInv'
<1> SUFFICES ASSUME ContextsInv, EndChain PROVE ContextsInv'
  OBVIOUS
<1>1. /\ TypeOK /\ EveryTypeListed /\ IsImage(image)
      /\ phase = "parents" /\ phase' = "types"
      /\ ~(next # 0 /\ Readable(next, 8))
      /\ qualified' = Append(qualified, Qualify)
      /\ UNCHANGED <<image, cursor, types, next, hops>>
  BY DEF ContextsInv, EndChain, InChain, TypeOK
<1>2. PICK type \in Type, m \in Nat \ {0} :
        /\ m = Len(types) /\ type = types[m]
        /\ type.address \in DOMAIN image.contexts /\ type.name \in Names
  <2>1. types[Len(types)].name \in Names
    BY <1>1, TypeAt DEF Type
  <2> QED BY <1>1, <2>1, TypeAt
<1>3. /\ hops \in Seq(Names) /\ qualified \in Seq(Seq(Names))
      /\ types \in Seq(Type) /\ Len(qualified) = m - 1
  BY <1>1, <1>2, Properties DEF TypeOK
<1>4. PICK h \in Nat : h = Len(hops)
  BY <1>3
<1>5. PICK full \in Seq(Names) :
        /\ full = Qualify /\ Len(full) = h + 1 /\ full[h + 1] = type.name
        /\ \A k \in 1 .. h : full[h + 1 - k] = hops[k]
  <2> DEFINE back == [k \in 1 .. h |-> hops[h + 1 - k]]
  <2>1. \A k \in 1 .. h : h + 1 - k \in 1 .. h /\ hops[k] \in Names
    BY <1>3, <1>4, SeqFacts
  <2>2. back \in Seq(Names) /\ Len(back) = h
    BY <2>1
  <2>3. \A k \in 1 .. h : back[h + 1 - k] = hops[k]
    <3>1. \A k \in 1 .. h : h + 1 - (h + 1 - k) = k
      OBVIOUS
    <3> QED BY <2>1, <3>1
  <2>4. Qualify = Append(back, type.name)
    BY <1>2, <1>4 DEF Qualify
  <2> HIDE DEF back
  <2>5. /\ Append(back, type.name) \in Seq(Names) /\ Len(Append(back, type.name)) = h + 1
        /\ Append(back, type.name)[h + 1] = type.name
        /\ \A k \in 1 .. h : Append(back, type.name)[k] = back[k]
    BY <1>2, <2>2
  <2> QED BY <2>1, <2>3, <2>4, <2>5
<1>6. /\ qualified' \in Seq(Seq(Names)) /\ DOMAIN qualified' = 1 .. m
      /\ Len(qualified') = m /\ DOMAIN qualified = 1 .. (m - 1)
      /\ \A i \in 1 .. (m - 1) : qualified'[i] = qualified[i]
      /\ qualified'[m] = full
  BY <1>1, <1>3, <1>5
<1>7. TypeOK'
  BY <1>1, <1>6, ImageFrame DEF TypeOK
<1>8. EveryTypeListed'
  BY <1>1, <1>2, <1>6, Properties, PropertiesNext
<1>9. ChainInv'
  BY <1>1 DEF ChainInv
<1>10. ASSUME Shallow
       PROVE  QualifiedByAncestors'
  <2>1. ChainInv /\ QualifiedByAncestors
    BY <1>10 DEF ContextsInv
  <2> DEFINE a == type.address
  <2>2. ~Lost
    <3>1. SUFFICES ASSUME NEW b \in DOMAIN image.contexts, PathsFrom(b) = {},
                          next = ParentOf(b)
                   PROVE  FALSE
      BY DEF Lost
    <3>2. Up(b) = {}
      BY <1>1, <3>1, UpIsParent
    <3> QED BY <1>1, <1>10, <3>1, <3>2, NoWay
  <2>3. PICK path \in PathsFrom(a) : \E j \in 0 .. Len(path) : OnPath(a, path, j)
    BY <1>1, <1>2, <2>1, <2>2 DEF ChainInv
  <2>4. PICK n \in Nat : n = Len(path)
    BY PathFacts, ContextAssumption
  <2>5. PICK j \in 0 .. n : OnPath(a, path, j)
    BY <2>3, <2>4
  <2>6. PICK b \in DOMAIN image.contexts : b = Below(a, path, j + 1)
    BY <1>2, <2>4, BelowType
  <2>7. Up(b) = {}
    BY <1>1, <2>5, <2>6, UpIsParent DEF OnPath
  <2>8. j = n
    <3>1. SUFFICES ASSUME j # n PROVE FALSE
      OBVIOUS
    <3>2. j + 1 \in 1 .. n
      BY <3>1
    <3>3. path[j + 1] \in Up(Below(a, path, j + 1))
      BY <2>4, <3>2, PathFacts
    <3> QED BY <2>6, <2>7, <3>3
  <2>9. PICK at \in Listings(NamedOf(path, Len(path)), h) :
          \A k \in 1 .. h : hops[k] = ContextName(path[at[k]])
    BY <1>4, <2>4, <2>5, <2>8 DEF OnPath, Spelt
  <2>10. NamedRight(full, type)
    <3>1. Len(full) - 1 = h
      BY <1>5
    <3>2. \A k \in 1 .. h : full[h + 1 - k] = ContextName(path[at[k]])
      BY <1>5, <2>9
    <3> QED BY <1>5, <2>9, <3>1, <3>2 DEF NamedRight
  <2>11. \A i \in 1 .. (m - 1) : NamedRight(qualified[i], types[i])
    BY <1>6, <2>1, Properties
  <2>12. \A i \in 1 .. m : NamedRight(qualified'[i], types'[i])
    <3>1. \A i \in 1 .. m : i \in 1 .. (m - 1) \/ i = m
      OBVIOUS
    <3> QED BY <1>1, <1>2, <1>6, <2>10, <2>11, <3>1
  <2> QED BY <1>1, <1>6, <2>12, PropertiesNext
<1> QED BY <1>1, <1>7, <1>8, <1>9, <1>10, ImageFrame DEF ContextsInv

LEMMA IdleStep == ContextsInv /\ UNCHANGED vars => ContextsInv'
<1> SUFFICES ASSUME ContextsInv, UNCHANGED vars PROVE ContextsInv'
  OBVIOUS
<1>1. UNCHANGED <<image, phase, cursor, types, next, hops, qualified>>
  BY DEF vars
<1>2. TypeOK' /\ EveryTypeListed'
  BY <1>1, ImageFrame, Properties, PropertiesNext DEF ContextsInv, TypeOK
<1>3. ASSUME Shallow
      PROVE  ChainInv' /\ QualifiedByAncestors'
  <2>1. ChainInv /\ QualifiedByAncestors
    BY <1>3 DEF ContextsInv
  <2>2. QualifiedByAncestors'
    BY <1>1, <2>1, Properties, PropertiesNext
  <2>3. Lost' <=> Lost
    BY <1>1, ImageFrame DEF Lost
  <2>4. \A va, path, j : OnPath(va, path, j)' <=> OnPath(va, path, j)
    <3>1. \A va, path, j : Spelt(path, j, hops)' <=> Spelt(path, j, hops)
      BY <1>1, ImageFrame
    <3>2. \A x : ParentOf(x)' = ParentOf(x)
      BY <1>1, ImageFrame
    <3> QED BY <1>1, <3>1, <3>2 DEF OnPath, Below
  <2>5. ChainInv'
    BY <1>1, <2>1, <2>3, <2>4, ImageFrame DEF ChainInv
  <2> QED BY <2>2, <2>5
<1> QED BY <1>1, <1>2, <1>3, ImageFrame DEF ContextsInv

LEMMA ContextsCorrect == Spec => []ContextsInv
<1>1. ContextsInv /\ [Next]_vars => ContextsInv'
  BY SkipStep, TakeStep, HopStep, EndStep, IdleStep DEF Next, Work, Returned
<1> QED BY InitInv, <1>1, PTL DEF Spec
-----------------------------------------------------------------------------
(* Cursor, rows and the names that are built stay well typed; an address   *)
(* that a relative pointer leads to never leaves u64.                      *)
THEOREM TypeCorrect == Spec => []TypeOK
<1>1. ContextsInv => TypeOK
  BY DEF ContextsInv
<1> QED BY <1>1, ContextsCorrect, PTL

(* The table of types loses no readable, named descriptor, whatever rows   *)
(* stand around it, and yields nothing else.                               *)
THEOREM EveryType == Spec => []EveryTypeListed
<1>1. ContextsInv => EveryTypeListed
  BY DEF ContextsInv
<1> QED BY <1>1, ContextsCorrect, PTL

(* Each qualified name spells the way up from its type, also in an image   *)
(* whose parent relation has cycles somewhere.  Shallow only says that     *)
(* MaxHops, which the code does not have, is beyond every way up.          *)
THEOREM NamesSpellAncestors == Spec => [](Shallow => QualifiedByAncestors)
<1>1. ContextsInv => (Shallow => QualifiedByAncestors)
  BY DEF ContextsInv
<1> QED BY <1>1, ContextsCorrect, PTL
=============================================================================
