--------------------------- MODULE MCObjcMembers ---------------------------
(***************************************************************************)
(* Small images, in bytes; texts are at 100 .. 139 (file 0 .. 39), data is *)
(* at 200 .. 751 (file 40 .. 591).  The records:                           *)
(*   200 protocol P   296 category A   344/352 category B                  *)
(*   408 catlist (2)  424 nlcatlist (2)  440 protocol list (2)             *)
(*   464 method list  496 property list  520 protolist (2)                 *)
(*   536 ro C         608 ro M           680 protocol Q, cut off by the end*)
(***************************************************************************)
EXTENDS MemberProperties, SequencesExt, TLC

Segments == <<[vmaddr |-> 0, vmsize |-> 64, fileoff |-> 0, filesize |-> 0],
              [vmaddr |-> 100, vmsize |-> 40, fileoff |-> 0, filesize |-> 40],
              [vmaddr |-> 200, vmsize |-> 600, fileoff |-> 40, filesize |-> 552]>>

FileSize == 592

(* Four texts. *)
T == <<100, 104, 108, 116>>

TextOf(k) == <<T[k] - 100, k>>

Formats == {"chained", "plain", "signed"}

Raw(format, target) ==
  CASE format = "chained" -> PacUnit + 7 [] format = "plain" -> target
    [] format = "signed" -> 3 * PacUnit + target

Empty == [va \in {} |-> 0]

(* An image from the halves and the pointers at some addresses. *)
ImageOf(numbers, pointers, format, rest) ==
  LET raw == [va \in DOMAIN pointers |-> Raw(format, pointers[va])]
      half == [va \in DOMAIN pointers |-> raw[va] % HalfUnit]
                @@ [va \in {p + 4 : p \in DOMAIN pointers} |-> raw[va - 4] \div HalfUnit]
                @@ numbers
      halfAt(va) == IF va \in DOMAIN half THEN half[va] ELSE 0
      starts == DOMAIN half \cup {va - 4 : va \in DOMAIN half}
      slots == SelectSeq([k \in 1..138 |-> 196 + 4 * k], LAMBDA va : va \in DOMAIN pointers)
      odd == SelectSeq([k \in 1..138 |-> 197 + 4 * k], LAMBDA va : va \in DOMAIN pointers)
  IN  rest @@
      [segments |-> Segments, size |-> FileSize,
       text |-> [o \in {TextOf(k)[1] : k \in 1..4} |-> CHOOSE k \in 1..4 : TextOf(k)[1] = o],
       words |-> [o \in {va - 160 : va \in starts} |->
                    halfAt(o + 160) + HalfUnit * halfAt(o + 164)],
       rebases |-> IF format = "chained"
                   THEN [k \in DOMAIN (slots \o odd) |->
                           LET va == (slots \o odd)[k] IN [va |-> va, target |-> pointers[va]]]
                   ELSE <<>>]

Rest == [classes |-> <<>>, catlist |-> None, nlcatlist |-> None, protolist |-> None,
         binds |-> Empty, classNames |-> Empty, flags |-> 0, written |-> Empty,
         hosts |-> Empty, protocols |-> <<>>]

Class(address, ro, meta) == [address |-> address, ro |-> ro, meta |-> meta]

RoC == 536      RoM == 608      Cell(k) == 640 + 8 * k

(* ---- the members of a class ------------------------------------------- *)
Least(kind) == CASE kind = "legacy" -> 24 [] kind \in {"direct", "indirect"} -> 12
                 [] kind = "ivars" -> 32 [] kind = "properties" -> 16

HeadFlags(kind) == CASE kind = "direct" -> SmallFlag + DirectFlag
                     [] kind = "indirect" -> SmallFlag
                     [] kind = "legacy" -> DirectFlag
                     [] kind \in {"ivars", "properties"} -> 0

(* Rows: a name, a second text and a number; a row without name is bad. *)
Rows == {<<T[1], T[2], 460>>, <<T[3], 0, 0>>, <<0, T[2], 460>>, <<50, T[1], 461>>}

WrittenText(va) == IF \E k \in 1..4 : T[k] = va
                   THEN TextOf(CHOOSE k \in 1..4 : T[k] = va) ELSE <<>>

Offset(slot, target) == (target - slot) % HalfUnit

(* The halves and the pointers of one row at an address. *)
HalvesOf(kind, k, va, r) ==
  CASE kind = "direct" ->
         va :> Offset(va, r[1]) @@ va + 4 :> Offset(va + 4, r[2])
           @@ va + 8 :> (IF r[3] = 0 THEN 0 ELSE Offset(va + 8, r[3] - 461))
    [] kind = "indirect" ->
         va :> Offset(va, Cell(k)) @@ va + 4 :> Offset(va + 4, r[2])
           @@ va + 8 :> (IF r[3] = 0 THEN 0 ELSE Offset(va + 8, r[3]))
    [] kind = "ivars" ->
         va + 24 :> (IF r[3] = 0 THEN HalfUnit - 1 ELSE 260) @@ va + 28 :> 8
           @@ Cell(k) :> 16
    [] kind \in {"legacy", "properties"} -> Empty

PointersOf(kind, k, va, r) ==
  CASE kind = "direct" -> Empty
    [] kind = "indirect" -> Cell(k) :> r[1]
    [] kind = "legacy" -> va :> r[1] @@ va + 8 :> r[2] @@ va + 16 :> r[3]
    [] kind = "properties" -> va :> r[1] @@ va + 8 :> r[2]
    [] kind = "ivars" -> va :> (IF r[3] = 0 THEN 50 ELSE Cell(k)) @@ va + 8 :> r[1]
                           @@ va + 16 :> r[2]

WrittenMember(kind, r) ==
  LET name == WrittenText(r[1])   second == WrittenText(r[2])
  IN  CASE kind \in {"legacy", "indirect"} ->
             [kind |-> kind, name |-> name, types |-> second,
              imp |-> IF r[3] = 0 THEN None ELSE r[3]]
        [] kind = "direct" ->
             [kind |-> kind, name |-> name, types |-> second,
              imp |-> IF r[3] = 0 THEN None ELSE (r[3] - 461) % PacUnit]
        [] kind = "properties" -> [kind |-> kind, name |-> name, attributes |-> second]
        [] kind = "ivars" ->
             [kind |-> kind, name |-> name, types |-> second,
              offset |-> IF r[3] = 0 THEN None ELSE 16, size |-> 8,
              alignment |-> IF r[3] = 0 THEN WordShift ELSE 4]

WrittenRows(kind, rows) ==
  LET good == SelectSeq(rows, LAMBDA r : r[1] \in {T[1], T[3]})
  IN  [k \in DOMAIN good |-> WrittenMember(kind, good[k])]

FieldOf(kind) == IF kind \in {"ivars", "properties"} THEN kind ELSE "methods"

SlotOf(field) == CASE field = "methods" -> 32 [] field = "ivars" -> 48 [] field = "properties" -> 64

(* A list of two rows, and a third one that is all zero; its address may   *)
(* be odd and its entries larger, or smaller, than they should be.         *)
ListImage(kind, list, extra, low, rows, format) ==
  LET field == FieldOf(kind)
      size == Least(kind) + extra
      place(k) == list + 8 + (k - 1) * size
      read == extra >= 0 /\ (list % 2 = 0 \/ kind = "ivars")
  IN  ImageOf(list :> (size + HeadFlags(kind) + (IF field = "methods" THEN low ELSE 0))
                @@ list + 4 :> 3
                @@ HalvesOf(kind, 1, place(1), rows[1]) @@ HalvesOf(kind, 2, place(2), rows[2]),
              PointersOf(kind, 1, place(1), rows[1]) @@ PointersOf(kind, 2, place(2), rows[2])
                @@ RoC + 24 :> T[4] @@ RoC + SlotOf(field) :> list,
              format,
              [classes |-> <<Class(900, RoC, FALSE)>>,
               written |-> (900 :> [f \in {"methods", "ivars", "properties", "protocols"} |->
                              IF f = field /\ read THEN WrittenRows(kind, rows) ELSE <<>>])]
                @@ Rest)

Kinds == {"legacy", "direct", "indirect", "ivars", "properties"}

ListImages ==
  {ListImage(kind, 272, 8 * low, low, rows, format) :
     kind \in Kinds, low \in {0, 1}, rows \in [1..2 -> Rows], format \in Formats}
  \cup {ListImage(kind, list, extra, 0, <<<<T[1], T[2], 460>>, <<T[3], 0, 0>>>>, "plain") :
          kind \in Kinds, list \in {272, 273}, extra \in {0, -4}}

(* ---- protocols, categories, conformances ------------------------------- *)
P == 200    A == 296    Names == 440    Methods == 464    Props == 496    Q == 680

(* What a slot of a protocol list can be. *)
Slot == {"P", "Q", "bound", "empty"}

SlotTarget(s) == CASE s = "P" -> P [] s = "Q" -> Q [] s \in {"bound", "empty"} -> 0

(* Q has a last field, which is beyond the file, only if it is large. *)
WrittenNames(slots, sizeQ) ==
  LET known == SelectSeq(slots, LAMBDA s : s \in {"P", "bound"} \/ (s = "Q" /\ sizeQ < 96))
  IN  [k \in DOMAIN known |->
         CASE known[k] = "P" -> TextOf(1) [] known[k] = "Q" -> TextOf(2)
           [] known[k] = "bound" -> <<"NSCoding">>]

TheMethod == [kind |-> "legacy", name |-> TextOf(3), types |-> <<>>, imp |-> 460]

TheProperty == [kind |-> "properties", name |-> TextOf(4), attributes |-> TextOf(1)]

Section(address, size) == [address |-> address, size |-> size]

(* A category is for a class of the image, for a bound one, or for none;   *)
(* the field behind a category or a protocol is filled, its own or not.    *)
RecordImage(slots, sizeP, sizeQ, host, flags, cats, format) ==
  LET B == A + (IF flags = 0 THEN 48 ELSE 56)
      own(size) == IF size < 96 THEN Empty ELSE ("class properties" :> <<TheProperty>>)
      names == WrittenNames(slots, sizeQ)
      none == [f \in {"class", "optional instance", "optional class"} |-> <<>>]
      common == ("instance" :> <<TheMethod>>) @@ ("class" :> <<>>) @@ ("protocols" :> names)
                  @@ ("properties" :> <<TheProperty>>)
      cat(c) == CASE c = "A" -> A [] c = "B" -> B [] c = "far" -> 740 [] c = "null" -> 0
      bound(va, is) == IF is THEN va :> <<"_OBJC_PROTOCOL_$_", "NSCoding">> ELSE Empty
      hostSlot(va) == CASE host = "local" -> va + 8 :> 920
                        [] host \in {"bound", "none"} -> Empty
  IN  ImageOf(P + 64 :> sizeP @@ Q + 64 :> sizeQ
                @@ Names :> 2 @@ Names + 4 :> 0
                @@ Methods :> 24 @@ Methods + 4 :> 1 @@ Props :> 16 @@ Props + 4 :> 1
                @@ (IF host = "bound" THEN A + 8 :> 1 @@ A + 12 :> 4 ELSE Empty),
              hostSlot(A) @@ hostSlot(B)
                @@ P + 8 :> T[1] @@ P + 16 :> Names @@ P + 24 :> Methods @@ P + 56 :> Props
                @@ P + 88 :> Props @@ Q + 8 :> T[2]
                @@ A :> T[3] @@ A + 16 :> Methods @@ A + 32 :> Names @@ A + 40 :> Props
                @@ (IF flags = 0 THEN Empty ELSE A + 48 :> Props @@ B + 48 :> Props)
                @@ B :> T[4] @@ B + 16 :> Methods @@ B + 32 :> Names @@ B + 40 :> Props
                @@ 408 :> cat(cats[1]) @@ 416 :> cat(cats[2])
                @@ 424 :> cat(cats[3]) @@ 432 :> cat(cats[4])
                @@ Names + 8 :> SlotTarget(slots[1]) @@ Names + 16 :> SlotTarget(slots[2])
                @@ Methods + 8 :> T[3] @@ Methods + 24 :> 460
                @@ Props + 8 :> T[4] @@ Props + 16 :> T[1]
                @@ 520 :> P @@ 528 :> Q
                @@ RoC + 24 :> T[1] @@ RoC + 40 :> Names
                @@ RoM + 24 :> T[1] @@ RoM + 40 :> Names,
              format,
              [classes |-> <<Class(900, RoC, FALSE), Class(910, None, FALSE), Class(930, RoM, TRUE)>>,
               catlist |-> Section(408, 17), nlcatlist |-> Section(424, 16),
               protolist |-> Section(520, 16), flags |-> flags,
               classNames |-> (920 :> TextOf(2)),
               binds |-> bound(Names + 8, slots[1] = "bound") @@ bound(Names + 16, slots[2] = "bound")
                           @@ (IF host = "bound"
                               THEN A + 8 :> <<"_OBJC_CLASS_$_", "NSObject">>
                                      @@ B + 8 :> <<"_swiftClass">>
                               ELSE Empty),
               hosts |-> CASE host = "local" -> (A :> TextOf(2) @@ B :> TextOf(2))
                           [] host = "bound" -> (A :> <<"NSObject">> @@ B :> <<"_swiftClass">>)
                           [] host = "none" -> (A :> None @@ B :> None),
               protocols |-> IF sizeQ < 96 THEN <<P, Q>> ELSE <<P>>,
               written |->
                 (P :> (own(sizeP) @@ none @@ common)
                    @@ A :> (own(IF flags = 0 THEN 0 ELSE 96) @@ common)
                    @@ B :> (own(IF flags = 0 THEN 0 ELSE 96) @@ common)
                    @@ 900 :> [f \in {"methods", "ivars", "properties", "protocols"} |->
                                 IF f = "protocols" THEN names ELSE <<>>]
                    @@ 930 :> [f \in {"methods", "ivars", "properties", "protocols"} |->
                                 IF f = "protocols" THEN names ELSE <<>>])]
                @@ Rest)

SomeCats == <<"A", "B", "null", "A">>

RecordImages ==
  {RecordImage(slots, sizeP, sizeQ, "bound", ClassProps, SomeCats, "chained") :
     slots \in [1..2 -> Slot], sizeP \in {95, 96}, sizeQ \in {95, 96}}
  \cup
  {RecordImage(<<"P", "bound">>, 72, 72, host, flags, SomeCats, format) :
     host \in {"local", "bound", "none"}, flags \in {0, ClassProps}, format \in Formats}
  \cup
  {RecordImage(<<"Q", "P">>, 96, 72, "local", 0, <<a, b, c, "A">>, "plain") :
     a, b, c \in {"A", "B", "far", "null"}}

MembersImages == ListImages \cup RecordImages

(* ---- attribute strings ------------------------------------------------- *)
Values == {<<>>, <<"T">>, <<"quote", "comma", "quote">>,
           <<"x", "quote", "comma", "R", "quote", "x">>}

ItemLists == UNION {[1..n -> [key : {"T", "R"}, value : Values]] : n \in 0..3}

TextFor(list) ==
  FlattenSeq([k \in DOMAIN list |->
    (IF k = 1 THEN <<>> ELSE <<"comma">>) \o <<list[k].key>> \o list[k].value])

WrittenStrings == {[bytes |-> TextFor(list), items |-> list] : list \in ItemLists}

(* Every string of up to five bytes; a byte that goes on stands behind one *)
(* that begins.                                                            *)
AnyStrings ==
  {[bytes |-> s, items |-> None] :
     s \in {s \in UNION {[1..n -> {"T", "x", "comma", "quote", "cont"}] : n \in 0..5} :
              \A k \in DOMAIN s : s[k] = "cont" => k > 1 /\ s[k - 1] = "x"}}

AllStrings == WrittenStrings \cup AnyStrings
=============================================================================
