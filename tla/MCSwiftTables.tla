--------------------------- MODULE MCSwiftTables ---------------------------
(***************************************************************************)
(* Small images: texts at 100 .. 139 (file 0 .. 39), data from 160 on      *)
(* (file 40 on): metadata at 160, tables and records at 200, descriptors   *)
(* at 216.  An object is written as a sequence of 32-bit cells: a number,  *)
(* or the address an offset leads to.                                      *)
(***************************************************************************)
EXTENDS SwiftTableProperties, SequencesExt, TLC

Segments == <<[vmaddr |-> 100, vmsize |-> 40, fileoff |-> 0, filesize |-> 40],
              [vmaddr |-> 160, vmsize |-> 840, fileoff |-> 40, filesize |-> 840]>>

T == <<100, 104, 108, 112>>

TextOf(k) == <<T[k] - 100, k>>

Pool == 1200

num(n) == [is |-> "number", of |-> n]
to(va) == [is |-> "offset", of |-> va]

null == num(0)

Empty == [va \in {} |-> 0]

Contents(cell, slot) ==
  IF cell.is = "number" THEN cell.of ELSE (cell.of - slot) % HalfUnit

(* What the field of a word, or of an offset, is read as. *)
Values(cells) == [k \in DOMAIN cells |-> cells[k].of]

Words(va, cells) ==
  [o \in {va - 120 + 4 * (k - 1) : k \in DOMAIN cells} |->
     Contents(cells[((o + 120 - va) \div 4) + 1], o + 120)]

NoSections == [types |-> None, protos |-> None, proto |-> None, fieldmd |-> None,
               capture |-> None, replac |-> None, reflstr |-> None]

Section_(va, size) == [address |-> va, size |-> size, offset |-> va - 120]

ImageOf(words, bits, sections, end, rest) ==
  rest @@ [segments |-> Segments, size |-> end - 120, end |-> end, words |-> words,
           bits |-> bits, rebases |-> <<>>, is64 |-> TRUE,
           text |-> [o \in {TextOf(k)[1] : k \in 1..4} |-> CHOOSE k \in 1..4 : TextOf(k)[1] = o],
           sections |-> sections @@ NoSections, rows |-> <<>>, written |-> Empty]

(* ---- types ------------------------------------------------------------- *)
Times(n, cells) == [k \in 1..n |-> cells]

(* A block as it is written: its header, its entries, and what comes       *)
(* behind them.                                                            *)
Written(of, head, list, tail, word) ==
  [of |-> of, head |-> head, list |-> list, tail |-> tail, word |-> word]

Far == Limit - 8

BlocksOf(s) ==
  SelectSeq(
    <<[on |-> s.generic # <<>>,
       b |-> Written("generic",
               <<to(800), null, num(IF s.generic = <<>> THEN 0
                                    ELSE s.generic[1] + ShortUnit * s.generic[2]), num(77)>>,
               <<>>,
               IF s.generic = <<>> THEN <<>>
               ELSE Times((s.generic[1] + 3) \div 4 + 3 * s.generic[2], num(777)), 0)],
      [on |-> s.resilient, b |-> Written("resilient superclass", <<>>, <<<<to(804)>>>>, <<>>, 0)],
      [on |-> s.init = "foreign", b |-> Written("foreign", <<>>, <<<<to(808)>>>>, <<>>, 0)],
      [on |-> s.init = "singleton",
       b |-> Written("singleton", <<>>, <<<<to(812), null, to(Far)>>>>, <<>>, 0)],
      [on |-> s.vtable # -1,
       b |-> Written("vtable", <<num(2), num(s.vtable)>>,
                     [k \in 1..s.vtable |-> <<num(16), to(820 + k)>>], <<>>, 2)],
      [on |-> s.overrides # -1,
       b |-> Written("override table", <<num(s.overrides)>>,
                     Times(s.overrides, <<to(830), null, to(834)>>), <<>>, 0)],
      [on |-> s.stub /\ s.resilient, b |-> Written("stub", <<>>, <<<<to(840)>>>>, <<>>, 0)],
      [on |-> s.spare /\ s.init # "singleton",
       b |-> Written("prespecializations", <<num(2)>>, <<<<to(850)>>, <<null>>>>,
                     <<num(777), num(777)>>, 0)],
      [on |-> s.invertible,
       b |-> Written("invertible", <<num(3 + 7 * ShortUnit)>>, <<>>, <<>>, 3)],
      [on |-> s.spare /\ s.init = "singleton",
       b |-> Written("metadata pointer", <<>>, <<<<s.metadata>>>>, <<>>, 0)],
      [on |-> s.defaults,
       b |-> Written("default overrides", <<num(1)>>, <<<<to(860), to(864)>>>>, <<>>, 0)]>>,
    LAMBDA x : x.on)

CellsOf(b) == b.head \o FlattenSeq(b.list) \o b.tail

(* Bytes of the header that have to be there. *)
Reach(b) == IF b.of = "generic" THEN 16 ELSE IF b.of = "invertible" THEN 2
            ELSE 4 * Len(b.head)

Place(va, list, k) == va + 4 * Len(FlattenSeq([j \in 1 .. k - 1 |-> CellsOf(list[j])]))

WrittenBlock(va, b) ==
  LET base == va + (IF b.of = "invertible" THEN 2 ELSE 4 * Len(b.head))
      span == IF b.list = <<>> THEN 0 ELSE 4 * Len(b.list[1])
  IN  [block |-> [of |-> b.of, at |-> va, base |-> base, count |-> Len(b.list), word |-> b.word],
       reach |-> IF Reach(b) = 0 THEN 0 ELSE va + Reach(b),
       entries |-> [j \in DOMAIN b.list |-> [fields |-> Values(b.list[j]),
                                             end |-> base + span * j]]]

KindBits(kind) == CASE kind = "class" -> {4} [] kind = "struct" -> {0, 4} [] kind = "enum" -> {1, 4}

BitsOf(kind, s) ==
  KindBits(kind)
    \cup (IF s.generic # <<>> THEN {7} ELSE {}) \cup (IF s.invertible THEN {5} ELSE {})
    \cup (CASE s.init = "none" -> {} [] s.init = "singleton" -> {16}
            [] s.init = "foreign" -> {17} [] s.init = "other" -> {16, 17})
    \cup (IF s.spare THEN {19} ELSE {}) \cup (IF s.resilient THEN {29} ELSE {})
    \cup (IF s.overrides # -1 THEN {30} ELSE {}) \cup (IF s.vtable # -1 THEN {31} ELSE {})
    \cup (IF s.defaults THEN {22} ELSE {})

At == 216

(* One type behind a null slot and one that leads nowhere; the file ends   *)
(* at end.  Blocks of classes are not written behind a value.              *)
TypeImage(kind, s, end) ==
  LET plain == IF kind = "class" THEN s
               ELSE [s EXCEPT !.resilient = FALSE, !.vtable = -1, !.overrides = -1,
                              !.defaults = FALSE]
      found == BlocksOf(plain)
      list == [k \in DOMAIN found |-> found[k].b]
      super == IF s.resilient THEN null ELSE to(T[2])
      fixed == <<null, to(160), to(T[1]), null, null>> \o
               (CASE kind = "class" ->
                       <<super, IF s.resilient THEN to(370) ELSE num(2),
                         num(IF s.stub THEN 5 ELSE 4), num(6), num(7), num(8)>>
                  [] kind = "struct" -> <<num(s.fields), num(s.vector)>>
                  [] kind = "enum" -> <<num(3 + 2 * CaseUnit), num(4)>>)
      after == At + 4 * Len(fixed)
      whole == end >= after
      known == kind = "struct" /\ s.spare /\ s.init = "singleton" /\ s.metadata = to(160)
                 /\ s.fields > 0 /\ s.vector > 0
      body == [kind |-> kind, after |-> after,
               superclass |-> IF kind = "class" /\ ~s.resilient THEN TextOf(2) ELSE None,
               bounds |-> IF kind # "class" THEN <<>> ELSE IF s.resilient THEN <<370>>
                          ELSE <<2, IF s.stub THEN 5 ELSE 4>>,
               extra |-> IF kind = "class" /\ s.resilient THEN (IF s.stub THEN 5 ELSE 4) ELSE None,
               counts |-> CASE kind = "class" -> <<6, 7, 8>> [] kind = "struct" -> <<s.fields, s.vector>>
                            [] kind = "enum" -> <<3, 2, 4>>]
  IN  <<ImageOf(Words(At, fixed \o FlattenSeq([k \in DOMAIN list |-> CellsOf(list[k])]))
                  @@ Words(200, <<null, to(1100), to(At)>>)
                  @@ Words(168, <<num(0), num(4), num(8), num(12)>>),
                ((At - 120) :> BitsOf(kind, s)), "types" :> Section_(200, 14), end,
                [rows |-> IF end < At + 20 THEN <<>>
                          ELSE <<[address |-> At, bits |-> BitsOf(kind, s), parent |-> 160,
                                  name |-> TextOf(1), body |-> IF whole THEN body ELSE NonType,
                                  blocks |-> <<>>]>>,
                 written |-> (At :> [blocks |-> [k \in DOMAIN list |->
                                                   WrittenBlock(Place(after, list, k), list[k])],
                                     offsets |-> IF known
                                                 THEN [k \in 1..s.fields |-> 4 * (k - 1) + 8 * (s.vector - 1)]
                                                 ELSE None])]),
        "types">>

Plain == [generic |-> <<>>, resilient |-> FALSE, stub |-> FALSE, init |-> "none", vtable |-> -1,
          overrides |-> -1, spare |-> FALSE, invertible |-> FALSE, defaults |-> FALSE,
          fields |-> 2, vector |-> 1, metadata |-> to(160)]

End == 1000

ClassCalls ==
  {TypeImage("class", [Plain EXCEPT !.generic = g, !.resilient = r[1], !.stub = r[2], !.init = i,
                                    !.vtable = v, !.overrides = o, !.spare = b, !.invertible = n,
                                    !.defaults = d], End) :
     g \in {<<>>, <<1, 1>>, <<4, 0>>}, r \in {<<FALSE, TRUE>>, <<TRUE, FALSE>>, <<TRUE, TRUE>>},
     i \in {"none", "singleton", "foreign", "other"}, v \in {-1, 2}, o \in {-1, 1},
     b, n, d \in BOOLEAN}

ValueCalls ==
  {TypeImage(kind, [Plain EXCEPT !.generic = g, !.init = i, !.spare = b, !.invertible = n,
                                 !.resilient = c, !.stub = c, !.defaults = c, !.vtable = IF c THEN 1 ELSE -1,
                                 !.fields = f[1], !.vector = f[2], !.metadata = m], End) :
     kind \in {"struct", "enum"}, g \in {<<>>, <<0, 0>>, <<5, 1>>}, i \in {"none", "singleton"},
     b, n, c \in BOOLEAN, f \in {<<2, 1>>, <<1, 2>>, <<0, 1>>, <<2, 0>>},
     m \in {to(160), null, to(1100)}}

Full == [Plain EXCEPT !.generic = <<2, 1>>, !.resilient = TRUE, !.stub = TRUE, !.vtable = 2,
                      !.overrides = 2, !.invertible = TRUE, !.spare = TRUE, !.defaults = TRUE]

CutCalls ==
  {TypeImage("class", [Full EXCEPT !.init = i], At + 4 * k + 2) :
     k \in 3..60, i \in {"none", "singleton"}}

(* ---- protocols and conformances ---------------------------------------- *)
RefBits == [direct |-> {}, indirect |-> {3}, name |-> {4}, class |-> {3, 4}, other |-> {5}]

Proto(va, name, assoc) ==
  Words(va, <<null, to(160), name, num(2), num(3), assoc>>)

ProtoRow(va, name, assoc) ==
  [address |-> va, parent |-> 160, name |-> name, counts |-> <<2, 3>>, associated |-> assoc]

(* Slots lead to one that is good, one without name, one whose name cannot *)
(* be read, one that is cut off, nowhere, or are null.                     *)
ProtoCall(slots, load) ==
  LET va(s) == CASE s = "good" -> 216 [] s = "empty" -> 240 [] s = "bad" -> 264
                 [] s = "cut" -> 380 [] s = "far" -> 1100 [] s = "null" -> 0
      good == SelectSeq(slots, LAMBDA s : s \in {"good", "empty"})
  IN  <<ImageOf(Proto(216, to(T[1]), to(T[2])) @@ Proto(240, null, null)
                  @@ Proto(264, to(50), null) @@ Proto(380, to(T[1]), null)
                  @@ Words(200, [k \in DOMAIN slots |-> IF slots[k] = "null" THEN null
                                                        ELSE to(va(slots[k]))]),
                Empty, (IF load THEN "protos" ELSE "reflstr") :> Section_(200, 15), 400,
                [rows |-> IF ~load THEN <<>>
                          ELSE [k \in DOMAIN good |->
                                  IF good[k] = "good" THEN ProtoRow(216, TextOf(1), TextOf(2))
                                  ELSE ProtoRow(240, <<>>, None)]]),
        "protocols">>

ProtoCalls ==
  {ProtoCall(slots, load) :
     slots \in [1..3 -> {"good", "empty", "bad", "cut", "far", "null"}], load \in BOOLEAN}

ConfCall(kind, target, slots, is64) ==
  LET name == kind = "name" /\ target.of = T[3]
      row == [address |-> 216, protocol |-> 0, witness |-> Far,
              type |-> [kind |-> CASE kind = "name" -> (IF name THEN "class name" ELSE "other")
                                   [] kind \in {"direct", "indirect", "class", "other"} -> kind,
                        of |-> IF name THEN TextOf(3) ELSE <<target.of>>]]
  IN  <<ImageOf(Words(216, <<null, target, to(Far), null>>) @@ Words(200, slots),
                (228 - 120) :> RefBits[kind], "proto" :> Section_(200, 8), 400,
                [is64 |-> is64,
                 rows |-> IF is64 THEN <<row, row>> ELSE <<>>]),
        "conformances">>

ConfCalls ==
  {ConfCall(kind, target, <<to(216), to(216)>>, is64) :
     kind \in DOMAIN RefBits, target \in {to(T[3]), to(50), null}, is64 \in BOOLEAN}

(* ---- fields, captures, replacements ------------------------------------ *)
RecordCells(k, size) ==
  <<num(k), to(T[k]), to(IF k = 1 THEN Pool + 4 ELSE T[3])>> \o Times((size - 12) \div 4, num(9))

RecordFields(k, size) ==
  <<k, TextOf(k), IF k # 1 THEN TextOf(3) ELSE IF size = 9 THEN TextOf(4) ELSE None>>

FieldCells(d) ==
  <<to(T[1]), IF d[2] = 12 THEN null ELSE to(T[2]), num(1 + ShortUnit * d[2]), num(d[1])>>
    \o FlattenSeq([k \in 1..d[1] |-> RecordCells(k, d[2])])

(* Two descriptors, of a count and a size of records; the section may end  *)
(* before the last, and the pool before the terminator of its name.        *)
FieldCall(d1, d2, short, size) ==
  LET cells == <<FieldCells(d1), FieldCells(d2)>>
      va(k) == 200 + (IF k = 1 THEN 0 ELSE 4 * Len(cells[1]))
      d(k) == IF k = 1 THEN d1 ELSE d2
      fits == IF short = 0 THEN 1..2 ELSE 1..1
      row(k) == [address |-> va(k), type |-> TextOf(1), kind |-> 1,
                 superclass |-> IF d(k)[2] = 12 THEN None ELSE TextOf(2)]
  IN  <<ImageOf(Words(200, FlattenSeq(cells)), Empty,
                "fieldmd" :> Section_(200, 4 * Len(FlattenSeq(cells)) - short)
                  @@ "reflstr" :> [address |-> Pool, size |-> size, offset |-> TextOf(4)[1] - 4],
                End,
                [rows |-> [k \in fits |-> row(k)],
                 written |-> [a \in {va(k) : k \in fits} |->
                   LET k == IF a = 200 THEN 1 ELSE 2
                   IN  [blocks |->
                          <<[block |-> [of |-> "records"], reach |-> 0,
                             entries |-> [j \in 1 .. d(k)[1] |->
                                [fields |-> RecordFields(j, size), end |-> a + 16 + d(k)[2] * j]]]>>]]]),
        "fields">>

FieldCalls ==
  {FieldCall(d1, d2, short, pool) :
     d1, d2 \in {<<n, size>> : n \in 0..2, size \in {12, 16}}, short \in {0, 4},
     pool \in {8, 9}}

(* Captures: numbers of types, sources and bindings. *)
CaptureCells(c) == <<num(c[1]), num(c[2]), num(c[3])>> \o Times(c[1] + 2 * c[2] + c[3], num(1))

CaptureCall(c1, c2) ==
  LET second == 200 + 4 * Len(CaptureCells(c1))
  IN  <<ImageOf(Words(200, CaptureCells(c1) \o CaptureCells(c2)), Empty,
                "capture" :> Section_(200, 4 * Len(CaptureCells(c1) \o CaptureCells(c2)))
                  @@ "types" :> Section_(200, 0), End,
                [rows |-> <<[address |-> 200, counts |-> c1]>> \o
                          (IF c1[3] # 0 THEN <<>> ELSE <<[address |-> second, counts |-> c2]>>)]),
        "captures">>

CaptureCalls ==
  {CaptureCall(c1, c2) : c1, c2 \in {<<a, b, c>> : a \in 0..2, b \in 0..1, c \in 0..1}}

ReplacementCall(said, there) ==
  <<ImageOf(Words(200, <<num(5), num(said)>> \o
                       FlattenSeq([k \in 1..there |-> <<IF k = 2 THEN null ELSE to(300), num(k)>>])),
            Empty, "replac" :> Section_(200, 8 + 8 * there) @@ "types" :> Section_(200, 0), End,
            [rows |-> [k \in 1 .. Min({said, there}) |->
                         [address |-> 200 + 8 * k, scope |-> IF k = 2 THEN 0 ELSE 300, flags |-> k]]]),
    "replacements">>

ReplacementCalls == {ReplacementCall(said, there) : said, there \in 0..3}

SwiftCalls ==
  UNION {ClassCalls, ValueCalls, CutCalls, ProtoCalls, ConfCalls, FieldCalls, CaptureCalls,
         ReplacementCalls}
=============================================================================
