--------------------------- MODULE MCCodeSignature ---------------------------
(***************************************************************************)
(* Small signatures.  The unit of the SuperBlob is four bytes, a word of   *)
(* an expression two, a byte of the entitlements one.                      *)
(***************************************************************************)
EXTENDS SignatureProperties

File(index, blobs) ==
  [size |-> 40, base |-> 2, magic |-> "embedded", length |-> 20,
   index |-> index, blobs |-> blobs]

One(type, blob) == File(<<[type |-> type, offset |-> 9]>>, (9 :> blob))

(* ---- directories ------------------------------------------------------- *)
Directory(len, offset, size, special, code) ==
  [magic |-> "directory", len |-> len, hashOffset |-> offset,
   hashSize |-> size, nSpecial |-> special, nCode |-> code]

HashFiles ==
  {One(0, Directory(len, offset, size, special, code)) :
     len \in {9, 15}, offset \in {0, 10, 12, 14, 16}, size \in 0..3,
     special \in 0..3, code \in 0..3}

Junk == [magic |-> "directory", len |-> 9]
Good == Directory(10, 10, 0, 0, 0)

(* A file cut off, a SuperBlob too short or too long, a wrong magic. *)
BadFiles ==
  LET good == One(0, Good)
  IN  {[good EXCEPT !.size = 10], [good EXCEPT !.length = 4],
       [good EXCEPT !.length = 50], [good EXCEPT !.magic = "other"],
       [good EXCEPT !.magic = "embedded_old"]}

AlternateFiles ==
  {File([k \in 1..n |-> [type |-> types[k], offset |-> offsets[k]]],
        (9 :> Good @@ 10 :> Junk @@ 39 :> Good)) :
     n \in 0..3, types \in [1..3 -> {0, 4096, 4097}],
     offsets \in [1..3 -> {9, 10, 39}]}

(* ---- requirements ------------------------------------------------------ *)
Leaf(op, values) == [op |-> op, values |-> values, args |-> <<>>]
Node(op, args) == [op |-> op, values |-> <<>>, args |-> args]

(* "always"; an identifier of three bytes, whose words look like           *)
(* operators; a certificate field with and one without an operand.         *)
Plain == Leaf(1, <<>>)
Ident == Leaf(2, <<<<7, 9>>>>)
Field == Leaf(14, <<6, <<1>>, 4, <<9>>>>)
Exists == Leaf(10, <<<<6, 7>>, 0>>)

(* What codesign writes; a data field ends within its last word.           *)
Data(words) == <<2 * Len(words) - 1>> \o words

Operand(op, values) ==
  CASE op = 1 -> <<>>
    [] op = 2 -> Data(values[1])
    [] op = 14 -> <<values[1]>> \o Data(values[2]) \o <<values[3]>> \o Data(values[4])
    [] op = 10 -> Data(values[1]) \o <<values[2]>>

RECURSIVE Encode(_)
Encode(tree) ==
  IF tree.args = <<>> THEN <<tree.op>> \o Operand(tree.op, tree.values)
  ELSE <<tree.op>> \o FlattenSeq([i \in DOMAIN tree.args |-> Encode(tree.args[i])])

Grow(first, second) ==
  {Node(Not, <<t>>) : t \in first}
    \cup {Node(op, <<l, r>>) : op \in {And, Or}, l \in first, r \in second}

Trees0 == {Plain, Ident, Field}
Trees1 == Trees0 \cup Grow(Trees0, Trees0)
Trees2 == Grow(Trees1, Trees0) \cup Grow(Trees0, Trees1) \cup {Exists}
DeepTrees == Grow({Node(Not, <<Node(Not, <<Node(And, <<Plain, Ident>>)>>)>>)}, {Plain})

Entry(type, tree, opens, cut) ==
  [type |-> type, intact |-> opens /\ cut = 0, tree |-> tree,
   blob |-> [opens |-> opens, words |-> Encode(tree),
             bytes |-> LET whole == WordSize * Len(Encode(tree))
                       IN  IF cut < whole THEN whole - cut ELSE 0]]

Vector(count, index) ==
  [magic |-> "requirements", len |-> 12,
   body |-> [count |-> count, index |-> index]]

AnyEntry == {Entry(k, t, opens, cut) : k \in {3}, t \in {Plain, Node(And, <<Ident, Exists>>)},
                                       opens \in BOOLEAN, cut \in {0, 1, 3}}

RequirementFiles ==
  {One(2, Vector(1, <<Entry(3, t, TRUE, 0)>>)) : t \in Trees2 \cup DeepTrees}
    \cup {One(2, Vector(count, <<[a EXCEPT !.type = 1], b, [a EXCEPT !.type = 5]>>)) :
            count \in 0..4, a, b \in AnyEntry}

(* ---- entitlements ------------------------------------------------------ *)
Tlv(tag, body, long) ==
  IF long THEN <<tag, 129, Len(body)>> \o body ELSE <<tag, Len(body)>> \o body

(* Two bytes are what an integer may have.  One byte, positive and         *)
(* negative; two bytes; and three, of which one is too many.               *)
CodedIntegers == {<<Value("integer", 5), Tlv(Integer, <<5>>, FALSE)>>,
                  <<Value("integer", -1), Tlv(Integer, <<255>>, FALSE)>>,
                  <<Value("integer", -300), Tlv(Integer, <<254, 212>>, FALSE)>>,
                  <<Value("integer", 327938), Tlv(Integer, <<5, 1, 2>>, FALSE)>>,
                  <<Value("integer", 40000), Tlv(Integer, <<0, 156, 64>>, FALSE)>>,
                  <<Value("integer", -40000), Tlv(Integer, <<255, 99, 192>>, FALSE)>>,
                  <<Value("array", <<Value("integer", -2)>>),
                    Tlv(Sequence, Tlv(Integer, <<254>>, FALSE), FALSE)>>}

(* Values with their encodings. *)
Coded == {<<Value("bool", 1), Tlv(Boolean, <<255>>, FALSE)>>,
          <<Value("integer", 129), Tlv(Integer, <<0, 129>>, FALSE)>>,
          <<Value("string", <<7>>), Tlv(Utf8, <<7>>, TRUE)>>,
          <<Value("array", <<Value("string", <<>>), Value("array", <<Value("bool", 0)>>)>>),
            Tlv(Sequence, Tlv(Utf8, <<>>, FALSE)
                            \o Tlv(49, Tlv(Boolean, <<0>>, FALSE), FALSE), FALSE)>>,
          <<Value("other", 10), Tlv(10, <<1>>, FALSE)>>,
          <<Value("other", 0), <<>>>>}

Pairing(key, coded) == [key |-> key, value |-> coded[1], code |-> coded[2]]

PairLists ==
  {<<>>} \cup {<<Pairing(<<1>>, c)>> : c \in Coded}
         \cup {<<Pairing(k, c), Pairing(<<2>>, d)>> : k \in {<<1>>, <<2>>}, c, d \in Coded}

EntryOf(pair) == Tlv(Sequence, Tlv(Utf8, pair.key, FALSE) \o pair.code, FALSE)

EntriesOf(list) == FlattenSeq([i \in DOMAIN list |-> EntryOf(list[i])])

Wrapped(body, long) ==
  Tlv(112, Tlv(Integer, <<1>>, FALSE) \o Tlv(176, body, long), long)

Entitled(bytes, list, intact) ==
  [magic |-> "der", len |-> 12, body |-> bytes, intact |-> intact,
   legacy |-> FALSE,
   pairs |-> [i \in DOMAIN list |-> [key |-> list[i].key, value |-> list[i].value]]]

(* An entry that is no pair, or has a key that is no text, in front. *)
Strays == {<<5, 0>>, Tlv(Sequence, Tlv(Utf8, <<200>>, FALSE), FALSE),
           Tlv(Sequence, <<>>, FALSE)}

Bare(list) == Entitled(EntriesOf(list), list, TRUE)

DerBlobs ==
  {Entitled(Wrapped(EntriesOf(list), long), list, TRUE) : list \in PairLists, long \in BOOLEAN}
    \cup {Bare(list) : list \in PairLists}
    \cup {Entitled(Wrapped(stray \o EntriesOf(list), FALSE), list, TRUE) :
            stray \in Strays, list \in PairLists}
    \cup UNION {{Entitled(SubSeq(Wrapped(EntriesOf(list), FALSE), 1, n), list, FALSE) :
                   n \in 0 .. Len(Wrapped(EntriesOf(list), FALSE)) - 1} :
                list \in {l \in PairLists : Len(l) = 1}}
    \cup UNION {{Entitled([Wrapped(EntriesOf(list), FALSE) EXCEPT ![n] = b], list, FALSE) :
                   n \in 1 .. Len(Wrapped(EntriesOf(list), FALSE)), b \in {1, 48, 130}} :
                list \in {l \in PairLists : Len(l) = 1}}

IntegerBlobs ==
  {Entitled(Wrapped(EntriesOf(list), FALSE), list, TRUE) :
     list \in {<<Pairing(<<1>>, c)>> : c \in CodedIntegers}
               \cup {<<Pairing(<<1>>, c), Pairing(<<2>>, d)>> : c, d \in CodedIntegers}}

(* The entries in a SET, without wrapper and version. *)
LegacyBlob == LET list == <<Pairing(<<1>>, <<Value("bool", 1), Tlv(Boolean, <<255>>, FALSE)>>)>>
              IN  [Entitled(Tlv(49, EntriesOf(list), FALSE), list, FALSE)
                     EXCEPT !.legacy = TRUE]

DerFiles == {One(7, blob) : blob \in DerBlobs \cup IntegerBlobs \cup {LegacyBlob}}

Payload(magic) == [magic |-> magic, len |-> 3]

PayloadFiles ==
  {One(5, Payload("xml")), One(5, Payload("other")), One(65536, Payload("cms")),
   One(5, [Payload("xml") EXCEPT !.len = 1]), One(7, Payload("xml"))}

With(set, accessor) == {[file |-> f, call |-> accessor] : f \in set}

DerUses == With(DerFiles, "der")

AllUses ==
  With(HashFiles \cup BadFiles, "primary") \cup With(AlternateFiles, "alternates")
    \cup With(RequirementFiles, "requirements") \cup DerUses
    \cup With(PayloadFiles, "xml") \cup With(PayloadFiles, "cms")
=============================================================================
