----------------------- MODULE ConstantObjectsProofs -----------------------
(***************************************************************************)
(* Proofs about ConstantObjects and VmMap, for every image: any imports,   *)
(* any tables of sections, any bytes, any table of segments.  The two      *)
(* runtimes share only the image, so the invariant has a half for each,    *)
(* and the steps of one keep that of the other, in whatever order the      *)
(* caller drains them.                                                     *)
(*                                                                         *)
(* The last part is about VmMap.  Its invariant says that the loop has     *)
(* left no covering segment behind, and which segment an answer is from;   *)
(* and that the loop computes FileOffset of DataImage, which the walkers   *)
(* over constant data read through.                                        *)
(***************************************************************************)
EXTENDS ConstantObjects, VmMap, WellFoundedInduction, TLAPS

Reference == [kind: {"Global", "Stack"}, slot: Nat]

Text == Nat \X Nat

DescriptorRow == [size: Nat, copy: Nat \cup {None}, dispose: Nat \cup {None},
                  signature: Text \cup {None}, layout: Text \cup {None}]

LiteralRow == [address: Nat, flags: Nat, reserved: Nat, invoke: Nat, target: Nat,
               descriptor: DescriptorRow \cup {None}]

StringRow == [address: Nat, flags: Nat, text: Nat, length: Nat, body: Text \cup {None}]

CfSection == [malformed: {FALSE}, name: {"cfstring"}, address: Nat, offset: Nat, size: Nat]

BlocksTyped ==
  /\ blockPhase \in {"imports", "build", "references", "stack", "literals", "none", "done"}
  /\ row \in Nat
  /\ globalSites \in Seq(Nat) /\ stackSites \in Seq(Nat)
  /\ blockRebases \in [DOMAIN blockRebases -> Nat]
  /\ references \in Seq(Reference)
  /\ literals \in Seq(LiteralRow)

StringsTyped ==
  /\ cfPhase \in {"find", "walk", "none", "done"}
  /\ taken \in 0 .. Len(image.tables)
  /\ current \in Seq(SectionRow)
  /\ cfPhase \in {"walk", "done"} => section \in CfSection
  /\ cfRebases \in [DOMAIN cfRebases -> Nat]
  /\ cursor \in Nat
  /\ strings \in Seq(StringRow)

TypeOK == IsImage(image) /\ BlocksTyped /\ StringsTyped
-----------------------------------------------------------------------------
(* The invariant of the blocks *)

(* The binds of an anchor among the first n imports, and a list of them. *)
BindsUpTo(im, anchor, n) ==
  {k \in 1 .. n : im.imports[k].inFile /\ im.imports[k].anchor = anchor}

Listed(im, anchor, n, list) ==
  \E at \in Listings(BindsUpTo(im, anchor, n), Len(list)) :
    \A i \in 1 .. Len(list) : list[i] = im.imports[at[i]].va

ImportsTaken == IF blockPhase = "imports" THEN row ELSE Len(image.imports)

SitesInv ==
  /\ blockPhase = "imports" => row <= Len(image.imports)
  /\ blockPhase # "none" \/ image.is64 =>
       /\ Listed(image, "Global", ImportsTaken, globalSites)
       /\ Listed(image, "Stack", ImportsTaken, stackSites)
  /\ blockPhase = "none" /\ image.is64 => globalSites = <<>> /\ stackSites = <<>>

(* How many references are out in each phase. *)
Yielded ==
  CASE blockPhase \in {"imports", "build", "none"} -> 0
    [] blockPhase = "references" -> row
    [] blockPhase = "stack" -> Len(globalSites) + row
    [] blockPhase \in {"literals", "done"} -> Len(globalSites) + Len(stackSites)

(* The references are the two lists, one after the other. *)
OneByOne(global, stack, refs) ==
  \A i \in 1 .. Len(refs) :
    refs[i] = IF i <= Len(global) THEN [kind |-> "Global", slot |-> global[i]]
                                  ELSE [kind |-> "Stack", slot |-> stack[i - Len(global)]]

ReferencesInv ==
  /\ blockPhase = "references" => row <= Len(globalSites)
  /\ blockPhase = "stack" => row <= Len(stackSites)
  /\ Len(references) = Yielded
  /\ OneByOne(globalSites, stackSites, references)

(* Where a literal can be read up to its descriptor. *)
Whole(im, site) ==
  /\ ReadBytes(im, site + WordSize, HalfSize)
  /\ ReadBytes(im, site + WordSize + HalfSize, HalfSize)
  /\ Readable(im, site + 2 * WordSize) /\ Readable(im, site + 3 * WordSize)

WholeUpTo(im, sites, n) == {k \in 1 .. n : Whole(im, sites[k])}

(* There is a row for each of the first n sites that can be read. *)
RowsFor(im, sites, n, rows) ==
  \E at \in Listings(WholeUpTo(im, sites, n), Len(rows)) :
    \A i \in 1 .. Len(rows) : rows[i].address = sites[at[i]]

LiteralsInv ==
  /\ blockPhase \notin {"literals", "done"} => literals = <<>>
  /\ blockPhase = "literals" => row <= Len(globalSites) /\ RowsFor(image, globalSites, row, literals)
  /\ blockPhase = "done" => RowsFor(image, globalSites, Len(globalSites), literals)

BlocksInv == BlocksTyped /\ SitesInv /\ ReferencesInv /\ LiteralsInv
-----------------------------------------------------------------------------
(* The invariant of the strings *)

Wanted(r) == ~r.malformed /\ r.name = "cfstring"

NoneIn(table) == \A r \in 1 .. Len(table) : ~Wanted(table[r])

(* The rest of a table after rows none of which is wanted. *)
RestOf(table, rest) ==
  LET gone == Len(table) - Len(rest)
  IN  /\ Len(rest) <= Len(table)
      /\ \A i \in 1 .. Len(rest) : rest[i] = table[gone + i]
      /\ \A r \in 1 .. gone : ~Wanted(table[r])

(* The iterator is in the table it took last, and has passed nothing of    *)
(* the name that is looked for.                                            *)
FindInv ==
  /\ taken = 0 => current = <<>>
  /\ taken > 0 => RestOf(image.tables[taken], current)
  /\ \A t \in 1 .. (taken - 1) : NoneIn(image.tables[t])
  /\ cfPhase \in {"walk", "done"} =>
       taken > 0 /\ current # <<>> /\ Wanted(Head(current)) /\ section = Head(current)
  /\ cfPhase = "none" =>
       ~image.is64 \/ \A t \in 1 .. Len(image.tables) : NoneIn(image.tables[t])

(* The cursor is behind the last row, and rows are one stride apart. *)
RowsInv ==
  /\ cfPhase \in {"find", "none"} => strings = <<>> /\ cursor = 0
  /\ cursor = Len(strings) * Stride
  /\ cfPhase \in {"walk", "done"} =>
       /\ cursor <= section.size
       /\ \A i \in 1 .. Len(strings) :
            strings[i].address = section.address + (i - 1) * Stride
  /\ cfPhase = "done" => cursor + Stride > section.size

StringsInv == StringsTyped /\ FindInv /\ RowsInv

ObjectsInv == IsImage(image) /\ BlocksInv /\ StringsInv
-----------------------------------------------------------------------------
(* Reading the image *)

(* A sequence is a function on the positions up to its length. *)
LEMMA SeqFacts ==
  ASSUME NEW S, NEW s \in Seq(S)
  PROVE  /\ Len(s) \in Nat /\ DOMAIN s = 1 .. Len(s)
         /\ \A k \in 1 .. Len(s) : s[k] \in S
OBVIOUS

LEMMA AppendFacts ==
  ASSUME NEW S, NEW s \in Seq(S), NEW e \in S
  PROVE  /\ Append(s, e) \in Seq(S)
         /\ Len(Append(s, e)) = Len(s) + 1
         /\ \A k \in 1 .. Len(s) : Append(s, e)[k] = s[k]
         /\ Append(s, e)[Len(s) + 1] = e
OBVIOUS

LEMMA TailFacts ==
  ASSUME NEW S, NEW s \in Seq(S), s # <<>>
  PROVE  /\ Head(s) = s[1] /\ Head(s) \in S
         /\ Tail(s) \in Seq(S) /\ Len(Tail(s)) = Len(s) - 1 /\ Len(s) > 0
         /\ \A k \in 1 .. (Len(s) - 1) : Tail(s)[k] = s[k + 1]
OBVIOUS

LEMMA ImageFacts ==
  ASSUME NEW im, IsImage(im)
  PROVE  /\ Len(im.imports) \in Nat /\ DOMAIN im.imports = 1 .. Len(im.imports)
         /\ \A k \in 1 .. Len(im.imports) : im.imports[k].va \in Nat
         /\ Len(im.tables) \in Nat /\ DOMAIN im.tables = 1 .. Len(im.tables)
         /\ \A t \in 1 .. Len(im.tables) :
              /\ im.tables[t] \in Seq(SectionRow)
              /\ Len(im.tables[t]) \in Nat
              /\ DOMAIN im.tables[t] = 1 .. Len(im.tables[t])
<1>1. /\ im.imports \in Seq([va: Nat, anchor: STRING, inFile: BOOLEAN])
      /\ im.tables \in Seq(Seq(SectionRow))
  BY DEF IsImage
<1>2. /\ Len(im.imports) \in Nat /\ DOMAIN im.imports = 1 .. Len(im.imports)
      /\ \A k \in 1 .. Len(im.imports) :
           im.imports[k] \in [va: Nat, anchor: STRING, inFile: BOOLEAN]
  BY <1>1, SeqFacts
<1>3. /\ Len(im.tables) \in Nat /\ DOMAIN im.tables = 1 .. Len(im.tables)
      /\ \A t \in 1 .. Len(im.tables) : im.tables[t] \in Seq(SectionRow)
  BY <1>1, SeqFacts
<1> QED BY <1>2, <1>3, SeqFacts

(* Every non-empty set of natural numbers has a least element. *)
LEMMA LeastNat ==
  ASSUME NEW T \in SUBSET Nat, T # {}
  PROVE  \E x \in T : \A y \in T : x <= y
<1> DEFINE less == {ss \in Nat \X Nat : ss[1] < ss[2]}
<1>1. IsWellFoundedOn(less, Nat)
  BY NatLessThanWellFounded DEF OpToRel
<1>2. PICK x \in T : \A y \in T : ~(<<y, x>> \in less)
  <2> HIDE DEF less
  <2> QED BY <1>1, WFMin
<1>3. ASSUME NEW y \in T PROVE x <= y
  <2>1. <<y, x>> \in Nat \X Nat /\ <<y, x>>[1] = y /\ <<y, x>>[2] = x
    OBVIOUS
  <2>2. ~(y < x)
    BY <1>2, <2>1
  <2> QED BY <2>2
<1> QED BY <1>3

LEMMA MinIn ==
  ASSUME NEW T \in SUBSET Nat, T # {}
  PROVE  Min(T) \in T
BY LeastNat DEF Min

LEMMA MaxIn ==
  ASSUME NEW n \in Nat, NEW T \in SUBSET (1 .. n), T # {}
  PROVE  Max(T) \in T
<1> DEFINE gaps == {n - k : k \in T}
<1>1. gaps \in SUBSET Nat /\ gaps # {}
  <2>1. \A k \in T : k \in Nat /\ n - k \in Nat
    OBVIOUS
  <2> QED BY <2>1
<1>2. PICK g \in gaps : \A h \in gaps : g <= h
  BY <1>1, LeastNat
<1>3. PICK x \in T : g = n - x
  BY <1>2
<1>4. ASSUME NEW y \in T PROVE x >= y
  <2>1. x \in Nat /\ y \in Nat /\ n - y \in gaps
    OBVIOUS
  <2>2. n - x <= n - y
    BY <1>2, <1>3, <2>1
  <2> QED BY <2>1, <2>2
<1> QED BY <1>4 DEF Max

(* vm_to_file_offset_in gives an offset or nothing. *)
LEMMA OffsetType ==
  ASSUME NEW im, IsImage(im), NEW va \in Nat
  PROVE  FileOffset(im, va) \in Nat \cup {None}
<1> DEFINE around == Around(im, va)
           seg == im.segments[Min(around)]
<1>1. FileOffset(im, va) = IF around # {} /\ va - seg.vmaddr < seg.filesize
                           THEN seg.fileoff + (va - seg.vmaddr) ELSE None
  BY DEF FileOffset, OffsetIn
<1>2. /\ DOMAIN im.segments \subseteq Nat
      /\ \A k \in DOMAIN im.segments : im.segments[k] \in SegmentRow
  <2>1. im.segments \in Seq(SegmentRow)
    BY DEF IsImage
  <2> QED BY <2>1
<1>3. ASSUME around # {} PROVE seg.fileoff + (va - seg.vmaddr) \in Nat
  <2>1. around \in SUBSET Nat
    BY <1>2 DEF Around
  <2>2. Min(around) \in around
    BY <1>3, <2>1, MinIn
  <2>3. /\ Min(around) \in DOMAIN im.segments
        /\ seg.vmaddr <= va
    BY <2>2 DEF Around
  <2>4. seg \in SegmentRow
    BY <1>2, <2>3
  <2> QED BY <2>3, <2>4 DEF SegmentRow
<1> QED BY <1>1, <1>3

(* A word, and its halves, wherever it is looked for. *)
LEMMA WordType ==
  ASSUME NEW im, IsImage(im), NEW offset
  PROVE  WordAt(im, offset) \in Nat
BY DEF WordAt, IsImage

LEMMA HalfTypes ==
  ASSUME NEW im, IsImage(im), NEW va
  PROVE  /\ Word(im, va) \in Nat
         /\ Low(im, va) \in Nat /\ High(im, va) \in Nat
<1>1. Word(im, va) \in Nat
  BY WordType DEF Word
<1>2. HalfUnit \in Nat \ {0}
  BY DataAssumption
<1>3. \A w \in Nat : w % HalfUnit \in Nat /\ w \div HalfUnit \in Nat
  BY <1>2
<1> QED BY <1>1, <1>3 DEF Low, High

(* rebases_by_va *)
LEMMA RebasesType ==
  ASSUME NEW im, IsImage(im)
  PROVE  RebasesByVa(im) \in [DOMAIN RebasesByVa(im) -> Nat]
<1> DEFINE rows(va) == {k \in DOMAIN im.rebases : im.rebases[k].va = va}
           vas == {im.rebases[k].va : k \in DOMAIN im.rebases}
<1>1. RebasesByVa(im) = [va \in vas |-> im.rebases[Max(rows(va))].target]
  BY DEF RebasesByVa
<1>2. /\ Len(im.rebases) \in Nat /\ DOMAIN im.rebases = 1 .. Len(im.rebases)
      /\ \A k \in DOMAIN im.rebases : im.rebases[k] \in [va: Nat, target: Nat]
  BY SeqFacts DEF IsImage
<1>3. ASSUME NEW va \in vas PROVE im.rebases[Max(rows(va))].target \in Nat
  <2>1. rows(va) \in SUBSET (1 .. Len(im.rebases)) /\ rows(va) # {}
    BY <1>2
  <2>2. Max(rows(va)) \in rows(va)
    BY <1>2, <2>1, MaxIn
  <2>3. Max(rows(va)) \in DOMAIN im.rebases
    BY <2>2
  <2> QED BY <1>2, <2>3
<1> QED BY <1>1, <1>3

(* resolve_pointer *)
LEMMA PointerType ==
  ASSUME NEW rebases, rebases \in [DOMAIN rebases -> Nat], NEW slot, NEW raw \in Nat
  PROVE  ResolvePointer(rebases, slot, raw) \in Nat
<1>1. PacUnit \in Nat \ {0}
  BY DataAssumption
<1>2. raw % PacUnit \in Nat
  BY <1>1
<1> QED BY <1>2 DEF ResolvePointer

LEMMA CStrType ==
  ASSUME NEW im, IsImage(im), NEW offset \in Nat
  PROVE  CStr(im, offset) \in Text \cup {None}
BY DEF CStr, Text, IsImage

LEMMA ReadCStrType ==
  ASSUME NEW im, IsImage(im), NEW va \in Nat
  PROVE  ReadCStr(im, va) \in Text \cup {None}
<1>1. ReadCStr(im, va) = IF va = 0 \/ FileOffset(im, va) = None THEN None
                         ELSE CStr(im, FileOffset(im, va))
  BY DEF ReadCStr
<1>2. FileOffset(im, va) # None => FileOffset(im, va) \in Nat
  BY OffsetType
<1> QED BY <1>1, <1>2, CStrType

(* decode_descriptor and decode_literal *)
LEMMA DescriptorType ==
  ASSUME IsImage(image), blockRebases \in [DOMAIN blockRebases -> Nat],
         NEW address \in Nat, NEW flags \in Nat
  PROVE  Descriptor(address, flags) \in DescriptorRow \cup {None}
<1> DEFINE pointer(slot) == Pointer(image, blockRebases, slot)
           text(slot) == ReadCStr(image, pointer(slot))
           helper(slot) == IF Has(flags, Copies) THEN pointer(slot) ELSE None
           string(slot) == IF Has(flags, Signed) THEN text(slot) ELSE None
           copy == CopyAt(address)
           signature == SignatureAt(address, flags)
           whole == [size |-> Word(image, address + WordSize),
                     copy |-> helper(copy), dispose |-> helper(copy + WordSize),
                     signature |-> string(signature),
                     layout |-> string(signature + WordSize)]
<1>1. \A slot : pointer(slot) \in Nat
  BY HalfTypes, PointerType DEF Pointer
<1>2. \A slot : helper(slot) \in Nat \cup {None} /\ string(slot) \in Text \cup {None}
  BY <1>1, ReadCStrType
<1>3. Word(image, address + WordSize) \in Nat
  BY HalfTypes
<1>4. whole \in DescriptorRow
  <2> HIDE DEF helper, string, copy, signature
  <2> QED BY <1>2, <1>3 DEF DescriptorRow
<1>5. Descriptor(address, flags) \in {whole, None}
  BY DEF Descriptor
<1> QED BY <1>4, <1>5

LEMMA LiteralType ==
  ASSUME IsImage(image), blockRebases \in [DOMAIN blockRebases -> Nat],
         NEW address \in Nat, NEW flags \in Nat, NEW target \in Nat
  PROVE  /\ Literal(address, flags, target) \in LiteralRow
         /\ Literal(address, flags, target).address = address
<1>1. Low(image, ReservedAt(address)) \in Nat
  BY HalfTypes
<1>2. Pointer(image, blockRebases, address + 2 * WordSize) \in Nat
  BY HalfTypes, PointerType DEF Pointer
<1>3. Descriptor(target, flags) \in DescriptorRow \cup {None}
  BY DescriptorType
<1> QED BY <1>1, <1>2, <1>3 DEF Literal, LiteralRow

(* decode_body *)
LEMMA BodyType ==
  ASSUME IsImage(image), NEW flags \in Nat, NEW address \in Nat, NEW length \in Nat
  PROVE  Body(flags, address, length) \in Text \cup {None}
<1> DEFINE offset == FileOffset(image, address)
           encoding == Encoding(flags)
           ascii == encoding = AsciiFlag
           utf16 == encoding = Utf16Flag
           readable == address # 0 /\ offset # None
           whole(bytes) == offset + bytes <= image.size
           text8 == IF whole(length)
                    THEN IF Slice(offset, length) \cap image.bad8 = {}
                         THEN <<offset, length>> ELSE None
                    ELSE CStr(image, offset)
           text16 == IF whole(2 * length) /\ Slice(offset, 2 * length) \cap image.bad16 = {}
                     THEN <<offset, 2 * length>> ELSE None
<1>1. Body(flags, address, length)
        = CASE address = 0 \/ offset = None \/ encoding \notin {AsciiFlag, Utf16Flag} -> None
            [] address # 0 /\ offset # None /\ ascii -> text8
            [] address # 0 /\ offset # None /\ utf16 -> text16
  BY DEF Body
<1>2. AsciiFlag # Utf16Flag
  BY EncodingAssumption
<1>3. CASE ~readable \/ ~(ascii \/ utf16)
  <2> HIDE DEF text8, text16, offset, encoding
  <2> QED BY <1>1, <1>2, <1>3
<1>4. CASE readable /\ ascii
  <2>1. Body(flags, address, length) = text8
    <3> HIDE DEF text8, text16, offset, encoding
    <3> QED BY <1>1, <1>2, <1>4
  <2>2. offset \in Nat
    BY <1>4, OffsetType
  <2>3. <<offset, length>> \in Text /\ CStr(image, offset) \in Text \cup {None}
    BY <2>2, CStrType DEF Text
  <2> QED BY <2>1, <2>3
<1>5. CASE readable /\ utf16
  <2>1. Body(flags, address, length) = text16
    <3> HIDE DEF text8, text16, offset, encoding
    <3> QED BY <1>1, <1>2, <1>5
  <2>2. offset \in Nat /\ 2 * length \in Nat
    BY <1>5, OffsetType
  <2>3. <<offset, 2 * length>> \in Text
    BY <2>2 DEF Text
  <2> QED BY <2>1, <2>3
<1> QED BY <1>3, <1>4, <1>5

LEMMA StrideType == Stride \in Nat \ {0}
BY DataAssumption DEF Stride

LEMMA DecodedType ==
  ASSUME IsImage(image), section \in CfSection, cursor \in Nat,
         cfRebases \in [DOMAIN cfRebases -> Nat]
  PROVE  Decoded \in StringRow /\ Decoded.address = section.address + cursor
<1>1. \A k \in 1..3 : Field(k) \in Nat
  BY WordType DEF Field
<1>2. Field(1) % HalfUnit \in Nat
  BY <1>1, DataAssumption
<1>3. ResolvePointer(cfRebases, TextSlot, Field(2)) \in Nat
  BY <1>1, PointerType
<1>4. Body(Field(1) % HalfUnit, ResolvePointer(cfRebases, TextSlot, Field(2)), Field(3))
        \in Text \cup {None}
  BY <1>1, <1>2, <1>3, BodyType
<1>5. section.address + cursor \in Nat
  BY DEF CfSection
<1> QED BY <1>1, <1>2, <1>3, <1>4, <1>5 DEF Decoded, StringRow
-----------------------------------------------------------------------------
(* Lists of positions *)

LEMMA ListingNone ==
  ASSUME NEW at, at = [i \in 1 .. 0 |-> 0]
  PROVE  at \in Listings({}, 0)
BY DEF Listings

LEMMA ListingMore ==
  ASSUME NEW S \in SUBSET Nat, NEW n \in Nat, NEW at \in Listings(S, n),
         NEW x \in Nat, \A k \in S : k < x
  PROVE  [i \in 1 .. (n + 1) |-> IF i <= n THEN at[i] ELSE x]
           \in Listings(S \cup {x}, n + 1)
<1> DEFINE more == [i \in 1 .. (n + 1) |-> IF i <= n THEN at[i] ELSE x]
<1>1. /\ at \in [1 .. n -> S]
      /\ \A i, j \in 1 .. n : i < j => at[i] < at[j]
      /\ \A k \in S : \E i \in 1 .. n : at[i] = k
  BY DEF Listings
<1>2. /\ \A i \in 1 .. n : more[i] = at[i] /\ at[i] \in S
      /\ more[n + 1] = x
      /\ \A i \in 1 .. (n + 1) : i \in 1 .. n \/ i = n + 1
      /\ \A i \in 1 .. n : i \in 1 .. (n + 1) /\ i < n + 1
      /\ n + 1 \in 1 .. (n + 1)
  BY <1>1
<1>3. more \in [1 .. (n + 1) -> S \cup {x}]
  BY <1>1
<1> HIDE DEF more
<1>4. \A i, j \in 1 .. (n + 1) : i < j => more[i] < more[j]
  <2> SUFFICES ASSUME NEW i \in 1 .. (n + 1), NEW j \in 1 .. (n + 1), i < j
               PROVE  more[i] < more[j]
    OBVIOUS
  <2>1. i \in 1 .. n
    OBVIOUS
  <2>2. CASE j \in 1 .. n
    BY <1>1, <1>2, <2>1, <2>2
  <2>3. CASE j = n + 1
    BY <1>2, <2>1, <2>3
  <2> QED BY <1>2, <2>2, <2>3
<1>5. \A k \in S \cup {x} : \E i \in 1 .. (n + 1) : more[i] = k
  BY <1>1, <1>2
<1>6. more \in Listings(S \cup {x}, n + 1)
  BY <1>3, <1>4, <1>5 DEF Listings
<1> QED BY <1>6 DEF more

(* A selection from a list, seen from the list's own positions. *)
LEMMA ListingThrough ==
  ASSUME NEW S \in SUBSET Nat, NEW n \in Nat, NEW g \in Listings(S, n),
         NEW T \in SUBSET (1 .. n), NEW m \in Nat, NEW h \in Listings(T, m)
  PROVE  [i \in 1 .. m |-> g[h[i]]] \in Listings({g[k] : k \in T}, m)
<1> DEFINE at == [i \in 1 .. m |-> g[h[i]]]
<1>1. /\ \A i \in 1 .. n : g[i] \in S
      /\ \A i, j \in 1 .. n : i < j => g[i] < g[j]
  BY DEF Listings
<1>2. /\ \A i \in 1 .. m : h[i] \in T /\ h[i] \in 1 .. n
      /\ \A i, j \in 1 .. m : i < j => h[i] < h[j]
      /\ \A k \in T : \E i \in 1 .. m : h[i] = k
  BY DEF Listings
<1>3. at \in [1 .. m -> {g[k] : k \in T}]
  BY <1>2
<1>4. \A i, j \in 1 .. m : i < j => at[i] < at[j]
  BY <1>1, <1>2
<1>5. \A x \in {g[k] : k \in T} : \E i \in 1 .. m : at[i] = x
  BY <1>2
<1> HIDE DEF at
<1>6. at \in Listings({g[k] : k \in T}, m)
  BY <1>3, <1>4, <1>5 DEF Listings
<1> QED BY <1>6 DEF at
-----------------------------------------------------------------------------
(* Blocks *)

Matches(anchor, k) == image.imports[k].inFile /\ image.imports[k].anchor = anchor

LEMMA ListedMore ==
  ASSUME IsImage(image), NEW anchor, NEW n \in Nat, n < Len(image.imports),
         NEW list \in Seq(Nat), Listed(image, anchor, n, list), Matches(anchor, n + 1)
  PROVE  Listed(image, anchor, n + 1, Append(list, image.imports[n + 1].va))
<1> DEFINE more == Append(list, image.imports[n + 1].va)
<1>1. image.imports[n + 1].va \in Nat
  BY ImageFacts
<1>2. /\ Len(list) \in Nat /\ Len(more) = Len(list) + 1
      /\ \A k \in 1 .. Len(list) : more[k] = list[k]
      /\ more[Len(list) + 1] = image.imports[n + 1].va
  BY <1>1, AppendFacts, SeqFacts
<1>3. PICK at \in Listings(BindsUpTo(image, anchor, n), Len(list)) :
        \A i \in 1 .. Len(list) : list[i] = image.imports[at[i]].va
  BY DEF Listed
<1> DEFINE longer == [i \in 1 .. (Len(list) + 1) |-> IF i <= Len(list) THEN at[i] ELSE n + 1]
<1>4. BindsUpTo(image, anchor, n + 1) = BindsUpTo(image, anchor, n) \cup {n + 1}
  <2>1. 1 .. (n + 1) = (1 .. n) \cup {n + 1}
    OBVIOUS
  <2> QED BY <2>1 DEF BindsUpTo, Matches
<1>5. longer \in Listings(BindsUpTo(image, anchor, n + 1), Len(list) + 1)
  <2>1. BindsUpTo(image, anchor, n) \in SUBSET Nat /\ \A k \in BindsUpTo(image, anchor, n) : k < n + 1
    BY DEF BindsUpTo
  <2>2. longer \in Listings(BindsUpTo(image, anchor, n) \cup {n + 1}, Len(list) + 1)
    <3> DEFINE S == BindsUpTo(image, anchor, n)
               m == Len(list)
    <3>1. S \in SUBSET Nat /\ m \in Nat /\ at \in Listings(S, m) /\ n + 1 \in Nat
      BY <1>2, <1>3, <2>1
    <3>2. \A k \in S : k < n + 1
      BY <2>1
    <3> HIDE DEF S, m
    <3>3. [i \in 1 .. (m + 1) |-> IF i <= m THEN at[i] ELSE n + 1]
            \in Listings(S \cup {n + 1}, m + 1)
      BY <3>1, <3>2, ListingMore
    <3> QED BY <3>3 DEF S, m
  <2> QED BY <1>4, <2>2
<1>6. ASSUME NEW i \in 1 .. Len(more) PROVE more[i] = image.imports[longer[i]].va
  <2>1. CASE i = Len(list) + 1
    <3>1. longer[i] = n + 1
      BY <1>2, <2>1
    <3> QED BY <1>2, <2>1, <3>1
  <2>2. CASE i \in 1 .. Len(list)
    <3>1. longer[i] = at[i]
      BY <1>2, <2>2
    <3> QED BY <1>2, <1>3, <2>2, <3>1
  <2> QED BY <1>2, <2>1, <2>2
<1> HIDE DEF more, longer
<1>7. Listed(image, anchor, n + 1, more)
  BY <1>2, <1>5, <1>6 DEF Listed
<1> QED BY <1>7 DEF more

LEMMA ListedSame ==
  ASSUME NEW anchor, NEW n \in Nat, NEW list, Listed(image, anchor, n, list),
         ~Matches(anchor, n + 1)
  PROVE  Listed(image, anchor, n + 1, list)
<1>1. 1 .. (n + 1) = (1 .. n) \cup {n + 1}
  OBVIOUS
<1>2. BindsUpTo(image, anchor, n + 1) = BindsUpTo(image, anchor, n)
  BY <1>1 DEF BindsUpTo, Matches
<1> QED BY <1>2 DEF Listed

LEMMA ListedNone ==
  ASSUME NEW anchor
  PROVE  Listed(image, anchor, 0, <<>>)
<1> DEFINE at == [i \in 1 .. 0 |-> 0]
<1>1. BindsUpTo(image, anchor, 0) = {} /\ Len(<<>>) = 0
  BY DEF BindsUpTo
<1>2. at \in Listings({}, 0)
  BY ListingNone
<1> HIDE DEF at
<1> QED BY <1>1, <1>2 DEF Listed

LEMMA BlocksInit == Init => BlocksInv
<1> SUFFICES ASSUME Init PROVE BlocksInv
  OBVIOUS
<1> USE DEF Init, BlockInit
<1>1. IsImage(image)
  BY ImagesAssumption
<1>2. BlocksTyped
  BY DEF BlocksTyped, Empty
<1>3. SitesInv
  BY <1>1, ImageFacts, ListedNone DEF SitesInv, ImportsTaken
<1>4. ReferencesInv /\ LiteralsInv
  BY DEF OneByOne, ReferencesInv, LiteralsInv, Yielded
<1> QED BY <1>2, <1>3, <1>4 DEF BlocksInv

(* The loop over the imports: both lists grow with it, nothing else does. *)
LEMMA SitesFrame ==
  ASSUME BlocksInv, UNCHANGED <<image, blockRebases, references, literals>>,
         blockPhase = "imports", blockPhase' = "imports", row' = row + 1,
         globalSites' \in Seq(Nat), stackSites' \in Seq(Nat),
         row' <= Len(image.imports),
         Listed(image, "Global", row + 1, globalSites'), Listed(image, "Stack", row + 1, stackSites')
  PROVE  BlocksInv'
<1> USE DEF BlocksInv
<1>1. BlocksTyped'
  BY DEF BlocksTyped
<1>2. SitesInv'
  <2>1. image' = image /\ ImportsTaken' = row + 1
    BY DEF ImportsTaken
  <2>2. Listed(image, "Global", ImportsTaken, globalSites)'
    BY <2>1
  <2>3. Listed(image, "Stack", ImportsTaken, stackSites)'
    BY <2>1
  <2> QED BY <2>1, <2>2, <2>3 DEF SitesInv
<1>3. references = <<>> /\ references' = <<>> /\ literals' = <<>>
  <2>1. Len(references) = 0 /\ references \in Seq(Reference)
    BY DEF BlocksTyped, ReferencesInv, Yielded
  <2> QED BY <2>1 DEF LiteralsInv
<1>4. ReferencesInv' /\ LiteralsInv'
  BY <1>3 DEF OneByOne, ReferencesInv, LiteralsInv, Yielded
<1> QED BY <1>1, <1>2, <1>4

LEMMA ImportsStep ==
  ASSUME IsImage(image), BlocksInv, AddGlobal \/ AddStack \/ SkipImport
  PROVE  BlocksInv'
<1>1. /\ blockPhase = "imports" /\ blockPhase' = "imports" /\ row' = row + 1
      /\ UNCHANGED <<image, blockRebases, references, literals>>
      /\ row \in Nat /\ row < Len(image.imports)
      /\ globalSites \in Seq(Nat) /\ stackSites \in Seq(Nat)
      /\ Listed(image, "Global", row, globalSites) /\ Listed(image, "Stack", row, stackSites)
  BY DEF AddGlobal, AddStack, SkipImport, HasImport, Step, BlocksInv, BlocksTyped,
         SitesInv, ImportsTaken
<1>2. Imp = image.imports[row + 1] /\ Imp.va \in Nat /\ row' <= Len(image.imports)
  BY <1>1, ImageFacts DEF Imp
<1>3. CASE AddGlobal
  <2>1. /\ Matches("Global", row + 1) /\ ~Matches("Stack", row + 1)
        /\ globalSites' = Append(globalSites, Imp.va) /\ stackSites' = stackSites
    BY <1>2, <1>3 DEF AddGlobal, Matches
  <2>2. Listed(image, "Global", row + 1, globalSites') /\ Listed(image, "Stack", row + 1, stackSites')
    BY <1>1, <1>2, <2>1, ListedMore, ListedSame
  <2>3. globalSites' \in Seq(Nat)
    BY <1>1, <1>2, <2>1
  <2> QED BY <1>1, <1>2, <2>1, <2>2, <2>3, SitesFrame
<1>4. CASE AddStack
  <2>1. /\ Matches("Stack", row + 1) /\ ~Matches("Global", row + 1)
        /\ stackSites' = Append(stackSites, Imp.va) /\ globalSites' = globalSites
    BY <1>2, <1>4 DEF AddStack, Matches
  <2>2. Listed(image, "Global", row + 1, globalSites') /\ Listed(image, "Stack", row + 1, stackSites')
    BY <1>1, <1>2, <2>1, ListedMore, ListedSame
  <2>3. stackSites' \in Seq(Nat)
    BY <1>1, <1>2, <2>1
  <2> QED BY <1>1, <1>2, <2>1, <2>2, <2>3, SitesFrame
<1>5. CASE SkipImport
  <2>1. /\ ~Matches("Stack", row + 1) /\ ~Matches("Global", row + 1)
        /\ stackSites' = stackSites /\ globalSites' = globalSites
    BY <1>2, <1>5 DEF SkipImport, Matches
  <2>2. Listed(image, "Global", row + 1, globalSites') /\ Listed(image, "Stack", row + 1, stackSites')
    BY <1>1, <2>1, ListedSame
  <2> QED BY <1>1, <1>2, <2>1, <2>2, SitesFrame
<1> QED BY <1>3, <1>4, <1>5

(* Once both lists are whole they stay as they are. *)
LEMMA SitesKept ==
  ASSUME SitesInv, UNCHANGED <<image, globalSites, stackSites>>,
         blockPhase \notin {"imports", "none"} \/ (blockPhase = "imports" /\ row = Len(image.imports)),
         blockPhase' # "imports",
         blockPhase' = "none" => globalSites = <<>> /\ stackSites = <<>>
  PROVE  SitesInv'
<1>1. /\ Listed(image, "Global", Len(image.imports), globalSites)
      /\ Listed(image, "Stack", Len(image.imports), stackSites)
  BY DEF SitesInv, ImportsTaken
<1>2. /\ Listed(image, "Global", Len(image.imports), globalSites)'
      /\ Listed(image, "Stack", Len(image.imports), stackSites)'
  <2>1. image' = image /\ globalSites' = globalSites /\ stackSites' = stackSites
    OBVIOUS
  <2>2. /\ BindsUpTo(image, "Global", Len(image.imports))' = BindsUpTo(image, "Global", Len(image.imports))
        /\ BindsUpTo(image, "Stack", Len(image.imports))' = BindsUpTo(image, "Stack", Len(image.imports))
    BY <2>1 DEF BindsUpTo
  <2>3. Listed(image, "Global", Len(image.imports), globalSites)'
    BY <1>1, <2>1, <2>2 DEF Listed
  <2>4. Listed(image, "Stack", Len(image.imports), stackSites)'
    BY <1>1, <2>1, <2>2 DEF Listed
  <2> QED BY <2>3, <2>4
<1>3. ImportsTaken' = Len(image'.imports)
  BY DEF ImportsTaken
<1> QED BY <1>2, <1>3 DEF SitesInv

LEMMA BuildStep ==
  ASSUME IsImage(image), BlocksInv, Narrow \/ EndImports \/ IndexRebases
  PROVE  BlocksInv'
<1> USE DEF BlocksInv
<1>1. /\ UNCHANGED <<image, globalSites, stackSites, references, literals>>
      /\ row' = 0 /\ blockPhase \in {"imports", "build"}
      /\ blockPhase' \in {"none", "build", "references"}
  BY DEF Narrow, EndImports, IndexRebases, Goto
<1>2. blockRebases' \in [DOMAIN blockRebases' -> Nat]
  <2>1. CASE IndexRebases
    BY <2>1, RebasesType DEF IndexRebases
  <2>2. CASE Narrow \/ EndImports
    BY <2>2 DEF Narrow, EndImports, BlocksTyped
  <2> QED BY <2>1, <2>2
<1>3. BlocksTyped'
  BY <1>1, <1>2 DEF BlocksTyped
<1>4. SitesInv'
  <2>1. CASE Narrow
    BY <2>1 DEF Narrow, Goto, SitesInv
  <2>2. CASE EndImports
    <3>1. blockPhase' = "none" => globalSites = <<>> /\ stackSites = <<>>
      BY <2>2 DEF EndImports, Goto
    <3> QED BY <1>1, <2>2, <3>1, SitesKept DEF EndImports
  <2>3. CASE IndexRebases
    BY <1>1, <2>3, SitesKept DEF IndexRebases, Goto
  <2> QED BY <2>1, <2>2, <2>3
<1>5. references = <<>> /\ literals = <<>>
  <2>1. Len(references) = 0 /\ references \in Seq(Reference)
    BY <1>1 DEF BlocksTyped, ReferencesInv, Yielded
  <2> QED BY <1>1, <2>1 DEF LiteralsInv
<1>6. Len(globalSites) \in Nat
  BY DEF BlocksTyped
<1>7. ReferencesInv' /\ LiteralsInv'
  BY <1>1, <1>5, <1>6 DEF OneByOne, ReferencesInv, LiteralsInv, Yielded
<1> QED BY <1>3, <1>4, <1>7

LEMMA ReferencesStep ==
  ASSUME IsImage(image), BlocksInv, YieldGlobal \/ TurnToStack \/ YieldStack \/ EndReferences
  PROVE  BlocksInv'
<1> USE DEF BlocksInv
<1>1. /\ UNCHANGED <<image, globalSites, stackSites, blockRebases, literals>>
      /\ row' \in {0, row + 1} /\ blockPhase \in {"references", "stack"}
      /\ blockPhase' \in {"references", "stack", "literals"}
  BY DEF YieldGlobal, TurnToStack, YieldStack, EndReferences, Goto, Step
<1>2. /\ row \in Nat /\ globalSites \in Seq(Nat) /\ stackSites \in Seq(Nat)
      /\ references \in Seq(Reference) /\ Len(references) \in Nat
      /\ Len(globalSites) \in Nat /\ Len(stackSites) \in Nat
  BY DEF BlocksTyped
<1>3. SitesInv'
  BY <1>1, SitesKept
<1>4. literals = <<>>
  BY <1>1 DEF LiteralsInv
<1>5. WholeUpTo(image, globalSites, 0) = {}
  BY DEF WholeUpTo
<1>6. RowsFor(image, globalSites, 0, literals)
  <2> DEFINE at == [i \in 1 .. 0 |-> 0]
  <2>1. at \in Listings({}, 0)
    BY ListingNone
  <2> HIDE DEF at
  <2> QED BY <1>4, <1>5, <2>1 DEF RowsFor
<1>7. LiteralsInv'
  <2>1. CASE blockPhase' # "literals"
    BY <1>1, <1>4, <2>1 DEF LiteralsInv
  <2>2. CASE blockPhase' = "literals"
    <3>1. row' = 0
      BY <2>2, <1>1 DEF YieldGlobal, TurnToStack, YieldStack, EndReferences, Goto, Step
    <3>2. RowsFor(image, globalSites, 0, literals)'
      BY <1>1, <1>6
    <3> QED BY <1>1, <1>2, <2>2, <3>1, <3>2 DEF LiteralsInv
  <2> QED BY <2>1, <2>2
<1>8. CASE YieldGlobal
  <2> DEFINE new == [kind |-> "Global", slot |-> globalSites[row + 1]]
  <2>1. /\ blockPhase = "references" /\ blockPhase' = "references" /\ row' = row + 1
        /\ row < Len(globalSites) /\ references' = Append(references, new)
    BY <1>8 DEF YieldGlobal, Step
  <2>2. new \in Reference
    BY <1>2, <2>1 DEF Reference
  <2>3. /\ references' \in Seq(Reference) /\ Len(references') = Len(references) + 1
        /\ \A k \in 1 .. Len(references) : references'[k] = references[k]
        /\ references'[Len(references) + 1] = new
    BY <1>2, <2>1, <2>2, AppendFacts
  <2>4. Len(references) = row
    BY <2>1 DEF OneByOne, ReferencesInv, Yielded
  <2>5. ReferencesInv'
    <3>1. ASSUME NEW i \in 1 .. Len(references')
          PROVE  references'[i] = [kind |-> "Global", slot |-> globalSites[i]]
                 /\ i <= Len(globalSites)
      <4>1. CASE i <= Len(references)
        <5>1. i \in 1 .. Len(references) /\ references'[i] = references[i] /\ i <= Len(globalSites)
          BY <1>2, <2>1, <2>3, <2>4, <4>1
        <5>2. OneByOne(globalSites, stackSites, references)
          BY DEF ReferencesInv
        <5> QED BY <5>1, <5>2 DEF OneByOne
      <4>2. CASE i = Len(references) + 1
        BY <1>2, <2>1, <2>3, <2>4, <4>2
      <4> QED BY <1>2, <2>3, <4>1, <4>2
    <3>2. OneByOne(globalSites, stackSites, references')
      BY <3>1 DEF OneByOne
    <3>3. Len(references') = Yielded'
      BY <1>1, <1>2, <2>1, <2>3, <2>4 DEF Yielded
    <3> QED BY <1>1, <1>2, <2>1, <3>2, <3>3 DEF ReferencesInv
  <2>6. BlocksTyped'
    BY <1>1, <1>2, <2>1, <2>3 DEF BlocksTyped
  <2> QED BY <1>3, <1>7, <2>5, <2>6
<1>9. CASE TurnToStack \/ EndReferences
  <2>1. /\ references' = references /\ row' = 0
        /\ \/ /\ blockPhase = "references" /\ blockPhase' = "stack"
              /\ row = Len(globalSites)
           \/ /\ blockPhase = "stack" /\ blockPhase' = "literals"
              /\ row >= Len(stackSites)
    BY <1>9 DEF TurnToStack, EndReferences, Goto
  <2>2. BlocksTyped'
    BY <1>1, <1>2, <2>1 DEF BlocksTyped
  <2>3. ReferencesInv'
    BY <1>1, <1>2, <2>1 DEF OneByOne, ReferencesInv, Yielded
  <2> QED BY <1>3, <1>7, <2>2, <2>3
<1>10. CASE YieldStack
  <2> DEFINE new == [kind |-> "Stack", slot |-> stackSites[row + 1]]
  <2>1. /\ blockPhase = "stack" /\ blockPhase' = "stack" /\ row' = row + 1
        /\ row < Len(stackSites) /\ references' = Append(references, new)
    BY <1>10 DEF YieldStack, Step
  <2>2. new \in Reference
    BY <1>2, <2>1 DEF Reference
  <2>3. /\ references' \in Seq(Reference) /\ Len(references') = Len(references) + 1
        /\ \A k \in 1 .. Len(references) : references'[k] = references[k]
        /\ references'[Len(references) + 1] = new
    BY <1>2, <2>1, <2>2, AppendFacts
  <2>4. Len(references) = Len(globalSites) + row
    BY <2>1 DEF OneByOne, ReferencesInv, Yielded
  <2>5. ReferencesInv'
    <3>1. ASSUME NEW i \in 1 .. Len(references')
          PROVE  references'[i] = IF i <= Len(globalSites)
                                  THEN [kind |-> "Global", slot |-> globalSites[i]]
                                  ELSE [kind |-> "Stack", slot |-> stackSites[i - Len(globalSites)]]
      <4>1. CASE i <= Len(references)
        <5>1. i \in 1 .. Len(references) /\ references'[i] = references[i]
          BY <1>2, <2>3, <4>1
        <5>2. OneByOne(globalSites, stackSites, references)
          BY DEF ReferencesInv
        <5> QED BY <5>1, <5>2 DEF OneByOne
      <4>2. CASE i = Len(references) + 1
        <5>1. ~(i <= Len(globalSites)) /\ i - Len(globalSites) = row + 1
          BY <1>2, <2>4, <4>2
        <5> QED BY <2>3, <4>2, <5>1
      <4> QED BY <1>2, <2>3, <4>1, <4>2
    <3>2. OneByOne(globalSites, stackSites, references')
      BY <3>1 DEF OneByOne
    <3>3. Len(references') = Yielded'
      BY <1>1, <1>2, <2>1, <2>3, <2>4 DEF Yielded
    <3> QED BY <1>1, <1>2, <2>1, <3>2, <3>3 DEF ReferencesInv
  <2>6. BlocksTyped'
    BY <1>1, <1>2, <2>1, <2>3 DEF BlocksTyped
  <2> QED BY <1>3, <1>7, <2>5, <2>6
<1> QED BY <1>8, <1>9, <1>10

(* The prefix behind a site, as the guards name it. *)
LEMMA WholeSite ==
  ASSUME IsImage(image), globalSites \in Seq(Nat), row \in Nat, row < Len(globalSites)
  PROVE  /\ Site \in Nat
         /\ Whole(image, Site) <=> \A part \in Prefix : ReadBytes(image, part[1], part[2])
<1>1. Site \in Nat
  BY DEF Site
<1> QED BY <1>1 DEF Whole, Prefix, Readable, ReservedAt

LEMMA LiteralsStep ==
  ASSUME IsImage(image), BlocksInv, DecodeLiteral \/ SkipLiteral \/ EndLiterals
  PROVE  BlocksInv'
<1> USE DEF BlocksInv
<1>1. /\ UNCHANGED <<image, globalSites, stackSites, blockRebases, references>>
      /\ row' \in {0, row + 1} /\ blockPhase = "literals"
      /\ blockPhase' \in {"literals", "done"}
  BY DEF DecodeLiteral, SkipLiteral, EndLiterals, HasSite, Goto, Step
<1>2. /\ row \in Nat /\ globalSites \in Seq(Nat) /\ Len(globalSites) \in Nat
      /\ literals \in Seq(LiteralRow) /\ Len(literals) \in Nat
      /\ blockRebases \in [DOMAIN blockRebases -> Nat]
      /\ row <= Len(globalSites)
  BY <1>1 DEF BlocksTyped, LiteralsInv
<1>3. SitesInv'
  BY <1>1, SitesKept
<1>4. ReferencesInv'
  BY <1>1 DEF OneByOne, ReferencesInv, Yielded
<1>5. PICK at \in Listings(WholeUpTo(image, globalSites, row), Len(literals)) :
        \A i \in 1 .. Len(literals) : literals[i].address = globalSites[at[i]]
  BY <1>1 DEF LiteralsInv, RowsFor
<1>6. row < Len(globalSites) =>
        /\ Whole(image, globalSites[row + 1]) => WholeUpTo(image, globalSites, row + 1) = WholeUpTo(image, globalSites, row) \cup {row + 1}
        /\ ~Whole(image, globalSites[row + 1]) => WholeUpTo(image, globalSites, row + 1) = WholeUpTo(image, globalSites, row)
  <2>1. 1 .. (row + 1) = (1 .. row) \cup {row + 1}
    BY <1>2
  <2> QED BY <2>1 DEF WholeUpTo
<1>7. CASE DecodeLiteral
  <2> DEFINE flags == Low(image, Site + WordSize)
             target == Pointer(image, blockRebases, Site + 3 * WordSize)
             new == Literal(Site, flags, target)
  <2>1. /\ row < Len(globalSites) /\ \A part \in Prefix : ReadBytes(image, part[1], part[2])
        /\ literals' = Append(literals, new)
        /\ row' = row + 1 /\ blockPhase' = "literals"
    BY <1>1, <1>7 DEF DecodeLiteral, HasSite, Step
  <2>2. Site = globalSites[row + 1] /\ Site \in Nat /\ Whole(image, Site)
    BY <1>2, <2>1, WholeSite DEF Site
  <2>3. flags \in Nat /\ target \in Nat
    BY <1>2, HalfTypes, PointerType DEF Pointer
  <2>4. new \in LiteralRow /\ new.address = Site
    <3> HIDE DEF flags, target
    <3> QED BY <1>2, <2>2, <2>3, LiteralType
  <2> HIDE DEF new
  <2>5. /\ literals' \in Seq(LiteralRow) /\ Len(literals') = Len(literals) + 1
        /\ \A k \in 1 .. Len(literals) : literals'[k] = literals[k]
        /\ literals'[Len(literals) + 1] = new
    BY <1>2, <2>1, <2>4, AppendFacts
  <2> DEFINE longer == [i \in 1 .. (Len(literals) + 1) |->
                          IF i <= Len(literals) THEN at[i] ELSE row + 1]
  <2>6. longer \in Listings(WholeUpTo(image, globalSites, row + 1), Len(literals'))
    <3> DEFINE S == WholeUpTo(image, globalSites, row)
               m == Len(literals)
    <3>1. S \in SUBSET Nat /\ m \in Nat /\ at \in Listings(S, m) /\ row + 1 \in Nat
      BY <1>2, <1>5 DEF WholeUpTo
    <3>2. \A k \in S : k < row + 1
      BY <1>2 DEF WholeUpTo
    <3>3. WholeUpTo(image, globalSites, row + 1) = S \cup {row + 1} /\ Len(literals') = m + 1
      BY <1>6, <2>1, <2>2, <2>5
    <3> HIDE DEF S, m
    <3>4. [i \in 1 .. (m + 1) |-> IF i <= m THEN at[i] ELSE row + 1]
            \in Listings(S \cup {row + 1}, m + 1)
      BY <3>1, <3>2, ListingMore
    <3> QED BY <3>3, <3>4 DEF m
  <2>7. \A i \in 1 .. Len(literals') : literals'[i].address = globalSites[longer[i]]
    <3> SUFFICES ASSUME NEW i \in 1 .. Len(literals')
                 PROVE  literals'[i].address = globalSites[longer[i]]
      OBVIOUS
    <3>1. CASE i <= Len(literals)
      <4>1. i \in 1 .. Len(literals) /\ longer[i] = at[i]
        BY <1>2, <2>5, <3>1
      <4>2. literals'[i] = literals[i] /\ literals[i].address = globalSites[at[i]]
        BY <1>5, <2>5, <4>1
      <4> QED BY <4>1, <4>2
    <3>2. CASE i = Len(literals) + 1
      BY <1>2, <2>2, <2>4, <2>5, <3>2
    <3> QED BY <1>2, <2>5, <3>1, <3>2
  <2>8. RowsFor(image, globalSites, row + 1, literals')
    <3> HIDE DEF longer
    <3> QED BY <2>6, <2>7 DEF RowsFor
  <2>9. LiteralsInv'
    BY <1>1, <1>2, <2>1, <2>8 DEF LiteralsInv
  <2>10. BlocksTyped'
    BY <1>1, <1>2, <2>1, <2>5 DEF BlocksTyped
  <2> QED BY <1>3, <1>4, <2>9, <2>10
<1>8. CASE SkipLiteral
  <2>1. /\ row < Len(globalSites) /\ ~\A part \in Prefix : ReadBytes(image, part[1], part[2])
        /\ literals' = literals /\ row' = row + 1 /\ blockPhase' = "literals"
    BY <1>1, <1>8 DEF SkipLiteral, HasSite, Step
  <2>2. ~Whole(image, globalSites[row + 1])
    BY <1>2, <2>1, WholeSite DEF Site
  <2>3. RowsFor(image, globalSites, row + 1, literals)
    BY <1>5, <1>6, <2>1, <2>2 DEF RowsFor
  <2>5. LiteralsInv'
    BY <1>1, <1>2, <2>1, <2>3 DEF LiteralsInv
  <2>6. BlocksTyped'
    BY <1>1, <1>2, <2>1 DEF BlocksTyped
  <2> QED BY <1>3, <1>4, <2>5, <2>6
<1>9. CASE EndLiterals
  <2>1. row = Len(globalSites) /\ literals' = literals /\ row' = 0 /\ blockPhase' = "done"
    BY <1>9 DEF EndLiterals, Goto
  <2>2. RowsFor(image, globalSites, Len(globalSites), literals)
    BY <1>5, <2>1 DEF RowsFor
  <2>3. LiteralsInv'
    BY <1>1, <2>1, <2>2 DEF LiteralsInv
  <2>4. BlocksTyped'
    BY <1>1, <1>2, <2>1 DEF BlocksTyped
  <2> QED BY <1>3, <1>4, <2>3, <2>4
<1> QED BY <1>7, <1>8, <1>9

LEMMA BlocksStep ==
  ASSUME IsImage(image), BlocksInv, BlockStep
  PROVE  BlocksInv'
BY ImportsStep, BuildStep, ReferencesStep, LiteralsStep DEF BlockStep

LEMMA BlocksKept ==
  ASSUME BlocksInv, UNCHANGED blockVars
  PROVE  BlocksInv'
<1> USE DEF blockVars
<1>1. BlocksTyped'
  BY DEF BlocksInv, BlocksTyped
<1>2. SitesInv'
  BY DEF BlocksInv, SitesInv, ImportsTaken
<1>3. ReferencesInv'
  BY DEF BlocksInv, ReferencesInv, Yielded
<1>4. LiteralsInv'
  BY DEF BlocksInv, LiteralsInv
<1> QED BY <1>1, <1>2, <1>3, <1>4 DEF BlocksInv
-----------------------------------------------------------------------------
(* Strings *)

LEMMA RestPassed ==
  ASSUME NEW table \in Seq(SectionRow), NEW rest \in Seq(SectionRow), rest # <<>>,
         RestOf(table, rest), ~Wanted(Head(rest))
  PROVE  RestOf(table, Tail(rest))
<1>1. /\ Len(table) \in Nat /\ Len(rest) \in Nat /\ Len(rest) > 0
      /\ Head(rest) = rest[1] /\ Len(Tail(rest)) = Len(rest) - 1
      /\ \A k \in 1 .. (Len(rest) - 1) : Tail(rest)[k] = rest[k + 1]
  BY SeqFacts, TailFacts
<1> DEFINE gone == Len(table) - Len(rest)
<1>2. /\ gone \in Nat /\ Len(table) - Len(Tail(rest)) = gone + 1
      /\ \A i \in 1 .. Len(rest) : rest[i] = table[gone + i]
      /\ \A r \in 1 .. gone : ~Wanted(table[r])
  BY <1>1 DEF RestOf
<1>3. ASSUME NEW i \in 1 .. Len(Tail(rest)) PROVE Tail(rest)[i] = table[(gone + 1) + i]
  <2>1. i + 1 \in 1 .. Len(rest) /\ Tail(rest)[i] = rest[i + 1]
    BY <1>1
  <2>2. rest[i + 1] = table[gone + (i + 1)]
    BY <1>2, <2>1
  <2>3. gone + (i + 1) = (gone + 1) + i
    BY <1>2
  <2> QED BY <2>1, <2>2, <2>3
<1>4. ASSUME NEW r \in 1 .. (gone + 1) PROVE ~Wanted(table[r])
  <2>1. CASE r \in 1 .. gone
    BY <1>2, <2>1
  <2>2. CASE r = gone + 1
    <3>1. 1 \in 1 .. Len(rest)
      BY <1>1
    <3> QED BY <1>1, <1>2, <2>2, <3>1
  <2>3. r \in 1 .. gone \/ r = gone + 1
    <3> HIDE DEF gone
    <3> QED BY <1>2
  <2> QED BY <2>1, <2>2, <2>3
<1> HIDE DEF gone
<1> QED BY <1>1, <1>2, <1>3, <1>4 DEF RestOf

LEMMA RestWhole ==
  ASSUME NEW table \in Seq(SectionRow)
  PROVE  RestOf(table, table)
<1>1. Len(table) \in Nat /\ Len(table) - Len(table) = 0
  BY SeqFacts
<1> QED BY <1>1 DEF RestOf

LEMMA RestNone ==
  ASSUME NEW table \in Seq(SectionRow), RestOf(table, <<>>)
  PROVE  NoneIn(table)
<1>1. Len(table) \in Nat /\ Len(<<>>) = 0 /\ Len(table) - 0 = Len(table)
  BY SeqFacts
<1> QED BY <1>1 DEF RestOf, NoneIn

LEMMA StringsInit == Init => StringsInv
<1> SUFFICES ASSUME Init PROVE StringsInv
  OBVIOUS
<1> USE DEF Init, CfInit
<1>1. IsImage(image)
  BY ImagesAssumption
<1>2. Len(image.tables) \in Nat
  BY <1>1, ImageFacts
<1>3. StringsTyped
  BY <1>2 DEF StringsTyped
<1>4. FindInv
  BY DEF FindInv
<1>5. RowsInv
  BY StrideType DEF RowsInv
<1> QED BY <1>3, <1>4, <1>5 DEF StringsInv

(* SectionIter while nothing is found. *)
LEMMA FindStep ==
  ASSUME IsImage(image), StringsInv, NextTable \/ SkipMalformed \/ PassSection
  PROVE  StringsInv'
<1>1. /\ image' = image /\ cfPhase = "find" /\ cfPhase' = "find"
      /\ UNCHANGED <<section, cfRebases, cursor, strings>>
  BY DEF NextTable, SkipMalformed, PassSection, Finding, Unfound
<1>2. /\ taken \in 0 .. Len(image.tables) /\ Len(image.tables) \in Nat
      /\ \A t \in 1 .. Len(image.tables) : image.tables[t] \in Seq(SectionRow)
      /\ current \in Seq(SectionRow)
  BY ImageFacts DEF StringsInv, StringsTyped
<1>3. RowsInv'
  BY <1>1 DEF StringsInv, RowsInv
<1>4. /\ taken = 0 => current = <<>>
      /\ taken > 0 => RestOf(image.tables[taken], current)
      /\ \A t \in 1 .. (taken - 1) : NoneIn(image.tables[t])
  BY DEF StringsInv, FindInv
<1>5. CASE NextTable
  <2>1. /\ current = <<>> /\ taken < Len(image.tables) /\ taken' = taken + 1
        /\ current' = image.tables[taken + 1]
    BY <1>5 DEF NextTable
  <2>2. /\ taken' \in 1 .. Len(image.tables) /\ current' = image.tables[taken']
        /\ current' \in Seq(SectionRow)
    BY <1>2, <2>1
  <2>3. RestOf(image.tables[taken'], current')
    BY <2>2, RestWhole
  <2>4. ASSUME NEW t \in 1 .. (taken' - 1) PROVE NoneIn(image.tables[t])
    <3>1. CASE t \in 1 .. (taken - 1)
      BY <1>4, <3>1
    <3>2. CASE t = taken
      BY <1>2, <1>4, <2>1, <3>2, RestNone
    <3> QED BY <1>2, <2>1, <3>1, <3>2
  <2>5. FindInv'
    <3>1. taken' # 0 /\ cfPhase' \notin {"walk", "done", "none"}
      BY <1>1, <2>2
    <3>2. RestOf(image'.tables[taken'], current')
      BY <1>1, <2>3
    <3>3. \A t \in 1 .. (taken' - 1) : NoneIn(image'.tables[t])
      BY <1>1, <2>4
    <3> QED BY <3>1, <3>2, <3>3 DEF FindInv
  <2>6. StringsTyped'
    BY <1>1, <2>2 DEF StringsInv, StringsTyped
  <2> QED BY <1>3, <2>5, <2>6 DEF StringsInv
<1>6. CASE SkipMalformed \/ PassSection
  <2>1. /\ current # <<>> /\ current' = Tail(current) /\ taken' = taken
        /\ ~Wanted(Head(current))
    BY <1>6 DEF SkipMalformed, PassSection, Named, Wanted
  <2>2. taken > 0 /\ taken \in 1 .. Len(image.tables)
    BY <1>2, <1>4, <2>1
  <2>3. RestOf(image.tables[taken], Tail(current)) /\ Tail(current) \in Seq(SectionRow)
    BY <1>2, <1>4, <2>1, <2>2, RestPassed, TailFacts
  <2>4. FindInv'
    BY <1>1, <1>4, <2>1, <2>2, <2>3 DEF FindInv
  <2>5. StringsTyped'
    BY <1>1, <2>1, <2>3 DEF StringsInv, StringsTyped
  <2> QED BY <1>3, <2>4, <2>5 DEF StringsInv
<1> QED BY <1>5, <1>6

LEMMA FoundStep ==
  ASSUME IsImage(image), StringsInv, TakeSection \/ NoSection
  PROVE  StringsInv'
<1>1. /\ UNCHANGED <<image, taken, current, cursor, strings>> /\ cfPhase = "find"
      /\ strings = <<>> /\ cursor = 0
  BY DEF TakeSection, NoSection, Finding, StringsInv, RowsInv
<1>2. /\ taken \in 0 .. Len(image.tables) /\ Len(image.tables) \in Nat
      /\ \A t \in 1 .. Len(image.tables) : image.tables[t] \in Seq(SectionRow)
      /\ current \in Seq(SectionRow)
  BY ImageFacts DEF StringsInv, StringsTyped
<1>3. /\ taken = 0 => current = <<>>
      /\ taken > 0 => RestOf(image.tables[taken], current)
      /\ \A t \in 1 .. (taken - 1) : NoneIn(image.tables[t])
  BY DEF StringsInv, FindInv
<1>4. Stride \in Nat /\ Len(strings) * Stride = 0
  BY <1>1, StrideType
<1>5. CASE TakeSection
  <2>1. /\ current # <<>> /\ Wanted(Head(current)) /\ section' = Head(current)
        /\ cfRebases' = RebasesByVa(image) /\ cfPhase' = "walk"
    BY <1>5 DEF TakeSection, Named, Wanted
  <2>2. Head(current) \in SectionRow
    BY <1>2, <2>1, TailFacts
  <2>3. section' \in CfSection /\ section'.size \in Nat
    BY <2>1, <2>2 DEF SectionRow, Wanted, CfSection
  <2>4. cfRebases' \in [DOMAIN cfRebases' -> Nat]
    BY <2>1, RebasesType
  <2>5. StringsTyped'
    BY <1>1, <2>1, <2>3, <2>4 DEF StringsInv, StringsTyped
  <2>6. taken > 0
    BY <1>2, <1>3, <2>1
  <2>7. FindInv'
    BY <1>1, <1>3, <2>1, <2>6 DEF FindInv
  <2>8. RowsInv'
    BY <1>1, <1>4, <2>1, <2>3 DEF RowsInv
  <2> QED BY <2>5, <2>7, <2>8 DEF StringsInv
<1>6. CASE NoSection
  <2>1. /\ cfPhase' = "none" /\ UNCHANGED <<section, cfRebases>>
        /\ ~image.is64 \/ (current = <<>> /\ taken = Len(image.tables))
    BY <1>6 DEF NoSection
  <2>2. StringsTyped'
    BY <1>1, <2>1 DEF StringsInv, StringsTyped
  <2>3. ASSUME image.is64, NEW t \in 1 .. Len(image.tables) PROVE NoneIn(image.tables[t])
    <3>1. CASE t \in 1 .. (taken - 1)
      BY <1>3, <3>1
    <3>2. CASE t = taken
      BY <1>2, <1>3, <2>1, <2>3, <3>2, RestNone
    <3> QED BY <1>2, <2>1, <2>3, <3>1, <3>2
  <2>4. FindInv'
    BY <1>1, <1>3, <2>1, <2>3 DEF FindInv
  <2>5. RowsInv'
    BY <1>1, <1>4, <2>1 DEF RowsInv
  <2> QED BY <2>2, <2>4, <2>5 DEF StringsInv
<1> QED BY <1>5, <1>6

LEMMA WalkStep ==
  ASSUME IsImage(image), StringsInv, NextString \/ EndStrings
  PROVE  StringsInv'
<1>1. /\ UNCHANGED <<image, taken, current, section, cfRebases>> /\ cfPhase = "walk"
      /\ cfPhase' \in {"walk", "done"}
  BY DEF NextString, EndStrings
<1>2. /\ section \in CfSection /\ cursor \in Nat /\ strings \in Seq(StringRow)
      /\ cfRebases \in [DOMAIN cfRebases -> Nat] /\ Len(strings) \in Nat
      /\ section.size \in Nat /\ section.address \in Nat
  <2>1. section \in CfSection /\ strings \in Seq(StringRow)
    BY <1>1 DEF StringsInv, StringsTyped
  <2>2. Len(strings) \in Nat /\ section.size \in Nat /\ section.address \in Nat
    BY <2>1 DEF CfSection
  <2> QED BY <2>1, <2>2 DEF StringsInv, StringsTyped
<1>3. FindInv'
  BY <1>1 DEF StringsInv, FindInv
<1>4. /\ cursor = Len(strings) * Stride /\ cursor <= section.size
      /\ \A i \in 1 .. Len(strings) :
           strings[i].address = section.address + (i - 1) * Stride
  BY <1>1 DEF StringsInv, RowsInv
<1>5. Stride \in Nat
  BY StrideType
<1>6. CASE NextString
  <2>1. /\ cfPhase' = "walk" /\ cursor + Stride <= section.size
        /\ strings' = Append(strings, Decoded) /\ cursor' = cursor + Stride
    BY <1>6 DEF NextString
  <2>2. Decoded \in StringRow /\ Decoded.address = section.address + cursor
    BY <1>2, DecodedType
  <2>3. /\ strings' \in Seq(StringRow) /\ Len(strings') = Len(strings) + 1
        /\ \A k \in 1 .. Len(strings) : strings'[k] = strings[k]
        /\ strings'[Len(strings) + 1] = Decoded
    BY <1>2, <2>1, <2>2, AppendFacts
  <2>4. StringsTyped'
    BY <1>1, <1>2, <1>5, <2>1, <2>3 DEF StringsInv, StringsTyped
  <2>5. (Len(strings) + 1) * Stride = Len(strings) * Stride + Stride
    BY <1>2, <1>5
  <2>6. ASSUME NEW i \in 1 .. Len(strings')
        PROVE  strings'[i].address = section.address + (i - 1) * Stride
    <3>1. CASE i \in 1 .. Len(strings)
      BY <1>4, <2>3, <3>1
    <3>2. CASE i = Len(strings) + 1
      BY <1>2, <1>4, <2>2, <2>3, <3>2
    <3> QED BY <1>2, <2>3, <3>1, <3>2
  <2>7. RowsInv'
    BY <1>1, <1>4, <2>1, <2>3, <2>5, <2>6 DEF RowsInv
  <2> QED BY <1>3, <2>4, <2>7 DEF StringsInv
<1>7. CASE EndStrings
  <2>1. /\ cfPhase' = "done" /\ cursor + Stride > section.size
        /\ UNCHANGED <<cursor, strings>>
    BY <1>7 DEF EndStrings
  <2>2. StringsTyped'
    BY <1>1, <1>2, <2>1 DEF StringsInv, StringsTyped
  <2>3. RowsInv'
    BY <1>1, <1>4, <2>1 DEF RowsInv
  <2> QED BY <1>3, <2>2, <2>3 DEF StringsInv
<1> QED BY <1>6, <1>7

LEMMA StringsStep ==
  ASSUME IsImage(image), StringsInv, CfStep
  PROVE  StringsInv'
BY FindStep, FoundStep, WalkStep DEF CfStep

LEMMA StringsKept ==
  ASSUME StringsInv, UNCHANGED cfVars
  PROVE  StringsInv'
<1> USE DEF cfVars
<1>1. StringsTyped'
  BY DEF StringsInv, StringsTyped
<1>2. FindInv'
  BY DEF StringsInv, FindInv
<1>3. RowsInv'
  BY DEF StringsInv, RowsInv
<1> QED BY <1>1, <1>2, <1>3 DEF StringsInv
-----------------------------------------------------------------------------
(* Both *)

LEMMA ObjectsInit == Init => ObjectsInv
<1>1. Init => IsImage(image)
  BY ImagesAssumption DEF Init
<1> QED BY <1>1, BlocksInit, StringsInit DEF ObjectsInv

LEMMA ObjectsStep == ObjectsInv /\ [Next]_vars => ObjectsInv'
<1> SUFFICES ASSUME ObjectsInv, [Next]_vars PROVE ObjectsInv'
  OBVIOUS
<1>1. IsImage(image) /\ BlocksInv /\ StringsInv
  BY DEF ObjectsInv
<1>2. CASE Blocks
  <2>1. BlockStep /\ UNCHANGED cfVars
    BY <1>2 DEF Blocks, BlockStep, cfVars, Narrow, EndImports, IndexRebases, AddGlobal,
                AddStack, SkipImport, YieldGlobal, TurnToStack, YieldStack,
                EndReferences, DecodeLiteral, SkipLiteral, EndLiterals
  <2>2. image' = image
    BY <2>1 DEF cfVars
  <2> QED BY <1>1, <2>1, <2>2, BlocksStep, StringsKept DEF ObjectsInv
<1>3. CASE Strings
  <2>1. CfStep /\ UNCHANGED blockVars
    BY <1>3 DEF Strings, CfStep, blockVars, NextTable, SkipMalformed, PassSection, Unfound,
                TakeSection, NoSection, NextString, EndStrings
  <2>2. image' = image
    BY <2>1 DEF blockVars
  <2> QED BY <1>1, <2>1, <2>2, StringsStep, BlocksKept DEF ObjectsInv
<1>4. CASE UNCHANGED vars
  <2>1. UNCHANGED cfVars /\ UNCHANGED blockVars /\ image' = image
    BY <1>4 DEF vars, cfVars, blockVars
  <2> QED BY <1>1, <2>1, StringsKept, BlocksKept DEF ObjectsInv
<1> QED BY <1>2, <1>3, <1>4 DEF Next, Returned

LEMMA ObjectsAlways == Spec => []ObjectsInv
BY ObjectsInit, ObjectsStep, PTL DEF Spec

(* Whatever bytes the image has where a literal, a descriptor or a         *)
(* quadruple is expected, the rows of both runtimes are numbers, texts of  *)
(* the file and None.                                                      *)
THEOREM TypeCorrect == Spec => []TypeOK
<1>1. ObjectsInv => TypeOK
  BY DEF ObjectsInv, TypeOK, BlocksInv, StringsInv
<1> QED BY <1>1, ObjectsAlways, PTL

LEMMA BindsAreAll ==
  ASSUME IsImage(image), NEW anchor
  PROVE  BindsUpTo(image, anchor, Len(image.imports)) = Kept(anchor)
BY ImageFacts DEF BindsUpTo, Kept, Anchored

(* block.rs: ReferenceIter yields "Global then Stack, in bind order": one  *)
(* reference for each bind of the two anchor symbols whose library is      *)
(* named by a string of the file and no other, and blocks() is None only   *)
(* if there is no such bind.  Nothing comes out for a bind whose library   *)
(* is one of dyld's special ordinals, against the "every" of block.rs:316. *)
THEOREM ReferencesOrdered == Spec => []ReferencesInOrder
<1>1. ASSUME ObjectsInv, blockPhase = "none", image.is64
      PROVE  Kept("Global") = {} /\ Kept("Stack") = {}
  <2>1. /\ Listed(image, "Global", Len(image.imports), <<>>)
        /\ Listed(image, "Stack", Len(image.imports), <<>>)
    BY <1>1 DEF ObjectsInv, BlocksInv, SitesInv, ImportsTaken
  <2>2. ASSUME NEW anchor, Listed(image, anchor, Len(image.imports), <<>>)
        PROVE  Kept(anchor) = {}
    <3>1. PICK at \in Listings(Kept(anchor), 0) : TRUE
      BY <1>1, <2>2, BindsAreAll DEF Listed, ObjectsInv
    <3> QED BY <3>1 DEF Listings
  <2> QED BY <2>1, <2>2
<1>2. ASSUME ObjectsInv, blockPhase \in {"literals", "done"}
      PROVE  \E n \in 0 .. Len(references) :
               \E global \in Listings(Kept("Global"), n),
                  stack \in Listings(Kept("Stack"), Len(references) - n) :
                 \A i \in DOMAIN references :
                   references[i] = IF i <= n THEN Bind("Global", global[i])
                                             ELSE Bind("Stack", stack[i - n])
  <2> USE <1>2
  <2> DEFINE n == Len(globalSites)
             m == Len(stackSites)
  <2>1. IsImage(image) /\ BlocksInv
    BY DEF ObjectsInv
  <2>2. /\ n \in Nat /\ m \in Nat /\ Len(references) = n + m
        /\ DOMAIN references = 1 .. (n + m)
        /\ OneByOne(globalSites, stackSites, references)
    BY <2>1, SeqFacts DEF BlocksInv, BlocksTyped, ReferencesInv, Yielded
  <2>3. /\ Listed(image, "Global", Len(image.imports), globalSites)
        /\ Listed(image, "Stack", Len(image.imports), stackSites)
    BY <2>1 DEF BlocksInv, SitesInv, ImportsTaken
  <2>4. PICK global \in Listings(Kept("Global"), n) :
          \A i \in 1 .. n : globalSites[i] = image.imports[global[i]].va
    BY <2>1, <2>3, BindsAreAll DEF Listed
  <2>5. PICK stack \in Listings(Kept("Stack"), m) :
          \A i \in 1 .. m : stackSites[i] = image.imports[stack[i]].va
    BY <2>1, <2>3, BindsAreAll DEF Listed
  <2> HIDE DEF n, m
  <2>6. ASSUME NEW i \in 1 .. (n + m)
        PROVE  references[i] = IF i <= n THEN Bind("Global", global[i])
                                         ELSE Bind("Stack", stack[i - n])
    <3>1. references[i] = IF i <= n THEN [kind |-> "Global", slot |-> globalSites[i]]
                                    ELSE [kind |-> "Stack", slot |-> stackSites[i - n]]
      BY <2>2 DEF OneByOne, n
    <3>2. CASE i <= n
      <4>1. globalSites[i] = image.imports[global[i]].va
        BY <2>2, <2>4, <3>2
      <4> QED BY <3>1, <3>2, <4>1 DEF Bind
    <3>3. CASE ~(i <= n)
      <4>1. i - n \in 1 .. m
        BY <2>2, <3>3
      <4>2. stackSites[i - n] = image.imports[stack[i - n]].va
        BY <2>5, <4>1
      <4> QED BY <3>1, <3>3, <4>2 DEF Bind
    <3> QED BY <3>2, <3>3
  <2>7. n \in 0 .. Len(references) /\ Len(references) - n = m
    BY <2>2
  <2>8. stack \in Listings(Kept("Stack"), Len(references) - n)
    BY <2>5, <2>7
  <2> QED BY <2>2, <2>4, <2>6, <2>7, <2>8
<1>3. ObjectsInv => ReferencesInOrder
  BY <1>1, <1>2 DEF ReferencesInOrder
<1> QED BY <1>3, ObjectsAlways, PTL

(* block.rs: a literal that does not decode is not dropped.  There is one  *)
(* row for each kept global bind whose first words can be read, at its     *)
(* address and in bind order, whatever descriptor, flags and texts are     *)
(* there.                                                                  *)
THEOREM SitesHaveRows == Spec => []EverySiteHasRow
<1>1. ObjectsInv => EverySiteHasRow
  <2> SUFFICES ASSUME ObjectsInv, blockPhase = "done"
               PROVE  \E at \in Listings(ReadableSites, Len(literals)) :
                        \A i \in DOMAIN literals :
                          literals[i].address = image.imports[at[i]].va
    BY DEF EverySiteHasRow
  <2> DEFINE n == Len(globalSites)
             m == Len(literals)
             T == WholeUpTo(image, globalSites, n)
  <2>1. IsImage(image) /\ BlocksInv
    BY DEF ObjectsInv
  <2>2. n \in Nat /\ m \in Nat /\ DOMAIN literals = 1 .. m
    BY <2>1, SeqFacts DEF BlocksInv, BlocksTyped
  <2>3. Listed(image, "Global", Len(image.imports), globalSites)
    BY <2>1 DEF BlocksInv, SitesInv, ImportsTaken
  <2>4. PICK g \in Listings(Kept("Global"), n) :
          \A i \in 1 .. n : globalSites[i] = image.imports[g[i]].va
    BY <2>1, <2>3, BindsAreAll DEF Listed
  <2>5. RowsFor(image, globalSites, n, literals)
    BY <2>1 DEF BlocksInv, LiteralsInv
  <2>6. PICK h \in Listings(T, m) : \A i \in 1 .. m : literals[i].address = globalSites[h[i]]
    BY <2>5 DEF RowsFor
  <2>7. T \in SUBSET (1 .. n) /\ Kept("Global") \in SUBSET Nat
    BY <2>1, ImageFacts DEF WholeUpTo, Kept, Anchored
  <2>8. {g[k] : k \in T} = ReadableSites
    <3>1. /\ \A k \in 1 .. n : g[k] \in Kept("Global")
          /\ \A x \in Kept("Global") : \E k \in 1 .. n : g[k] = x
      BY <2>4 DEF Listings
    <3>2. \A k \in 1 .. n : k \in T <=> g[k] \in ReadableSites
      BY <2>4, <3>1 DEF WholeUpTo, Whole, ReadableSites
    <3>3. ReadableSites \subseteq Kept("Global")
      BY DEF ReadableSites
    <3> HIDE DEF T
    <3> QED BY <2>7, <3>1, <3>2, <3>3
  <2> HIDE DEF n, m, T
  <2> DEFINE at == [i \in 1 .. m |-> g[h[i]]]
  <2>9. at \in Listings(ReadableSites, m)
    <3> DEFINE S == Kept("Global")
    <3>1. /\ S \in SUBSET Nat /\ n \in Nat /\ g \in Listings(S, n)
          /\ T \in SUBSET (1 .. n) /\ m \in Nat /\ h \in Listings(T, m)
      BY <2>2, <2>4, <2>6, <2>7
    <3> HIDE DEF S, at
    <3>2. [i \in 1 .. m |-> g[h[i]]] \in Listings({g[k] : k \in T}, m)
      BY <3>1, ListingThrough
    <3> QED BY <2>8, <3>2 DEF at
  <2>10. \A i \in 1 .. m : literals[i].address = image.imports[at[i]].va
    <3>1. \A i \in 1 .. m : h[i] \in 1 .. n
      BY <2>6, <2>7 DEF Listings
    <3> QED BY <2>4, <2>6, <3>1
  <2> HIDE DEF at
  <2> QED BY <2>2, <2>9, <2>10 DEF m
<1> QED BY <1>1, ObjectsAlways, PTL

LEMMA LeastIs ==
  ASSUME NEW T \in SUBSET Nat, NEW x \in T, \A y \in T : x <= y
  PROVE  Min(T) = x
<1>1. Min(T) \in T /\ \A y \in T : Min(T) <= y
  BY DEF Min
<1>2. Min(T) \in Nat /\ x \in Nat /\ Min(T) <= x /\ x <= Min(T)
  BY <1>1
<1> QED BY <1>2

(* The first wanted row of a table stands behind those that were passed.   *)
LEMMA FirstWanted ==
  ASSUME NEW table \in Seq(SectionRow), NEW rest \in Seq(SectionRow), rest # <<>>,
         RestOf(table, rest), Wanted(Head(rest)),
         NEW rows, rows = {r \in DOMAIN table : Wanted(table[r])}
  PROVE  rows # {} /\ table[Min(rows)] = Head(rest)
<1> DEFINE gone == Len(table) - Len(rest)
<1>1. /\ Len(table) \in Nat /\ Len(rest) \in Nat /\ Len(rest) > 0
      /\ DOMAIN table = 1 .. Len(table) /\ Head(rest) = rest[1]
  BY SeqFacts, TailFacts
<1>2. /\ gone \in Nat /\ gone + 1 \in 1 .. Len(table)
      /\ Head(rest) = table[gone + 1]
      /\ \A r \in 1 .. gone : ~Wanted(table[r])
  BY <1>1 DEF RestOf
<1> HIDE DEF gone
<1>3. gone + 1 \in rows /\ rows \in SUBSET Nat
  BY <1>1, <1>2
<1>4. ASSUME NEW r \in rows PROVE gone + 1 <= r
  <2>1. r \in 1 .. Len(table) /\ Wanted(table[r])
    BY <1>1
  <2>2. ~(r \in 1 .. gone)
    BY <1>2, <2>1
  <2> QED BY <1>1, <1>2, <2>1, <2>2
<1>5. Min(rows) = gone + 1
  BY <1>3, <1>4, LeastIs
<1> QED BY <1>2, <1>3, <1>5

(* binary.rs: the section that is decoded is the first of its name, in the *)
(* order of the segments and of the sections in each; malformed rows and   *)
(* tables without rows do not end the search.                              *)
THEOREM FirstSection == Spec => []FirstSectionTaken
<1>1. ObjectsInv => FirstSectionTaken
  <2> SUFFICES ASSUME ObjectsInv PROVE FirstSectionTaken
    OBVIOUS
  <2> DEFINE named(t) == {r \in DOMAIN image.tables[t] :
                            /\ ~image.tables[t][r].malformed
                            /\ image.tables[t][r].name = "cfstring"}
             with == {t \in DOMAIN image.tables : named(t) # {}}
  <2>1. IsImage(image) /\ StringsTyped /\ FindInv
    BY DEF ObjectsInv, StringsInv
  <2>2. /\ Len(image.tables) \in Nat /\ DOMAIN image.tables = 1 .. Len(image.tables)
        /\ \A t \in 1 .. Len(image.tables) :
             /\ image.tables[t] \in Seq(SectionRow)
             /\ DOMAIN image.tables[t] = 1 .. Len(image.tables[t])
        /\ taken \in 0 .. Len(image.tables) /\ current \in Seq(SectionRow)
    BY <2>1, ImageFacts DEF StringsTyped
  <2>3. \A t \in 1 .. Len(image.tables) :
          named(t) = {r \in DOMAIN image.tables[t] : Wanted(image.tables[t][r])}
    BY DEF Wanted
  <2>4. \A t \in 1 .. Len(image.tables) : NoneIn(image.tables[t]) => named(t) = {}
    BY <2>2, <2>3 DEF NoneIn
  <2>5. ASSUME cfPhase \in {"walk", "done"}
        PROVE  with # {} /\ section = image.tables[Min(with)][Min(named(Min(with)))]
    <3>1. /\ taken \in 1 .. Len(image.tables) /\ current # <<>>
          /\ RestOf(image.tables[taken], current)
          /\ Wanted(Head(current)) /\ section = Head(current)
          /\ \A t \in 1 .. (taken - 1) : NoneIn(image.tables[t])
      BY <2>1, <2>2, <2>5 DEF FindInv
    <3>2. named(taken) # {} /\ image.tables[taken][Min(named(taken))] = Head(current)
      <4> DEFINE rows == named(taken)
                 table == image.tables[taken]
      <4>1. rows = {r \in DOMAIN table : Wanted(table[r])} /\ table \in Seq(SectionRow)
        BY <2>2, <2>3, <3>1
      <4>2. RestOf(table, current)
        BY <3>1
      <4> HIDE DEF rows, table
      <4>3. rows # {} /\ table[Min(rows)] = Head(current)
        BY <2>2, <3>1, <4>1, <4>2, FirstWanted
      <4> QED BY <4>3 DEF rows, table
    <3>3. \A t \in 1 .. Len(image.tables) : t < taken => named(t) = {}
      BY <2>2, <2>4, <3>1
    <3>4. taken \in with /\ with \in SUBSET Nat /\ \A t \in with : taken <= t
      <4> HIDE DEF named
      <4> QED BY <2>2, <3>1, <3>2, <3>3
    <3>5. Min(with) = taken
      <4> HIDE DEF with
      <4> QED BY <3>4, LeastIs
    <3> QED BY <3>1, <3>2, <3>4, <3>5
  <2>6. ASSUME cfPhase = "none" PROVE with = {} \/ ~image.is64
    BY <2>1, <2>2, <2>4, <2>6 DEF FindInv
  <2> QED BY <2>5, <2>6 DEF FirstSectionTaken
<1> QED BY <1>1, ObjectsAlways, PTL

(* cfstring.rs: "the row count stays in sync with the on-disk quadruple    *)
(* count": in the end there is a row for each whole quadruple of the       *)
(* section, at its address, whatever its words and its text are.           *)
THEOREM QuadruplesHaveRows == Spec => []RowsMatchQuadruples
<1>1. ObjectsInv => RowsMatchQuadruples
  <2> SUFFICES ASSUME ObjectsInv, cfPhase = "done"
               PROVE  [i \in DOMAIN strings |-> strings[i].address]
                        = [i \in 1 .. section.size \div Stride |->
                             section.address + (i - 1) * Stride]
    BY DEF RowsMatchQuadruples
  <2>1. StringsTyped /\ RowsInv
    BY DEF ObjectsInv, StringsInv
  <2>2. section \in CfSection /\ strings \in Seq(StringRow)
    BY <2>1 DEF StringsTyped
  <2>3. Len(strings) \in Nat /\ DOMAIN strings = 1 .. Len(strings) /\ section.size \in Nat
    BY <2>2, SeqFacts DEF CfSection
  <2>4. /\ Len(strings) * Stride <= section.size
        /\ section.size < Len(strings) * Stride + Stride
        /\ \A i \in 1 .. Len(strings) :
             strings[i].address = section.address + (i - 1) * Stride
    BY <2>1, <2>3, StrideType DEF RowsInv
  <2>5. section.size \div Stride = Len(strings)
    <3> DEFINE size == section.size
               stride == Stride
               rows == Len(strings)
               whole == section.size \div Stride
    <3>1. size \in Nat /\ stride \in Nat \ {0} /\ rows \in Nat
      BY <2>3, StrideType
    <3>2. whole \in Nat /\ whole * stride <= size /\ size < whole * stride + stride
      BY <3>1
    <3>3. rows * stride <= size /\ size < rows * stride + stride
      BY <2>4
    <3> HIDE DEF size, stride, rows, whole
    <3>4. ASSUME NEW a \in Nat, NEW b \in Nat, a < b PROVE a * stride + stride <= b * stride
      <4>1. PICK c \in Nat : b = a + 1 + c
        <5>1. b - a - 1 \in Nat /\ b = a + 1 + (b - a - 1)
          BY <3>4
        <5> QED BY <5>1
      <4>2. (a + 1 + c) * stride = a * stride + stride + c * stride /\ c * stride \in Nat
        BY <3>1
      <4>3. a * stride \in Nat
        BY <3>1
      <4> QED BY <3>1, <4>1, <4>2, <4>3
    <3>5. whole * stride \in Nat /\ rows * stride \in Nat
      BY <3>1, <3>2
    <3>6. ~(whole < rows) /\ ~(rows < whole)
      BY <3>1, <3>2, <3>3, <3>4, <3>5
    <3>7. whole = rows
      BY <3>1, <3>2, <3>6
    <3> QED BY <3>7 DEF whole, rows
  <2> QED BY <2>3, <2>4, <2>5
<1> QED BY <1>1, ObjectsAlways, PTL
-----------------------------------------------------------------------------
(* The loop over the segments *)

PassedMiss == \A k \in 1 .. passed : ~Covers(segments[k], vmaddr)

MapIInv == MapTypeOK /\ OffsetIsBacked /\ PassedMiss /\ BackedIsFound

(* While nothing is returned there is no offset. *)
NoOffsetYet == status = "searching" => answer = NoOffset

MapInv == MapIInv /\ NoOffsetYet

(* The segment under the loop, and the sums over it, are numbers. *)
LEMMA SegFacts ==
  ASSUME MapTypeOK, NEW k \in DOMAIN segments
  PROVE  /\ segments[k] \in Segment
         /\ segments[k].vmaddr \in Nat /\ segments[k].vmsize \in Nat
         /\ segments[k].fileoff \in Nat /\ segments[k].filesize \in Nat
<1>1. segments \in Seq(Segment)
  BY DEF MapTypeOK
<1>2. segments[k] \in Segment
  BY <1>1
<1> QED
  BY <1>2, MapAssumption DEF Segment, Address

(* The loop looks at a segment of the table. *)
LEMMA SegInTable ==
  ASSUME MapTypeOK, Searching
  PROVE  passed \in Nat /\ passed + 1 \in DOMAIN segments /\ Len(segments) \in Nat
<1>1. segments \in Seq(Segment) /\ passed \in 0 .. Len(segments)
  BY DEF MapTypeOK
<1> QED
  BY <1>1 DEF Searching

(* The search starts in the invariant. *)
LEMMA MapInitInv == MapInit => MapInv
<1> SUFFICES ASSUME MapInit PROVE MapInv
  OBVIOUS
<1>1. segments \in Seq(Segment)
  BY TableAssumption DEF MapInit
<1>2. MapTypeOK
  BY <1>1 DEF MapInit, MapTypeOK
<1>3. OffsetIsBacked
  BY DEF MapInit, OffsetIsBacked
<1>4. PassedMiss
  BY DEF MapInit, PassedMiss
<1>5. BackedIsFound
  BY DEF MapInit, BackedIsFound
<1> QED
  BY <1>2, <1>3, <1>4, <1>5 DEF MapInv, MapIInv, NoOffsetYet, MapInit

(* Two disjoint segments do not share an address. *)
LEMMA OneHolder ==
  ASSUME MapTypeOK, Disjoint, NEW j \in DOMAIN segments, NEW k \in DOMAIN segments,
         Covers(segments[j], vmaddr), Backs(segments[k], vmaddr)
  PROVE  j = k
<1>1. /\ segments[j].vmaddr \in Nat /\ segments[j].vmsize \in Nat
      /\ segments[k].vmaddr \in Nat /\ segments[k].vmsize \in Nat
  BY SegFacts
<1>2. vmaddr \in Nat
  BY MapAssumption DEF MapTypeOK, Address
<1>3. segments[j].vmaddr <= vmaddr /\ vmaddr < segments[j].vmaddr + segments[j].vmsize
  BY DEF Covers
<1>4. segments[k].vmaddr <= vmaddr /\ vmaddr < segments[k].vmaddr + segments[k].vmsize
  BY DEF Backs
<1>5. SUFFICES ASSUME j # k PROVE FALSE
  OBVIOUS
<1>6. \/ segments[j].vmaddr + segments[j].vmsize <= segments[k].vmaddr
      \/ segments[k].vmaddr + segments[k].vmsize <= segments[j].vmaddr
  BY <1>5 DEF Disjoint
<1> QED
  BY <1>1, <1>2, <1>3, <1>4, <1>6

(* A segment that holds the byte on disk is one the loop would stop at. *)
LEMMA BackedIsCovered ==
  ASSUME MapTypeOK, NEW k \in DOMAIN segments, Backs(segments[k], vmaddr)
  PROVE  Covers(segments[k], vmaddr)
<1>1. /\ segments[k].vmaddr \in Nat /\ segments[k].vmsize \in Nat
      /\ segments[k].filesize \in Nat
  BY SegFacts
<1>2. vmaddr \in Nat
  BY MapAssumption DEF MapTypeOK, Address
<1> QED
  BY <1>1, <1>2 DEF Backs, Covers

(* The loop moves past a segment. *)
LEMMA PassStep == MapInv /\ Pass => MapInv'
<1> SUFFICES ASSUME MapInv, Pass PROVE MapInv'
  OBVIOUS
<1>1. MapTypeOK /\ PassedMiss /\ OffsetIsBacked /\ NoOffsetYet
  BY DEF MapInv, MapIInv
<1>2. passed \in Nat /\ passed + 1 \in DOMAIN segments /\ Len(segments) \in Nat
  BY <1>1, SegInTable DEF Pass
<1>3. /\ passed' = passed + 1
      /\ segments' = segments /\ vmaddr' = vmaddr /\ status' = status /\ answer' = answer
  BY DEF Pass
<1>4. MapTypeOK'
  <2>1. segments \in Seq(Segment)
    BY <1>1 DEF MapTypeOK
  <2>2. passed + 1 \in 0 .. Len(segments)
    BY <1>2, <2>1
  <2> QED
    BY <1>1, <1>3, <2>1, <2>2 DEF MapTypeOK
<1>5. OffsetIsBacked'
  BY <1>1, <1>3 DEF OffsetIsBacked, Backs
<1>6. PassedMiss'
  <2>1. ~Covers(segments[passed + 1], vmaddr)
    BY DEF Pass, Seg
  <2>2. \A k \in 1 .. (passed + 1) : k \in 1 .. passed \/ k = passed + 1
    BY <1>2
  <2>3. \A k \in 1 .. (passed + 1) : ~Covers(segments[k], vmaddr)
    BY <1>1, <2>1, <2>2 DEF PassedMiss
  <2> QED
    BY <1>3, <2>3 DEF PassedMiss, Covers
<1>7. status' = "searching"
  BY <1>3 DEF Pass, Searching
<1>8. BackedIsFound' /\ NoOffsetYet'
  BY <1>1, <1>3, <1>7 DEF BackedIsFound, NoOffsetYet, Pass, Searching
<1> QED
  BY <1>4, <1>5, <1>6, <1>8 DEF MapInv, MapIInv

(* The byte is found. *)
LEMMA HitStep == MapInv /\ Hit => MapInv'
<1> SUFFICES ASSUME MapInv, Hit PROVE MapInv'
  OBVIOUS
<1>1. MapTypeOK /\ PassedMiss
  BY DEF MapInv, MapIInv
<1>2. passed \in Nat /\ passed + 1 \in DOMAIN segments
  BY <1>1, SegInTable DEF Hit
<1> DEFINE seg == segments[passed + 1]
<1>3. /\ seg.vmaddr \in Nat /\ seg.vmsize \in Nat
      /\ seg.fileoff \in Nat /\ seg.filesize \in Nat
  BY <1>1, <1>2, SegFacts
<1>4. vmaddr \in Nat /\ Limit \in Nat
  BY <1>1, MapAssumption DEF MapTypeOK, Address
<1>5. Covers(seg, vmaddr) /\ vmaddr - seg.vmaddr < seg.filesize
  BY DEF Hit, Seg, Delta
<1>6. Backs(seg, vmaddr)
  BY <1>3, <1>4, <1>5 DEF Backs, Covers
<1>7. vmaddr - seg.vmaddr \in Nat
  BY <1>3, <1>4, <1>6 DEF Backs
<1>8. answer' = IF seg.fileoff + (vmaddr - seg.vmaddr) < Limit
                THEN seg.fileoff + (vmaddr - seg.vmaddr) ELSE NoOffset
  BY DEF Hit, Return, Seg, Delta
<1>9. /\ status' = "returned"
      /\ segments' = segments /\ vmaddr' = vmaddr /\ passed' = passed
  BY DEF Hit, Return
<1> HIDE DEF seg
<1>10. answer' \in Address \cup {NoOffset}
  BY <1>3, <1>4, <1>7, <1>8 DEF Address
<1>11. MapTypeOK'
  BY <1>1, <1>9, <1>10 DEF MapTypeOK
<1>12. answer' # NoOffset => answer' - seg.fileoff = vmaddr - seg.vmaddr
  BY <1>3, <1>4, <1>7, <1>8
<1>13. OffsetIsBacked'
  BY <1>2, <1>6, <1>9, <1>12 DEF OffsetIsBacked, Backs, seg
<1>14. PassedMiss'
  BY <1>1, <1>9 DEF PassedMiss, Covers
<1>15. ASSUME Disjoint, NEW k \in DOMAIN segments, Backs(segments[k], vmaddr),
              segments[k].fileoff + segments[k].filesize < Limit
       PROVE  answer' = segments[k].fileoff + (vmaddr - segments[k].vmaddr)
  <2>1. segments[k] = seg
    BY <1>1, <1>2, <1>5, <1>15, OneHolder DEF seg
  <2>2. seg.fileoff + seg.filesize < Limit
    BY <1>15, <2>1
  <2>3. seg.fileoff + (vmaddr - seg.vmaddr) < Limit
    BY <1>3, <1>4, <1>5, <1>7, <2>2
  <2> QED
    BY <1>8, <2>1, <2>3
<1>16. BackedIsFound'
  BY <1>9, <1>15 DEF BackedIsFound, Disjoint, Backs, SoundUpTo, Overflows
<1> QED
  BY <1>9, <1>11, <1>13, <1>14, <1>16 DEF MapInv, MapIInv, NoOffsetYet

(* A search that gives up does so where no segment holds the byte on disk, *)
(* unless a segment up to there overflows.                                 *)
LEMMA GiveUpStep ==
  ASSUME MapInv, Return(NoOffset), status = "searching",
         Disjoint => \A k \in DOMAIN segments :
                       SoundUpTo(k) => ~Backs(segments[k], vmaddr)
  PROVE  MapInv'
<1>1. MapTypeOK /\ PassedMiss
  BY DEF MapInv, MapIInv
<1>2. /\ status' = "returned" /\ answer' = NoOffset
      /\ segments' = segments /\ vmaddr' = vmaddr /\ passed' = passed
  BY DEF Return
<1>3. MapTypeOK'
  BY <1>1, <1>2 DEF MapTypeOK
<1>4. OffsetIsBacked' /\ PassedMiss'
  BY <1>1, <1>2 DEF OffsetIsBacked, PassedMiss, Covers
<1>5. BackedIsFound'
  BY <1>2 DEF BackedIsFound, Disjoint, Backs, SoundUpTo, Overflows
<1> QED
  BY <1>2, <1>3, <1>4, <1>5 DEF MapInv, MapIInv, NoOffsetYet

(* A segment that leaves the address space ends the search. *)
LEMMA AbortStep == MapInv /\ Abort => MapInv'
<1> SUFFICES ASSUME MapInv, Abort PROVE MapInv'
  OBVIOUS
<1>1. MapTypeOK /\ PassedMiss
  BY DEF MapInv, MapIInv
<1>2. segments \in Seq(Segment) /\ passed \in Nat
  BY <1>1, SegInTable DEF Abort, MapTypeOK
<1>3. Overflows(segments[passed + 1])
  BY DEF Abort, Seg
<1>4. ASSUME NEW k \in DOMAIN segments, SoundUpTo(k), Backs(segments[k], vmaddr)
      PROVE  FALSE
  <2>1. k \in Nat /\ k >= 1
    BY <1>2
  <2>2. k > passed
    BY <1>1, <1>2, <1>4, <2>1, BackedIsCovered DEF PassedMiss
  <2>3. passed + 1 \in 1 .. k
    BY <1>2, <2>1, <2>2
  <2> QED
    BY <1>3, <1>4, <2>3 DEF SoundUpTo
<1> QED
  BY <1>4, GiveUpStep DEF Abort, Searching

(* The byte exists in memory only. *)
LEMMA BssStep == MapInv /\ Bss => MapInv'
<1> SUFFICES ASSUME MapInv, Bss PROVE MapInv'
  OBVIOUS
<1>1. MapTypeOK
  BY DEF MapInv, MapIInv
<1>2. passed + 1 \in DOMAIN segments
  BY <1>1, SegInTable DEF Bss
<1>3. /\ Covers(segments[passed + 1], vmaddr)
      /\ vmaddr - segments[passed + 1].vmaddr >= segments[passed + 1].filesize
  BY DEF Bss, Seg, Delta
<1>4. /\ segments[passed + 1].vmaddr \in Nat /\ segments[passed + 1].filesize \in Nat
      /\ vmaddr \in Nat
  BY <1>1, <1>2, SegFacts, MapAssumption DEF MapTypeOK, Address
<1>5. ~Backs(segments[passed + 1], vmaddr)
  BY <1>3, <1>4 DEF Backs
<1>6. ASSUME Disjoint, NEW k \in DOMAIN segments, Backs(segments[k], vmaddr)
      PROVE  FALSE
  BY <1>1, <1>2, <1>3, <1>5, <1>6, OneHolder
<1> QED
  BY <1>6, GiveUpStep DEF Bss, Searching

(* All segments are behind the loop, and none covers the address. *)
LEMMA ExhaustedStep == MapInv /\ Exhausted => MapInv'
<1> SUFFICES ASSUME MapInv, Exhausted PROVE MapInv'
  OBVIOUS
<1>1. MapTypeOK /\ PassedMiss
  BY DEF MapInv, MapIInv
<1>2. segments \in Seq(Segment)
  BY <1>1 DEF MapTypeOK
<1>3. DOMAIN segments = 1 .. passed
  BY <1>2 DEF Exhausted
<1>4. ASSUME NEW k \in DOMAIN segments PROVE ~Backs(segments[k], vmaddr)
  BY <1>1, <1>3, BackedIsCovered DEF PassedMiss
<1> QED
  BY <1>4, GiveUpStep DEF Exhausted

(* Nothing changes. *)
LEMMA MapStutter == MapInv /\ UNCHANGED mapVars => MapInv'
<1> SUFFICES ASSUME MapInv, UNCHANGED mapVars PROVE MapInv'
  OBVIOUS
<1>1. MapTypeOK' /\ NoOffsetYet'
  BY DEF MapInv, MapIInv, MapTypeOK, NoOffsetYet, mapVars
<1>2. OffsetIsBacked' /\ PassedMiss'
  BY DEF MapInv, MapIInv, OffsetIsBacked, PassedMiss, Backs, Covers, mapVars
<1>3. BackedIsFound'
  BY DEF MapInv, MapIInv, BackedIsFound, Disjoint, Backs, SoundUpTo, Overflows, mapVars
<1> QED
  BY <1>1, <1>2, <1>3 DEF MapInv, MapIInv

(* Every step keeps the invariant. *)
LEMMA MapNextInv == MapInv /\ [MapNext]_mapVars => MapInv'
<1> SUFFICES ASSUME MapInv, [MapNext]_mapVars PROVE MapInv'
  OBVIOUS
<1>1. CASE Pass
  BY <1>1, PassStep
<1>2. CASE Abort
  BY <1>2, AbortStep
<1>3. CASE Hit
  BY <1>3, HitStep
<1>4. CASE Bss
  BY <1>4, BssStep
<1>5. CASE Exhausted
  BY <1>5, ExhaustedStep
<1>6. CASE UNCHANGED mapVars
  BY <1>6, MapStutter
<1> QED
  BY <1>1, <1>2, <1>3, <1>4, <1>5, <1>6 DEF MapNext, Work, Answered

(* The search keeps its invariant, on every table. *)
THEOREM MapInvariant == MapSpec => []MapInv
<1>1. MapInit => MapInv
  BY MapInitInv
<1>2. MapInv /\ [MapNext]_mapVars => MapInv'
  BY MapNextInv
<1> QED
  BY <1>1, <1>2, PTL DEF MapSpec

(* vm_to_file_offset_in never answers with the place of another segment's  *)
(* byte.                                                                   *)
THEOREM OffsetIsBackedHolds == MapSpec => []OffsetIsBacked
<1>1. MapInv => OffsetIsBacked
  BY DEF MapInv, MapIInv
<1> QED
  BY <1>1, MapInvariant, PTL

(* It finds every byte that is on disk when the table is well formed.      *)
THEOREM BackedIsFoundHolds == MapSpec => []BackedIsFound
<1>1. MapInv => BackedIsFound
  BY DEF MapInv, MapIInv
<1> QED
  BY <1>1, MapInvariant, PTL

(* What the segment under the loop says of the address. *)
FoundIn(seg) ==
  IF Delta < seg.filesize /\ seg.fileoff + Delta < Limit THEN seg.fileoff + Delta ELSE NoOffset

(* The search returns from a segment that overflows, from the first one    *)
(* around the address, or from the end of the table.                       *)
AnswerInv ==
  status = "returned" =>
    \/ passed = Len(segments) /\ answer = NoOffset
    \/ passed < Len(segments) /\ Overflows(Seg) /\ answer = NoOffset
    \/ passed < Len(segments) /\ Covers(Seg, vmaddr) /\ answer = FoundIn(Seg)

(* Every sum over the table is a number of 64 bits. *)
InWords ==
  \A k \in DOMAIN segments :
    ~Overflows(segments[k]) /\ segments[k].fileoff + segments[k].filesize < Limit

(* The offset that DataImage takes the search to compute. *)
InImage == FileOffset([segments |-> segments], vmaddr)

AnswersFileOffset ==
  status = "returned" /\ InWords =>
    answer = IF InImage = None THEN NoOffset ELSE InImage

(* Each way out of the loop is one of the three. *)
LEMMA AnswerStep == MapInv /\ AnswerInv /\ [MapNext]_mapVars => AnswerInv'
<1> SUFFICES ASSUME MapInv, AnswerInv, [MapNext]_mapVars PROVE AnswerInv'
  OBVIOUS
<1>1. CASE Pass
  BY <1>1 DEF Pass, Searching, AnswerInv
<1>2. CASE Abort
  BY <1>2 DEF Abort, Searching, Return, AnswerInv, Overflows, Seg
<1>3. CASE Hit
  BY <1>3 DEF Hit, Searching, Return, AnswerInv, FoundIn, Delta, Covers, Seg
<1>4. CASE Bss
  <2>1. MapTypeOK /\ passed + 1 \in DOMAIN segments
    BY <1>4, SegInTable DEF MapInv, MapIInv, Bss
  <2>2. Seg.vmaddr \in Nat /\ Seg.filesize \in Nat /\ vmaddr \in Nat
    BY <2>1, SegFacts, MapAssumption DEF MapTypeOK, Address, Seg
  <2>3. ~(Delta < Seg.filesize)
    BY <1>4, <2>2 DEF Bss, Delta
  <2> QED
    BY <1>4, <2>3 DEF Bss, Searching, Return, AnswerInv, FoundIn, Delta, Covers, Seg
<1>5. CASE Exhausted
  BY <1>5 DEF Exhausted, Return, AnswerInv
<1>6. CASE UNCHANGED mapVars
  BY <1>6 DEF mapVars, AnswerInv, FoundIn, Delta, Covers, Overflows, Seg
<1> QED
  BY <1>1, <1>2, <1>3, <1>4, <1>5, <1>6 DEF MapNext, Work, Answered

(* Of the segments around the address, the one the loop stopped at is the  *)
(* first: those it left behind are not around it.                          *)
LEMMA StoppedAtFirst ==
  ASSUME MapTypeOK, PassedMiss, passed < Len(segments), Covers(Seg, vmaddr),
         NEW around, around = {k \in DOMAIN segments : Covers(segments[k], vmaddr)}
  PROVE  around # {} /\ Min(around) = passed + 1
<1>1. segments \in Seq(Segment) /\ passed \in Nat /\ Len(segments) \in Nat
  BY DEF MapTypeOK
<1>2. passed + 1 \in around /\ around \in SUBSET Nat
  BY <1>1 DEF Seg
<1>3. ASSUME NEW k \in around PROVE passed + 1 <= k
  <2>1. k \in Nat /\ k >= 1 /\ k \notin 1 .. passed
    BY <1>1 DEF PassedMiss
  <2> QED BY <1>1, <2>1
<1> QED BY <1>2, <1>3, LeastIs

(* util.rs, as the walkers over constant data take it: on a table whose    *)
(* sums are words, the loop returns what FileOffset says of the address.   *)
THEOREM SearchIsFileOffset == MapSpec => []AnswersFileOffset
<1>1. MapInit => AnswerInv
  BY DEF MapInit, AnswerInv
<1>2. MapInv /\ AnswerInv => AnswersFileOffset
  <2> SUFFICES ASSUME MapInv, AnswerInv, status = "returned", InWords
               PROVE  answer = IF InImage = None THEN NoOffset ELSE InImage
    BY DEF AnswersFileOffset
  <2> DEFINE around == {k \in DOMAIN segments : Covers(segments[k], vmaddr)}
             seg == segments[Min(around)]
  <2>1. MapTypeOK /\ PassedMiss
    BY DEF MapInv, MapIInv
  <2>2. segments \in Seq(Segment) /\ vmaddr \in Nat /\ passed \in Nat /\ Len(segments) \in Nat
    BY <2>1, MapAssumption DEF MapTypeOK, Address
  <2>3. InImage = IF around # {} /\ vmaddr - seg.vmaddr < seg.filesize
                  THEN seg.fileoff + (vmaddr - seg.vmaddr) ELSE None
    <3>1. around = {k \in DOMAIN segments :
                      /\ segments[k].filesize > 0
                      /\ segments[k].vmaddr <= vmaddr
                      /\ vmaddr < segments[k].vmaddr + segments[k].vmsize}
      BY DEF Covers
    <3> DEFINE im == [segments |-> segments]
               about == Around(im, vmaddr)
               first == im.segments[Min(about)]
    <3>2. FileOffset(im, vmaddr) = IF about # {} /\ vmaddr - first.vmaddr < first.filesize
                                   THEN first.fileoff + (vmaddr - first.vmaddr) ELSE None
      BY <2>2 DEF FileOffset, OffsetIn
    <3>3. im.segments = segments /\ about = around
      BY <3>1 DEF Around
    <3> QED BY <3>2, <3>3 DEF InImage
  <2> HIDE DEF around
  <2>4. CASE passed = Len(segments) /\ answer = NoOffset
    <3>1. around = {}
      BY <2>1, <2>2, <2>4 DEF PassedMiss, around
    <3> QED BY <2>3, <2>4, <3>1
  <2>5. CASE passed < Len(segments) /\ Covers(Seg, vmaddr) /\ answer = FoundIn(Seg)
    <3>1. around # {} /\ seg = Seg
      BY <2>1, <2>5, StoppedAtFirst DEF around, Seg
    <3>2. passed + 1 \in DOMAIN segments
      BY <2>2, <2>5
    <3>3. /\ Seg.vmaddr \in Nat /\ Seg.fileoff \in Nat /\ Seg.filesize \in Nat
          /\ Seg.fileoff + Seg.filesize < Limit /\ Limit \in Nat
      BY <2>1, <3>2, SegFacts, MapAssumption DEF InWords, Seg
    <3>4. vmaddr - Seg.vmaddr \in Nat
      BY <2>2, <2>5, <3>3 DEF Covers
    <3>5. vmaddr - Seg.vmaddr < Seg.filesize =>
            /\ Seg.fileoff + (vmaddr - Seg.vmaddr) < Limit
            /\ Seg.fileoff + (vmaddr - Seg.vmaddr) # None
      BY <3>3, <3>4, DataAssumption
    <3> QED BY <2>3, <2>5, <3>1, <3>5 DEF FoundIn, Delta
  <2>6. CASE passed < Len(segments) /\ Overflows(Seg)
    <3>1. passed + 1 \in DOMAIN segments
      BY <2>2, <2>6
    <3> QED BY <2>6, <3>1 DEF InWords, Seg
  <2> QED BY <2>4, <2>5, <2>6 DEF AnswerInv
<1> QED
  BY <1>1, <1>2, MapInvariant, AnswerStep, PTL DEF MapSpec
=============================================================================
