-------------------------- MODULE SwiftTablesProofs --------------------------
(***************************************************************************)
(* Proofs about SwiftTables, for every image and every section.  What a    *)
(* row, a size or an entry says is left to the operators that read it;     *)
(* what is proved is the order and the completeness of the walk: which     *)
(* slots and records yield a row, which trailing objects are found behind  *)
(* a type and where each is read, and where every entry of every table is  *)
(* put.                                                                    *)
(***************************************************************************)
EXTENDS SwiftTableProperties, FiniteSetTheorems, TLAPS

SlotCalls == {"types", "protocols", "conformances"}

RecordCalls == {"fields", "captures", "replacements"}

(* The calls decide the phases, and only the last row has tables left. *)
PhaseInv ==
  /\ \E pair \in Calls : image = pair[1] /\ call = pair[2]
  /\ phase \in {"build", "rows", "trailers", "entries", "done"}
  /\ phase = "build" => rows = <<>> /\ cursor = 0
  /\ ~IsSwift => phase \in {"build", "done"} /\ rows = <<>> /\ cursor = 0
  /\ phase = "trailers" => call = "types"
  /\ phase = "entries" => call \in {"types", "fields"}
  /\ phase # "entries" => tables = <<>>
-----------------------------------------------------------------------------
(* Sequences of anything *)

IsSequence(s) == s \in Seq({s[k] : k \in DOMAIN s})

LEMMA SequenceOf ==
  ASSUME NEW S, NEW s \in Seq(S)
  PROVE  IsSequence(s)
<1> DEFINE R == {s[k] : k \in DOMAIN s}
<1>1. Len(s) \in Nat /\ DOMAIN s = 1 .. Len(s) /\ s = [k \in 1 .. Len(s) |-> s[k]]
  OBVIOUS
<1>2. \A k \in 1 .. Len(s) : s[k] \in R
  BY <1>1
<1> HIDE DEF R
<1>3. s \in [1 .. Len(s) -> R]
  BY <1>1, <1>2
<1>4. s \in Seq(R)
  BY <1>1, <1>3
<1> QED BY <1>4 DEF IsSequence, R

LEMMA SequenceEmpty == IsSequence(<<>>) /\ Len(<<>>) = 0 /\ DOMAIN <<>> = {}
<1>1. <<>> \in Seq({}) /\ Len(<<>>) = 0 /\ DOMAIN <<>> = {}
  OBVIOUS
<1> QED BY <1>1, SequenceOf

LEMMA SequenceFacts ==
  ASSUME NEW s, IsSequence(s)
  PROVE  Len(s) \in Nat /\ DOMAIN s = 1 .. Len(s)
BY DEF IsSequence

LEMMA SequenceAppend ==
  ASSUME NEW s, IsSequence(s), NEW e
  PROVE  /\ IsSequence(Append(s, e)) /\ Len(s) \in Nat
         /\ Len(Append(s, e)) = Len(s) + 1
         /\ DOMAIN s = 1 .. Len(s) /\ DOMAIN Append(s, e) = 1 .. Len(s) + 1
         /\ \A k \in 1 .. Len(s) : Append(s, e)[k] = s[k]
         /\ Append(s, e)[Len(s) + 1] = e
<1> DEFINE S == {s[k] : k \in DOMAIN s} \cup {e}
<1>1. s \in Seq(S) /\ e \in S
  <2>1. Len(s) \in Nat /\ s \in [1 .. Len(s) -> {s[k] : k \in DOMAIN s}]
    BY DEF IsSequence
  <2>2. \A k \in 1 .. Len(s) : s[k] \in S
    BY <2>1
  <2>3. s \in [1 .. Len(s) -> S]
    <3> HIDE DEF S
    <3> QED BY <2>1, <2>2
  <2> QED BY <2>1, <2>3
<1> HIDE DEF S
<1>2. /\ Append(s, e) \in Seq(S) /\ Len(s) \in Nat /\ Len(Append(s, e)) = Len(s) + 1
      /\ DOMAIN s = 1 .. Len(s) /\ DOMAIN Append(s, e) = 1 .. Len(s) + 1
      /\ \A k \in 1 .. Len(s) : Append(s, e)[k] = s[k]
      /\ Append(s, e)[Len(s) + 1] = e
  BY <1>1
<1>3. IsSequence(Append(s, e))
  BY <1>2, SequenceOf
<1> QED BY <1>2, <1>3

LEMMA SequenceTail ==
  ASSUME NEW s, IsSequence(s), s # <<>>
  PROVE  /\ Head(s) = s[1] /\ Len(s) \in Nat \ {0}
         /\ IsSequence(Tail(s)) /\ Len(Tail(s)) = Len(s) - 1
         /\ \A k \in 1 .. Len(s) - 1 : Tail(s)[k] = s[k + 1]
<1>1. PICK S : s \in Seq(S)
  BY DEF IsSequence
<1>2. /\ Head(s) = s[1] /\ Tail(s) \in Seq(S) /\ Len(Tail(s)) = Len(s) - 1
      /\ Len(s) \in Nat /\ Len(s) > 0
      /\ \A k \in 1 .. Len(s) - 1 : Tail(s)[k] = s[k + 1]
  BY <1>1
<1>3. IsSequence(Tail(s))
  BY <1>2, SequenceOf
<1> QED BY <1>2, <1>3

LEMMA SequenceFunction ==
  ASSUME NEW n \in Nat, NEW f, f = [k \in 1 .. n |-> f[k]]
  PROVE  IsSequence(f) /\ Len(f) = n
<1> DEFINE S == {f[k] : k \in 1 .. n}
<1>1. f \in [1 .. n -> S]
  <2>1. \A k \in 1 .. n : f[k] \in S
    OBVIOUS
  <2> HIDE DEF S
  <2> QED BY <2>1
<1> HIDE DEF S
<1>2. f \in Seq(S) /\ Len(f) = n
  BY <1>1
<1> QED BY <1>2, SequenceOf
-----------------------------------------------------------------------------
(* The number of a member among those of a set of natural numbers *)

LEMMA NumberedFacts ==
  ASSUME NEW set \in SUBSET Nat, NEW n \in Nat
  PROVE  IsFiniteSet({j \in set : j <= n}) /\ Numbered(set, n) \in Nat
<1>1. IsFiniteSet(0 .. n)
  BY FS_Interval
<1>2. {j \in set : j <= n} \in SUBSET (0 .. n)
  <2>1. ASSUME NEW j \in set, j <= n PROVE j \in 0 .. n
    BY <2>1
  <2> QED BY <2>1
<1>3. IsFiniteSet({j \in set : j <= n})
  BY <1>1, <1>2, FS_Subset
<1> QED BY <1>3, FS_CardinalityType DEF Numbered

LEMMA NumberedNone ==
  ASSUME NEW set \in SUBSET (Nat \ {0})
  PROVE  Numbered(set, 0) = 0
<1>1. {j \in set : j <= 0} = {}
  <2>1. ASSUME NEW j \in set PROVE ~(j <= 0)
    <3>1. j \in Nat /\ j # 0
      BY <2>1
    <3> QED BY <3>1
  <2> QED BY <2>1
<1> QED BY <1>1, FS_EmptySet DEF Numbered

LEMMA NumberedMore ==
  ASSUME NEW set \in SUBSET Nat, NEW n \in Nat
  PROVE  Numbered(set, n + 1) = Numbered(set, n) + (IF n + 1 \in set THEN 1 ELSE 0)
<1> DEFINE some == {j \in set : j <= n}
<1>1. IsFiniteSet(some) /\ n + 1 \notin some /\ Cardinality(some) = Numbered(set, n)
  BY NumberedFacts DEF Numbered
<1>2. {j \in set : j <= n + 1} = some \cup (IF n + 1 \in set THEN {n + 1} ELSE {})
  <2>1. \A j \in Nat : j <= n + 1 <=> j <= n \/ j = n + 1
    OBVIOUS
  <2> QED BY <2>1
<1> HIDE DEF some
<1>3. CASE n + 1 \in set
  <2>1. {j \in set : j <= n + 1} = some \cup {n + 1}
    BY <1>2, <1>3
  <2>2. Cardinality(some \cup {n + 1}) = Cardinality(some) + 1
    BY <1>1, FS_AddElement
  <2> QED BY <1>1, <1>3, <2>1, <2>2 DEF Numbered
<1>4. CASE n + 1 \notin set
  <2>1. {j \in set : j <= n + 1} = some
    BY <1>2, <1>4
  <2>2. Numbered(set, n) \in Nat
    BY NumberedFacts
  <2>3. Numbered(set, n + 1) = Numbered(set, n)
    BY <1>1, <2>1 DEF Numbered
  <2> QED BY <1>4, <2>2, <2>3
<1> QED BY <1>3, <1>4

LEMMA NumberedUpTo ==
  ASSUME NEW set \in SUBSET Nat, NEW n \in Nat, NEW k \in Nat, k <= n
  PROVE  Numbered(set, k) <= Numbered(set, n)
<1>1. {j \in set : j <= k} \in SUBSET {j \in set : j <= n}
  <2>1. ASSUME NEW j \in set, j <= k PROVE j <= n
    <3>1. j \in Nat
      BY <2>1
    <3> QED BY <2>1, <3>1
  <2> QED BY <2>1
<1> QED BY <1>1, NumberedFacts, FS_Subset DEF Numbered

LEMMA NumberedIn ==
  ASSUME NEW set \in SUBSET (Nat \ {0}), NEW n \in Nat, NEW k \in set
  PROVE  /\ Numbered(set, k) \in Nat \ {0}
         /\ k <= n => Numbered(set, k) <= Numbered(set, n)
         /\ k > n => Numbered(set, k) > Numbered(set, n)
<1>1. k \in Nat /\ k - 1 \in Nat /\ (k - 1) + 1 = k
  OBVIOUS
<1>2. /\ Numbered(set, k) = Numbered(set, k - 1) + 1
      /\ Numbered(set, k - 1) \in Nat /\ Numbered(set, n) \in Nat
  <2>1. Numbered(set, (k - 1) + 1) =
          Numbered(set, k - 1) + (IF (k - 1) + 1 \in set THEN 1 ELSE 0)
    BY <1>1, NumberedMore
  <2> QED BY <1>1, <2>1, NumberedFacts
<1>3. k <= n => Numbered(set, k) <= Numbered(set, n)
  BY <1>1, NumberedUpTo
<1>4. k > n => Numbered(set, n) <= Numbered(set, k - 1)
  BY <1>1, NumberedUpTo
<1> QED BY <1>2, <1>3, <1>4

LEMMA NumberedApart ==
  ASSUME NEW set \in SUBSET (Nat \ {0}), NEW j \in set, NEW k \in set,
         Numbered(set, j) = Numbered(set, k)
  PROVE  j = k
<1>1. j \in Nat /\ k \in Nat /\ Numbered(set, j) \in Nat /\ Numbered(set, k) \in Nat
  BY NumberedIn
<1>2. ~(k > j) /\ ~(j > k)
  BY <1>1, NumberedIn
<1> QED BY <1>1, <1>2

LEMMA NumberedAll ==
  ASSUME NEW set \in SUBSET Nat, NEW n \in Nat, \A j \in set : j <= n
  PROVE  Cardinality(set) = Numbered(set, n)
<1>1. {j \in set : j <= n} = set
  OBVIOUS
<1> QED BY <1>1 DEF Numbered
-----------------------------------------------------------------------------
(* What the image says stays: it is never written. *)

Reads == <<image, call>>

LEMMA HalfSame ==
  ASSUME UNCHANGED Reads
  PROVE  /\ \A va : Half(va)' = Half(va)
         /\ \A slot : Relative(slot)' = Relative(slot)
         /\ \A slot : OptionalText(slot)' = OptionalText(slot)
         /\ \A slot : Name(slot)' = Name(slot)
         /\ \A va : Bits(va)' = Bits(va)
<1>1. \A va : Half(va)' = Half(va)
  BY DEF Half, Reads
<1>2. \A slot : Relative(slot)' = Relative(slot)
  BY <1>1 DEF Relative
<1>3. \A slot : OptionalText(slot)' = OptionalText(slot)
  BY <1>2 DEF OptionalText, Reads
<1>4. \A slot : Name(slot)' = Name(slot)
  BY <1>1, <1>2 DEF Name, Reads
<1>5. \A va : Bits(va)' = Bits(va)
  BY DEF Bits, Reads
<1> QED BY <1>1, <1>2, <1>3, <1>4, <1>5

LEMMA RowSame ==
  ASSUME UNCHANGED Reads
  PROVE  /\ \A va : TypeRow(va)' = TypeRow(va)
         /\ \A va : ProtocolRow(va)' = ProtocolRow(va)
         /\ \A va : ConformanceRow(va)' = ConformanceRow(va)
<1>1. \A va, bits : ClassBody(va, bits)' = ClassBody(va, bits)
  BY HalfSame DEF ClassBody, Reads
<1>2. \A kind, va : ValueBody(kind, va)' = ValueBody(kind, va)
  BY HalfSame DEF ValueBody, Reads
<1>3. \A va, bits : Body(va, bits)' = Body(va, bits)
  <2> SUFFICES ASSUME NEW va, NEW bits PROVE Body(va, bits)' = Body(va, bits)
    OBVIOUS
  <2> DEFINE kind == ContextKind(bits)
             body == CASE kind = "class" -> ClassBody(va + 20, bits)
                       [] kind \in {"struct", "enum"} -> ValueBody(kind, va + 20)
                       [] kind = "other" -> None
  <2>1. body' = body
    <3>1. ClassBody(va + 20, bits)' = ClassBody(va + 20, bits)
      BY <1>1
    <3>2. ValueBody(kind, va + 20)' = ValueBody(kind, va + 20)
      BY <1>2
    <3> QED BY <3>1, <3>2
  <2>2. Body(va, bits) = IF body = None THEN NonType ELSE body
    BY DEF Body
  <2>3. Body(va, bits)' = IF body' = None THEN NonType ELSE body'
    BY DEF Body
  <2> HIDE DEF body
  <2> QED BY <2>1, <2>2, <2>3
<1>4. \A va : TypeRow(va)' = TypeRow(va)
  BY HalfSame, <1>3 DEF TypeRow, Reads
<1>5. \A va : ProtocolRow(va)' = ProtocolRow(va)
  BY HalfSame DEF ProtocolRow, Reads
<1>6. \A slot, bits : TypeReference(slot, bits)' = TypeReference(slot, bits)
  BY HalfSame DEF TypeReference
<1>7. \A va : ConformanceRow(va)' = ConformanceRow(va)
  BY HalfSame, <1>6 DEF ConformanceRow, Reads
<1> QED BY <1>4, <1>5, <1>7

LEMMA SlotSame ==
  ASSUME UNCHANGED Reads
  PROVE  /\ IsSwift' = IsSwift /\ Section' = Section
         /\ Slots' = Slots /\ Decodable' = Decodable
         /\ \A k : SlotRow(k)' = SlotRow(k)
         /\ \A row : Header(row)' = Header(row)
<1>1. IsSwift' = IsSwift /\ Section' = Section
  BY DEF IsSwift, Section, Reads
<1>2. \A va : Decode(va)' = Decode(va)
  BY RowSame DEF Decode, Reads
<1>3. \A position : SectionHalf(Section, position)' = SectionHalf(Section, position)
  BY <1>1 DEF SectionHalf, Reads
<1>4. \A position : RowAt(position)' = RowAt(position)
  BY <1>1, <1>2, <1>3 DEF RowAt
<1>5. \A k : SlotRow(k)' = SlotRow(k)
  BY <1>4 DEF SlotRow
<1>6. Slots' = Slots
  BY <1>1 DEF Slots
<1>7. Decodable' = Decodable
  BY <1>5, <1>6 DEF Decodable
<1>8. \A row : Header(row)' = Header(row)
  BY DEF Header, Reads
<1> QED BY <1>1, <1>5, <1>6, <1>7, <1>8

LEMMA RecordSame ==
  ASSUME UNCHANGED Reads
  PROVE  /\ \A position : Record(position)' = Record(position)
         /\ \A position : RecordTable(position)' = RecordTable(position)
         /\ \A position : After(position)' = After(position)
         /\ \A position, passed : Fits(position, passed)' = Fits(position, passed)
<1>1. Section' = Section
  BY SlotSame
<1>2. \A position : SectionHalf(Section, position)' = SectionHalf(Section, position)
  BY <1>1 DEF SectionHalf, Reads
<1>3. /\ \A end : Within(end)' = Within(end)
      /\ \A passed : Announced(passed)' = Announced(passed)
      /\ \A position, k : Captured(position, k)' = Captured(position, k)
      /\ \A position : RecordSize(position)' = RecordSize(position)
      /\ \A position : RecordCount(position)' = RecordCount(position)
  BY <1>1, <1>2 DEF Within, Announced, Captured, RecordSize, RecordCount
<1>4. /\ \A position : NextFields(position)' = NextFields(position)
      /\ \A position : AfterCapture(position)' = AfterCapture(position)
  BY <1>1, <1>3 DEF NextFields, AfterCapture, AfterSources
<1>5. /\ \A position : FieldRow(position)' = FieldRow(position)
      /\ \A position : CaptureRow(position)' = CaptureRow(position)
      /\ \A position : ReplacementRow(position)' = ReplacementRow(position)
  <2>1. \A position : FieldText(position)' = FieldText(position)
    BY <1>1, <1>2 DEF FieldText, Reads
  <2> QED BY <1>1, <1>2, <1>3, <2>1 DEF FieldRow, CaptureRow, ReplacementRow
<1>6. \A position : RecordTable(position)' = RecordTable(position)
  BY <1>1, <1>3 DEF RecordTable
<1>7. \A position : Record(position)' = Record(position)
  BY <1>5 DEF Record, Reads
<1>8. \A position : After(position)' = After(position)
  BY <1>4 DEF After, Reads
<1>9. \A position, passed : Fits(position, passed)' = Fits(position, passed)
  BY <1>3, <1>4 DEF Fits, FieldsFit, Reads
<1> QED BY <1>6, <1>7, <1>8, <1>9

LEMMA BlockSame ==
  ASSUME UNCHANGED Reads
  PROVE  /\ \A name, va : Block(name, va)' = Block(name, va)
         /\ \A name, va : Size(name, va)' = Size(name, va)
         /\ \A name, va : Known(name, va)' = Known(name, va)
         /\ \A found : Laid(found)' = Laid(found)
<1>1. \A name, va : Count(name, va)' = Count(name, va)
  <2> SUFFICES ASSUME NEW name, NEW va PROVE Count(name, va)' = Count(name, va)
    OBVIOUS
  <2>1. Half(va + 4)' = Half(va + 4) /\ Half(va)' = Half(va)
    BY HalfSame
  <2> QED BY <2>1 DEF Count
<1>7. \A va : GenericSize(va)' = GenericSize(va)
  BY HalfSame DEF GenericSize
<1>2. \A name, va : Block(name, va)' = Block(name, va)
  BY HalfSame, <1>1 DEF Block
<1>3. \A name, va : Size(name, va)' = Size(name, va)
  BY <1>1, <1>7 DEF Size
<1>4. \A name, va : Known(name, va)' = Known(name, va)
  BY DEF Known, Reads
<1>5. \A found, j : Behind(found, j)' = Behind(found, j)
  BY <1>3 DEF Behind
<1>6. \A found : Laid(found)' = Laid(found)
  BY <1>2, <1>4, <1>5 DEF Laid
<1> QED BY <1>2, <1>3, <1>4, <1>6

LEMMA EntrySame ==
  ASSUME UNCHANGED Reads
  PROVE  /\ \A table, k : EntryAt(table, k)' = EntryAt(table, k)
         /\ \A table : Yielded(table)' = Yielded(table)
<1>1. \A slot : FieldName(slot)' = FieldName(slot)
  BY HalfSame DEF FieldName, TextWithin, Reads
<1>2. \A what, slot : Field(what, slot)' = Field(what, slot)
  BY HalfSame, <1>1 DEF Field
<1>3. \A of, va : Entry(of, va)' = Entry(of, va)
  BY <1>2 DEF Entry, Reads
<1>4. \A table, k : EntryAt(table, k)' = EntryAt(table, k)
  BY <1>3 DEF EntryAt
<1> QED BY <1>4 DEF Yielded
-----------------------------------------------------------------------------
(* Phases *)

LEMMA PhaseInit == Init => PhaseInv
<1> SUFFICES ASSUME Init PROVE PhaseInv
  OBVIOUS
<1> QED BY DEF Init, PhaseInv

LEMMA PhaseStep == PhaseInv /\ [Next]_vars => PhaseInv'
<1> SUFFICES ASSUME PhaseInv, [Next]_vars PROVE PhaseInv'
  OBVIOUS
<1>1. /\ UNCHANGED Reads
  BY DEF Next, Work, Build, NotSwift, SkipSlot, TakeRow, TakeType, WalkTrailers, EndTrailers,
         TakeFields, TakeCapture, TakeReplacement, EndRows, TakeEntry, EndTable, EndEntries,
         Returned, vars, Reads
<1>2. /\ IsSwift' = IsSwift
      /\ \E pair \in Calls : image' = pair[1] /\ call' = pair[2]
  BY <1>1, SlotSame DEF PhaseInv, Reads
<1>3. CASE Build \/ NotSwift
  BY <1>2, <1>3 DEF PhaseInv, Build, NotSwift, tableVars
<1>4. CASE SkipSlot \/ TakeRow \/ TakeType
  BY <1>2, <1>4 DEF PhaseInv, SkipSlot, TakeRow, TakeType, HasSlot, tableVars
<1>5. CASE WalkTrailers
  BY <1>2, <1>5 DEF PhaseInv, WalkTrailers, tableVars
<1>6. CASE EndTrailers
  BY <1>1, <1>2, <1>6 DEF PhaseInv, EndTrailers, Reads
<1>7. CASE TakeFields
  BY <1>1, <1>2, <1>7 DEF PhaseInv, TakeFields, HasFields, Reads
<1>8. CASE TakeCapture \/ TakeReplacement
  BY <1>2, <1>8 DEF PhaseInv, TakeCapture, TakeReplacement, HasCapture, HasReplacement, tableVars
<1>9. CASE EndRows
  BY <1>2, <1>9 DEF PhaseInv, EndRows, tableVars
<1>10. CASE TakeEntry \/ EndTable \/ EndEntries
  BY <1>1, <1>2, <1>10 DEF PhaseInv, TakeEntry, EndTable, EndEntries, tableVars, Reads
<1>11. CASE Returned \/ UNCHANGED vars
  BY <1>2, <1>11 DEF PhaseInv, Returned, vars, tableVars
<1> QED BY <1>3, <1>4, <1>5, <1>6, <1>7, <1>8, <1>9, <1>10, <1>11 DEF Next, Work
-----------------------------------------------------------------------------
(* Numbers that are read *)

LEMMA WordFacts ==
  ASSUME PhaseInv
  PROVE  /\ \A offset : WordAt(image, offset) \in Nat
         /\ \A va : Half(va) \in Nat
<1>1. image.words \in [DOMAIN image.words -> Nat]
  BY CallsAssumption DEF PhaseInv
<1>2. \A offset : WordAt(image, offset) \in Nat
  BY <1>1 DEF WordAt
<1>3. \A w \in Nat : w % HalfUnit \in Nat
  <2>1. HalfUnit \in Nat \ {0}
    BY DataAssumption
  <2> QED BY <2>1
<1>4. \A va : Half(va) \in Nat
  BY <1>2, <1>3 DEF Half, Low, Word
<1> QED BY <1>2, <1>4

LEMMA SectionFacts ==
  ASSUME PhaseInv
  PROVE  /\ call \in SlotCalls \cup RecordCalls
         /\ Section # None => Section.address \in Nat /\ Section.size \in Nat
         /\ \A position : SectionHalf(Section, position) \in Nat
<1>1. call \in DOMAIN SectionOf /\ IsSection(Section)
  BY CallsAssumption DEF PhaseInv, Section
<1>2. call \in SlotCalls \cup RecordCalls
  BY <1>1 DEF SectionOf, SlotCalls, RecordCalls
<1> QED BY <1>1, <1>2, WordFacts DEF IsSection, SectionHalf

LEMMA HalfSizeFacts == HalfSize \in Nat \ {0}
BY RecordAssumption DEF HalfSize

LEMMA ProductFacts ==
  ASSUME NEW m \in Nat, NEW n \in Nat
  PROVE  m * n \in Nat
OBVIOUS

(* The record behind one that fits begins inside of the numbers. *)
LEMMA AfterFacts ==
  ASSUME PhaseInv, call \in RecordCalls, NEW position \in Nat, NEW passed,
         Fits(position, passed)
  PROVE  After(position) \in Nat /\ Section # None
<1>1. /\ HalfSize \in Nat /\ ShortUnit \in Nat \ {0}
      /\ \A p : SectionHalf(Section, p) \in Nat
      /\ Section # None => Section.size \in Nat
  BY HalfSizeFacts, SectionFacts, RecordAssumption
<1>2. Section # None
  BY DEF Fits, FieldsFit, Within, RecordCalls
<1>3. CASE call = "fields"
  <2>1. RecordSize(position) \in Nat /\ RecordCount(position) \in Nat
    <3>1. \A w \in Nat : w \div ShortUnit \in Nat
      BY <1>1
    <3> QED BY <1>1, <3>1 DEF RecordSize, RecordCount
  <2>2. RecordSize(position) * RecordCount(position) \in Nat
    BY <2>1, ProductFacts
  <2>3. NextFields(position) \in Nat
    BY <2>2 DEF NextFields
  <2> QED BY <1>2, <1>3, <2>3 DEF After
<1>4. CASE call = "captures"
  <2>1. /\ HalfSize * Captured(position, 0) \in Nat
        /\ (2 * HalfSize) * Captured(position, 1) \in Nat
    <3>1. Captured(position, 0) \in Nat /\ Captured(position, 1) \in Nat /\ 2 * HalfSize \in Nat
      BY <1>1 DEF Captured
    <3> QED BY <1>1, <3>1, ProductFacts
  <2>2. AfterSources(position) \in Nat
    BY <2>1 DEF AfterSources
  <2>3. AfterCapture(position) \in Nat
    BY <1>1, <1>2, <2>2 DEF AfterCapture
  <2> QED BY <1>2, <1>4, <2>3 DEF After
<1>5. CASE call = "replacements"
  BY <1>2, <1>5 DEF After
<1> QED BY <1>3, <1>4, <1>5 DEF RecordCalls
-----------------------------------------------------------------------------
(* The descriptor whose trailing objects are looked for *)

IsType(found) ==
  found = [address |-> found.address, bits |-> found.bits, parent |-> found.parent,
           name |-> found.name, body |-> found.body, blocks |-> found.blocks]

Kinds == {"class", "struct", "enum", "nontype"}

LEMMA BodyKind ==
  ASSUME NEW va, NEW bits
  PROVE  Body(va, bits).kind \in Kinds
<1> DEFINE kind == ContextKind(bits)
           body == CASE kind = "class" -> ClassBody(va + 20, bits)
                     [] kind \in {"struct", "enum"} -> ValueBody(kind, va + 20)
                     [] kind = "other" -> None
<1>1. Body(va, bits) = IF body = None THEN NonType ELSE body
  BY DEF Body
<1>2. NonType.kind \in Kinds
  BY DEF NonType, Kinds
<1>3. kind \in {"class", "struct", "enum", "other"}
  BY DEF ContextKind
<1>4. ASSUME body # None PROVE body.kind \in Kinds
  <2>1. CASE kind = "class"
    <3>1. body = ClassBody(va + 20, bits)
      BY <2>1
    <3>2. ClassBody(va + 20, bits).kind = "class"
      BY <1>4, <3>1 DEF ClassBody
    <3> QED BY <3>1, <3>2 DEF Kinds
  <2>2. CASE kind \in {"struct", "enum"}
    <3>1. body = ValueBody(kind, va + 20)
      BY <2>2
    <3>2. ValueBody(kind, va + 20).kind = kind
      BY <1>4, <3>1 DEF ValueBody
    <3> QED BY <2>2, <3>1, <3>2 DEF Kinds
  <2>3. CASE kind = "other"
    BY <1>4, <2>3
  <2> QED BY <1>3, <2>1, <2>2, <2>3
<1> HIDE DEF body
<1> QED BY <1>1, <1>2, <1>4

LEMMA TypeRowFacts ==
  ASSUME NEW va, TypeRow(va) # None
  PROVE  IsType(TypeRow(va)) /\ TypeRow(va).blocks = <<>> /\ TypeRow(va).body.kind \in Kinds
<1>1. TypeRow(va) =
        [address |-> va, bits |-> Bits(va), parent |-> Relative(va + 4),
         name |-> Name(va + 8), body |-> Body(va, Bits(va)), blocks |-> <<>>]
  BY DEF TypeRow
<1>2. IsType(TypeRow(va)) /\ TypeRow(va).blocks = <<>> /\ TypeRow(va).body = Body(va, Bits(va))
  BY <1>1 DEF IsType
<1> QED BY <1>2, BodyKind

(* A trailing object changes nothing else of the descriptor. *)
LEMMA BlocksOnly ==
  ASSUME NEW found, IsType(found), NEW more
  PROVE  LET later == [found EXCEPT !.blocks = more]
         IN  /\ IsType(later) /\ later.blocks = more
             /\ later.body = found.body /\ later.bits = found.bits
             /\ [later EXCEPT !.blocks = <<>>] = [found EXCEPT !.blocks = <<>>]
<1> DEFINE of(b) == [address |-> found.address, bits |-> found.bits, parent |-> found.parent,
                     name |-> found.name, body |-> found.body, blocks |-> b]
<1>1. found = of(found.blocks)
  BY DEF IsType
<1>2. \A b, c : [of(b) EXCEPT !.blocks = c] = of(c)
  OBVIOUS
<1>3. /\ [found EXCEPT !.blocks = more] = of(more)
      /\ [found EXCEPT !.blocks = <<>>] = of(<<>>)
  <2> HIDE DEF of
  <2> QED BY <1>1, <1>2
<1>4. [of(more) EXCEPT !.blocks = <<>>] = of(<<>>)
  BY <1>2
<1>5. /\ IsType(of(more)) /\ of(more).blocks = more
      /\ of(more).body = found.body /\ of(more).bits = found.bits
  BY DEF IsType
<1> HIDE DEF of
<1> QED BY <1>3, <1>4, <1>5

ShapeInv ==
  /\ IsSequence(rows) /\ cursor \in Nat
  /\ phase = "trailers" => /\ IsType(type) /\ IsSequence(type.blocks)
                           /\ type.body.kind \in Kinds
  /\ call = "types" => \A k \in DOMAIN rows : IsSequence(rows[k].type.blocks)

LEMMA RowIsType ==
  ASSUME call = "types", NEW position, RowAt(position) # None
  PROVE  /\ IsType(RowAt(position)) /\ RowAt(position).blocks = <<>>
         /\ RowAt(position).body.kind \in Kinds
<1>1. \E va : RowAt(position) = TypeRow(va)
  BY DEF RowAt, Decode
<1> QED BY <1>1, TypeRowFacts

LEMMA ShapeInit == Init => ShapeInv
<1> SUFFICES ASSUME Init PROVE ShapeInv
  OBVIOUS
<1>1. rows = <<>> /\ cursor = 0 /\ phase = "build"
  BY DEF Init
<1> QED BY <1>1, SequenceEmpty DEF ShapeInv

(* A step that finds a trailing object adds it to the descriptor. *)
LEMMA WalkFacts ==
  ASSUME ShapeInv, WalkTrailers
  PROVE  /\ phase = "trailers" /\ IsType(type') /\ IsSequence(type'.blocks)
         /\ type'.body = type.body /\ type'.bits = type.bits
         /\ [type' EXCEPT !.blocks = <<>>] = [type EXCEPT !.blocks = <<>>]
         /\ \/ (AbsentBlock \/ LostBlock) /\ type' = type /\ at' = at
            \/ TakeBlock /\ type'.blocks = Append(type.blocks, Block(NextBlock, at))
<1>1. phase = "trailers" /\ IsType(type) /\ IsSequence(type.blocks)
  BY DEF WalkTrailers, ShapeInv
<1>2. CASE AbsentBlock \/ LostBlock
  BY <1>1, <1>2 DEF AbsentBlock, LostBlock
<1>3. CASE TakeBlock
  <2> DEFINE more == Append(type.blocks, Block(NextBlock, at))
  <2>1. type' = [type EXCEPT !.blocks = more] /\ IsSequence(more)
    BY <1>1, <1>3, SequenceAppend DEF TakeBlock
  <2> HIDE DEF more
  <2>2. /\ IsType(type') /\ type'.blocks = more /\ type'.body = type.body
        /\ type'.bits = type.bits
        /\ [type' EXCEPT !.blocks = <<>>] = [type EXCEPT !.blocks = <<>>]
    BY <1>1, <2>1, BlocksOnly
  <2> QED BY <1>1, <1>3, <2>1, <2>2 DEF more
<1> QED BY <1>2, <1>3 DEF WalkTrailers

LEMMA ShapeStep ==
  ASSUME PhaseInv, ShapeInv, [Next]_vars
  PROVE  ShapeInv'
<1>1. IsSequence(rows) /\ cursor \in Nat /\ DOMAIN rows = 1 .. Len(rows)
  BY SequenceFacts DEF ShapeInv
<1>2. ASSUME UNCHANGED <<call, rows>>, cursor' \in Nat,
             \/ phase' # "trailers"
             \/ phase' = phase /\ type' = type
             \/ /\ IsType(type') /\ IsSequence(type'.blocks) /\ type'.body.kind \in Kinds
      PROVE  ShapeInv'
  BY <1>1, <1>2 DEF ShapeInv
<1>3. ASSUME UNCHANGED call, cursor' \in Nat, phase' # "trailers",
             NEW row, rows' = Append(rows, row),
             call = "types" => IsSequence(row.type.blocks)
      PROVE  ShapeInv'
  <2>1. /\ IsSequence(rows') /\ DOMAIN rows' = 1 .. Len(rows) + 1 /\ Len(rows) \in Nat
        /\ \A k \in 1 .. Len(rows) : rows'[k] = rows[k]
        /\ rows'[Len(rows) + 1] = row
    BY <1>1, <1>3, SequenceAppend
  <2>2. ASSUME call = "types", NEW k \in DOMAIN rows' PROVE IsSequence(rows'[k].type.blocks)
    <3>1. k \in 1 .. Len(rows) \/ k = Len(rows) + 1
      BY <2>1
    <3> QED BY <1>1, <1>3, <2>1, <2>2, <3>1 DEF ShapeInv
  <2> QED BY <1>3, <2>1, <2>2 DEF ShapeInv
<1>4. cursor + HalfSize \in Nat
  BY <1>1, HalfSizeFacts
<1>5. CASE SkipSlot \/ TakeType
  <2>1. UNCHANGED <<call, rows>> /\ cursor' = cursor + HalfSize
    BY <1>5 DEF SkipSlot, TakeType
  <2>2. CASE SkipSlot
    BY <1>2, <1>4, <2>1, <2>2 DEF SkipSlot, HasSlot, PhaseInv
  <2>3. CASE TakeType
    <3>1. call = "types" /\ Row # None /\ type' = Row
      BY <2>3 DEF TakeType
    <3>2. IsType(type') /\ type'.blocks = <<>> /\ type'.body.kind \in Kinds
      BY <3>1, RowIsType DEF Row
    <3> QED BY <1>2, <1>4, <2>1, <3>2, SequenceEmpty
  <2> QED BY <1>5, <2>2, <2>3
<1>6. CASE TakeRow
  BY <1>3, <1>4, <1>6 DEF TakeRow, HasSlot
<1>7. CASE WalkTrailers
  <2>1. UNCHANGED <<call, cursor, rows>>
    BY <1>7 DEF WalkTrailers
  <2>2. IsType(type') /\ IsSequence(type'.blocks) /\ type'.body.kind \in Kinds
    BY <1>7, WalkFacts DEF ShapeInv
  <2> QED BY <1>1, <1>2, <2>1, <2>2
<1>8. CASE EndTrailers
  BY <1>1, <1>3, <1>8 DEF EndTrailers, ShapeInv
<1>9. CASE TakeFields \/ TakeCapture
  <2>1. /\ call \in {"fields", "captures"} /\ phase' # "trailers" /\ call' = call
        /\ Fits(cursor, 0) /\ cursor' = After(cursor)
        /\ rows' = Append(rows, Record(cursor))
    BY <1>9 DEF TakeFields, TakeCapture, HasFields, HasCapture, Fits, After, Record
  <2>2. cursor' \in Nat
    BY <1>1, <2>1, AfterFacts DEF RecordCalls
  <2> QED BY <1>3, <2>1, <2>2
<1>10. CASE TakeReplacement
  <2>1. Scope \in Nat
    BY <1>1 DEF Scope
  <2> QED BY <1>3, <1>10, <2>1 DEF TakeReplacement, HasReplacement
<1>11. CASE Build \/ NotSwift \/ EndRows \/ TakeEntry \/ EndTable \/ EndEntries
  BY <1>1, <1>2, <1>11 DEF Build, NotSwift, EndRows, TakeEntry, EndTable, EndEntries
<1>12. CASE Returned \/ UNCHANGED vars
  BY <1>1, <1>2, <1>12 DEF Returned, vars, trailerVars
<1> QED BY <1>5, <1>6, <1>7, <1>8, <1>9, <1>10, <1>11, <1>12 DEF Next, Work
-----------------------------------------------------------------------------
(* The slots of a section *)

Pending == IF phase = "trailers" THEN 1 ELSE 0

(* The first n slots are passed. *)
SlotsPassed(n) ==
  /\ cursor = n * HalfSize
  /\ Len(rows) + Pending = Numbered(Decodable, n)
  /\ \A k \in Decodable :
       Numbered(Decodable, k) <= Len(rows) =>
         Header(rows[Numbered(Decodable, k)]) = SlotRow(k)
  /\ phase = "trailers" => n \in Decodable /\ [type EXCEPT !.blocks = <<>>] = SlotRow(n)
  /\ phase = "done" => \A k \in Decodable : k <= n

SlotsInv == call \in SlotCalls => \E n \in Nat : SlotsPassed(n)

LEMMA DecodableFacts ==
  ASSUME PhaseInv
  PROVE  /\ Slots \in SUBSET (Nat \ {0}) /\ Decodable \in SUBSET (Nat \ {0})
         /\ Decodable \in SUBSET Nat
<1>1. Slots \in SUBSET (Nat \ {0})
  <2>1. CASE ~IsSwift \/ Section = None
    BY <2>1 DEF Slots
  <2>2. CASE ~(~IsSwift \/ Section = None)
    <3>1. Section.size \in Nat
      BY <2>2, SectionFacts
    <3>2. \A k \in 1 .. Section.size : k \in Nat \ {0}
      BY <3>1
    <3> QED BY <2>2, <3>2 DEF Slots
  <2> QED BY <2>1, <2>2
<1> QED BY <1>1 DEF Decodable

LEMMA MoreBytes ==
  ASSUME NEW m \in Nat, NEW n \in Nat, m <= n
  PROVE  m * HalfSize <= n * HalfSize
<1> DEFINE h == HalfSize
           d == n - m
<1>1. h \in Nat /\ d \in Nat /\ n = m + d
  BY HalfSizeFacts
<1> HIDE DEF h, d
<1>2. (m + d) * h = m * h + d * h /\ d * h \in Nat /\ m * h \in Nat
  BY <1>1
<1>3. m * h <= n * h
  BY <1>1, <1>2
<1> QED BY <1>3 DEF h

(* The slot at the cursor. *)
LEMMA SlotHere ==
  ASSUME PhaseInv, NEW n \in Nat, cursor = n * HalfSize
  PROVE  /\ cursor + HalfSize = (n + 1) * HalfSize
         /\ SlotRow(n + 1) = Row
         /\ HasSlot => n + 1 \in Slots
         /\ phase = "rows" /\ call \in SlotCalls /\ ~HasSlot => \A k \in Slots : k <= n
<1> DEFINE h == HalfSize
<1>1. h \in Nat \ {0} /\ n * h \in Nat
  BY HalfSizeFacts
<1>2. cursor + HalfSize = (n + 1) * HalfSize
  <2>1. (n + 1) * h = n * h + h
    <3> HIDE DEF h
    <3> QED BY <1>1
  <2> QED BY <2>1
<1>3. SlotRow(n + 1) = Row
  <2>1. (n + 1) - 1 = n
    OBVIOUS
  <2> QED BY <2>1 DEF SlotRow, Row
<1>4. ASSUME HasSlot PROVE n + 1 \in Slots
  <2>1. IsSwift /\ Section # None /\ (n + 1) * HalfSize <= Section.size
    BY <1>2, <1>4 DEF HasSlot, Within, PhaseInv
  <2>2. Section.size \in Nat
    BY <2>1, SectionFacts
  <2>3. n + 1 <= (n + 1) * h
    <3> HIDE DEF h
    <3> QED BY <1>1
  <2>4. (n + 1) * h \in Nat
    <3> HIDE DEF h
    <3> QED BY <1>1
  <2>5. n + 1 \in 1 .. Section.size
    BY <2>1, <2>2, <2>3, <2>4
  <2> QED BY <2>1, <2>5 DEF Slots
<1>5. ASSUME phase = "rows", call \in SlotCalls, ~HasSlot, NEW k \in Slots
      PROVE  k <= n
  <2>1. IsSwift /\ Section # None /\ k * HalfSize <= Section.size
    BY DEF Slots
  <2>2. ~((n + 1) * HalfSize <= Section.size)
    BY <1>2, <1>5, <2>1 DEF HasSlot, Within, SlotCalls
  <2>3. k \in Nat /\ Section.size \in Nat
    BY <2>1, SectionFacts, DecodableFacts
  <2>4. ASSUME n + 1 <= k PROVE FALSE
    <3>1. (n + 1) * HalfSize <= k * HalfSize
      BY <2>3, <2>4, MoreBytes
    <3>2. (n + 1) * h \in Nat /\ k * h \in Nat
      <4> HIDE DEF h
      <4> QED BY <1>1, <2>3
    <3> QED BY <2>1, <2>2, <2>3, <3>1, <3>2
  <2> QED BY <2>3, <2>4
<1> QED BY <1>2, <1>3, <1>4, <1>5

LEMMA SlotsInit == Init => SlotsInv
<1> SUFFICES ASSUME Init, call \in SlotCalls PROVE SlotsPassed(0)
  BY DEF SlotsInv
<1>1. PhaseInv /\ rows = <<>> /\ cursor = 0 /\ phase = "build"
  BY PhaseInit DEF Init
<1>2. Numbered(Decodable, 0) = 0 /\ 0 * HalfSize = 0
  BY <1>1, DecodableFacts, NumberedNone, HalfSizeFacts
<1>3. \A k \in Decodable : Numbered(Decodable, k) \in Nat \ {0}
  BY <1>1, DecodableFacts, NumberedIn
<1> QED BY <1>1, <1>2, <1>3, SequenceEmpty DEF SlotsPassed, Pending

(* One slot is passed: with a row, or without. *)
LEMMA SlotMore ==
  ASSUME PhaseInv, ShapeInv, NEW n \in Nat, SlotsPassed(n), HasSlot
  PROVE  /\ Len(rows) = Numbered(Decodable, n)
         /\ n + 1 \in Decodable <=> Row # None
         /\ Numbered(Decodable, n + 1) = Len(rows) + (IF Row = None THEN 0 ELSE 1)
         /\ SlotRow(n + 1) = Row
         /\ cursor + HalfSize = (n + 1) * HalfSize
<1>1. phase = "rows" /\ cursor = n * HalfSize
  BY DEF HasSlot, SlotsPassed
<1>2. n + 1 \in Slots /\ SlotRow(n + 1) = Row /\ cursor + HalfSize = (n + 1) * HalfSize
  BY <1>1, SlotHere
<1>3. n + 1 \in Decodable <=> Row # None
  BY <1>2 DEF Decodable
<1>4. Len(rows) = Numbered(Decodable, n)
  <2>1. Len(rows) \in Nat /\ Len(rows) + 0 = Numbered(Decodable, n)
    BY <1>1, SequenceFacts DEF SlotsPassed, Pending, ShapeInv
  <2> QED BY <2>1
<1>5. Numbered(Decodable, n + 1) =
        Numbered(Decodable, n) + (IF n + 1 \in Decodable THEN 1 ELSE 0)
  BY DecodableFacts, NumberedMore
<1> QED BY <1>2, <1>3, <1>4, <1>5

LEMMA SlotsSame ==
  ASSUME PhaseInv, SlotsInv, UNCHANGED Reads, UNCHANGED <<cursor, rows>>,
         Pending' = Pending,
         phase' = "trailers" =>
           phase = "trailers" /\ [type' EXCEPT !.blocks = <<>>] = [type EXCEPT !.blocks = <<>>],
         call \in SlotCalls /\ phase' = "done" =>
           \/ phase = "done" \/ ~IsSwift \/ (phase = "rows" /\ ~HasSlot)
  PROVE  SlotsInv'
<1> SUFFICES ASSUME call \in SlotCalls PROVE SlotsInv'
  BY DEF SlotsInv, Reads
<1>1. PICK n \in Nat : SlotsPassed(n)
  BY DEF SlotsInv
<1>2. /\ Decodable' = Decodable /\ \A k : SlotRow(k)' = SlotRow(k)
      /\ \A row : Header(row)' = Header(row)
  BY SlotSame
<1>3. ASSUME phase' = "done", NEW k \in Decodable PROVE k <= n
  <2>1. CASE phase = "done"
    BY <1>1, <2>1 DEF SlotsPassed
  <2>2. CASE ~IsSwift
    BY <2>2 DEF Decodable, Slots
  <2>3. CASE phase = "rows" /\ ~HasSlot
    BY <1>1, <2>3, SlotHere DEF SlotsPassed, Decodable
  <2> QED BY <1>3, <2>1, <2>2, <2>3
<1>4. SlotsPassed(n)'
  BY <1>1, <1>2, <1>3 DEF SlotsPassed
<1> QED BY <1>4 DEF SlotsInv

LEMMA SlotsStep ==
  ASSUME PhaseInv, ShapeInv, SlotsInv, [Next]_vars
  PROVE  SlotsInv'
<1>1. CASE SkipSlot \/ TakeRow \/ TakeType
  <2>1. UNCHANGED Reads /\ HasSlot /\ cursor' = cursor + HalfSize
    BY <1>1 DEF SkipSlot, TakeRow, TakeType, Reads
  <2>2. PICK n \in Nat : SlotsPassed(n)
    BY <2>1 DEF SlotsInv, HasSlot, SlotCalls
  <2>3. /\ phase = "rows" /\ Len(rows) = Numbered(Decodable, n)
        /\ n + 1 \in Decodable <=> Row # None
        /\ Numbered(Decodable, n + 1) = Len(rows) + (IF Row = None THEN 0 ELSE 1)
        /\ SlotRow(n + 1) = Row
        /\ cursor' = (n + 1) * HalfSize
    BY <2>1, <2>2, SlotMore DEF HasSlot
  <2>4. /\ Decodable' = Decodable /\ \A k : SlotRow(k)' = SlotRow(k)
        /\ \A row : Header(row)' = Header(row)
        /\ Decodable \in SUBSET (Nat \ {0})
    BY <2>1, SlotSame, DecodableFacts
  <2>5. IsSequence(rows) /\ Len(rows) \in Nat
    BY SequenceFacts DEF ShapeInv
  <2>6. \A k \in Decodable : /\ Numbered(Decodable, k) \in Nat \ {0}
                             /\ Numbered(Decodable, k) <= Len(rows) =>
                                  Header(rows[Numbered(Decodable, k)]) = SlotRow(k)
    BY <2>2, <2>4, NumberedIn DEF SlotsPassed
  <2>7. CASE SkipSlot
    <3>1. phase' = "rows" /\ Row = None /\ rows' = rows /\ Pending' = 0
      BY <2>3, <2>7 DEF SkipSlot, Pending
    <3>2. SlotsPassed(n + 1)'
      BY <2>3, <2>4, <2>5, <2>6, <3>1 DEF SlotsPassed
    <3> QED BY <3>2 DEF SlotsInv
  <2>8. CASE TakeRow
    <3>1. /\ phase' = "rows" /\ Row # None /\ rows' = Append(rows, Row) /\ Pending' = 0
          /\ call # "types"
      BY <2>3, <2>8 DEF TakeRow, Pending
    <3>2. /\ Len(rows') = Len(rows) + 1
          /\ \A k \in 1 .. Len(rows) : rows'[k] = rows[k]
          /\ rows'[Len(rows) + 1] = Row
      BY <2>5, <3>1, SequenceAppend
    <3>3. Header(Row) = Row
      BY <3>1 DEF Header
    <3>4. ASSUME NEW k \in Decodable, Numbered(Decodable, k) <= Len(rows')
          PROVE  Header(rows'[Numbered(Decodable, k)]) = SlotRow(k)
      <4>1. CASE Numbered(Decodable, k) <= Len(rows)
        BY <2>5, <2>6, <3>2, <4>1
      <4>2. CASE ~(Numbered(Decodable, k) <= Len(rows))
        <5>1. Numbered(Decodable, k) = Len(rows) + 1
          BY <2>5, <2>6, <3>2, <3>4, <4>2
        <5>2. k = n + 1
          BY <2>3, <2>4, <3>1, <5>1, NumberedApart
        <5> QED BY <2>3, <3>2, <3>3, <5>1, <5>2
      <4> QED BY <4>1, <4>2
    <3>5. SlotsPassed(n + 1)'
      <4>1. Len(rows') + Pending' = Numbered(Decodable', n + 1)
        BY <2>3, <2>4, <2>5, <3>1, <3>2
      <4>2. ASSUME NEW k \in Decodable', Numbered(Decodable', k) <= Len(rows')
            PROVE  Header(rows[Numbered(Decodable, k)])' = SlotRow(k)'
        <5>1. Header(rows'[Numbered(Decodable, k)]) = SlotRow(k)
          BY <2>4, <3>4, <4>2
        <5> QED BY <2>1, <2>4, <5>1 DEF Header, Reads
      <4> QED BY <2>3, <3>1, <4>1, <4>2 DEF SlotsPassed
    <3> QED BY <3>5 DEF SlotsInv
  <2>9. CASE TakeType
    <3>1. /\ phase' = "trailers" /\ Row # None /\ rows' = rows /\ Pending' = 1
          /\ type' = Row /\ call = "types"
      BY <2>9 DEF TakeType, Pending
    <3>2. [type' EXCEPT !.blocks = <<>>] = Row
      <4>1. IsType(Row) /\ Row.blocks = <<>>
        BY <3>1, RowIsType DEF Row
      <4> QED BY <3>1, <4>1 DEF IsType
    <3>3. SlotsPassed(n + 1)'
      BY <2>3, <2>4, <2>5, <2>6, <3>1, <3>2 DEF SlotsPassed
    <3> QED BY <3>3 DEF SlotsInv
  <2> QED BY <1>1, <2>7, <2>8, <2>9
<1>2. CASE EndTrailers
  <2> DEFINE row == [type |-> type, offsets |-> FieldOffsets]
  <2>1. /\ UNCHANGED Reads /\ UNCHANGED cursor /\ phase = "trailers" /\ phase' = "entries"
        /\ rows' = Append(rows, row) /\ call = "types" /\ Pending = 1 /\ Pending' = 0
    BY <1>2 DEF EndTrailers, Reads, PhaseInv, Pending
  <2>2. PICK n \in Nat : SlotsPassed(n)
    BY <2>1 DEF SlotsInv, SlotCalls
  <2>3. Header(row) = [type EXCEPT !.blocks = <<>>]
    BY <2>1 DEF Header
  <2> HIDE DEF row
  <2>4. /\ Decodable' = Decodable /\ \A k : SlotRow(k)' = SlotRow(k)
        /\ \A r : Header(r)' = Header(r)
        /\ Decodable \in SUBSET (Nat \ {0})
    BY <2>1, SlotSame, DecodableFacts
  <2>5. /\ Len(rows) \in Nat /\ Len(rows') = Len(rows) + 1
        /\ \A k \in 1 .. Len(rows) : rows'[k] = rows[k]
        /\ rows'[Len(rows) + 1] = row
    BY <2>1, SequenceAppend DEF ShapeInv
  <2>6. ASSUME NEW k \in Decodable, Numbered(Decodable, k) <= Len(rows')
        PROVE  Header(rows'[Numbered(Decodable, k)]) = SlotRow(k)
    <3>1. Numbered(Decodable, k) \in Nat \ {0}
      BY <2>4, NumberedIn
    <3>2. CASE Numbered(Decodable, k) <= Len(rows)
      BY <2>2, <2>5, <3>1, <3>2 DEF SlotsPassed
    <3>3. CASE ~(Numbered(Decodable, k) <= Len(rows))
      <4>1. Numbered(Decodable, k) = Len(rows) + 1
        BY <2>5, <2>6, <3>1, <3>3
      <4>2. n \in Decodable /\ Numbered(Decodable, n) = Len(rows) + 1
        BY <2>1, <2>2 DEF SlotsPassed
      <4>3. k = n
        BY <2>4, <4>1, <4>2, NumberedApart
      <4> QED BY <2>1, <2>2, <2>3, <2>5, <4>1, <4>3 DEF SlotsPassed
    <3> QED BY <3>2, <3>3
  <2>7. SlotsPassed(n)'
    <3>1. cursor' = n * HalfSize /\ Len(rows') + Pending' = Numbered(Decodable', n)
      BY <2>1, <2>2, <2>4, <2>5 DEF SlotsPassed
    <3>2. ASSUME NEW k \in Decodable', Numbered(Decodable', k) <= Len(rows')
          PROVE  Header(rows[Numbered(Decodable, k)])' = SlotRow(k)'
      <4>1. Header(rows'[Numbered(Decodable, k)]) = SlotRow(k)
        BY <2>4, <2>6, <3>2
      <4> QED BY <2>1, <2>4, <4>1 DEF Header, Reads
    <3> QED BY <2>1, <3>1, <3>2 DEF SlotsPassed
  <2> QED BY <2>7 DEF SlotsInv
<1>3. CASE WalkTrailers
  <2>1. /\ UNCHANGED Reads /\ UNCHANGED <<cursor, rows, phase>>
        /\ [type' EXCEPT !.blocks = <<>>] = [type EXCEPT !.blocks = <<>>]
        /\ phase = "trailers"
    BY <1>3, WalkFacts DEF WalkTrailers, Reads
  <2>2. Pending' = Pending
    BY <2>1 DEF Pending
  <2> QED BY <2>1, <2>2, SlotsSame
<1>4. CASE TakeFields \/ TakeCapture \/ TakeReplacement
  BY <1>4 DEF TakeFields, TakeCapture, TakeReplacement, HasFields, HasCapture, HasReplacement,
              SlotsInv, SlotCalls
<1>5. CASE Build \/ NotSwift \/ EndRows \/ TakeEntry \/ EndTable \/ EndEntries
  <2>1. /\ UNCHANGED Reads /\ UNCHANGED <<cursor, rows>>
        /\ phase # "trailers" /\ phase' # "trailers"
        /\ phase' = "done" => ~IsSwift \/ (phase = "rows" /\ ~HasSlot)
    BY <1>5 DEF Build, NotSwift, EndRows, TakeEntry, EndTable, EndEntries, Reads
  <2>2. Pending' = Pending
    BY <2>1 DEF Pending
  <2> QED BY <2>1, <2>2, SlotsSame
<1>6. CASE Returned \/ UNCHANGED vars
  <2>1. UNCHANGED Reads /\ UNCHANGED <<cursor, rows, phase, type>>
    BY <1>6 DEF Returned, vars, trailerVars, Reads
  <2>2. Pending' = Pending
    BY <2>1 DEF Pending
  <2> QED BY <2>1, <2>2, SlotsSame
<1> QED BY <1>1, <1>2, <1>3, <1>4, <1>5, <1>6 DEF Next, Work

LEMMA SlotsSound == PhaseInv /\ ShapeInv /\ SlotsInv => SlotsInOrder
<1> SUFFICES ASSUME PhaseInv, ShapeInv, SlotsInv, phase = "done", call \in SlotCalls
             PROVE  /\ Len(rows) = Cardinality(Decodable)
                    /\ \A k \in Decodable : Header(rows[Numbered(Decodable, k)]) = SlotRow(k)
  BY DEF SlotsInOrder, SlotCalls
<1>1. PICK n \in Nat : SlotsPassed(n)
  BY DEF SlotsInv
<1>2. Decodable \in SUBSET (Nat \ {0}) /\ Decodable \in SUBSET Nat
      /\ \A k \in Decodable : k <= n
  BY <1>1, DecodableFacts DEF SlotsPassed
<1>3. Cardinality(Decodable) = Numbered(Decodable, n)
  BY <1>2, NumberedAll
<1>4. Len(rows) = Numbered(Decodable, n)
  <2>1. Len(rows) \in Nat
    BY SequenceFacts DEF ShapeInv
  <2> QED BY <1>1, <2>1 DEF SlotsPassed, Pending
<1>5. ASSUME NEW k \in Decodable PROVE Numbered(Decodable, k) <= Len(rows)
  BY <1>2, <1>4, NumberedIn
<1> QED BY <1>1, <1>3, <1>4, <1>5 DEF SlotsPassed
-----------------------------------------------------------------------------
(* The records of a section *)

(* Where the next record is. *)
Upcoming == IF call = "replacements" THEN Scope ELSE cursor

RecordHere(k) ==
  /\ Position(k) = Follows(k - 1) /\ Fits(Position(k), k - 1)
  /\ rows[k] = Record(Position(k))

RecordsInv ==
  call \in RecordCalls =>
    /\ \A k \in 1 .. Len(rows) : RecordHere(k)
    /\ Follows(Len(rows)) = Upcoming
    /\ phase = "done" /\ IsSwift => ~Fits(Follows(Len(rows)), Len(rows))

LEMMA RecordAddress ==
  ASSUME call \in RecordCalls, NEW position
  PROVE  Record(position).address = Section.address + position
BY DEF RecordCalls, Record, FieldRow, CaptureRow, ReplacementRow

LEMMA RecordsInit == Init => RecordsInv
<1> SUFFICES ASSUME Init PROVE RecordsInv
  OBVIOUS
<1>1. rows = <<>> /\ cursor = 0 /\ phase = "build" /\ Len(rows) = 0
  BY SequenceEmpty DEF Init
<1> QED BY <1>1 DEF RecordsInv, Follows, Upcoming, Scope

LEMMA RecordsSame ==
  ASSUME RecordsInv, UNCHANGED Reads, UNCHANGED <<cursor, rows>>,
         call \in RecordCalls /\ phase' = "done" /\ IsSwift =>
           phase = "done" \/ ~Fits(Follows(Len(rows)), Len(rows))
  PROVE  RecordsInv'
<1> SUFFICES ASSUME call \in RecordCalls PROVE RecordsInv'
  BY DEF RecordsInv, Reads
<1>1. /\ Section' = Section /\ IsSwift' = IsSwift /\ Upcoming' = Upcoming
      /\ \A position : Record(position)' = Record(position)
      /\ \A position : After(position)' = After(position)
      /\ \A position, passed : Fits(position, passed)' = Fits(position, passed)
  BY SlotSame, RecordSame DEF Upcoming, Scope, Reads
<1>2. \A k : Position(k)' = Position(k)
  BY <1>1 DEF Position
<1>3. \A k : Follows(k)' = Follows(k)
  BY <1>1, <1>2 DEF Follows, Reads
<1>4. \A k : RecordHere(k)' <=> RecordHere(k)
  BY <1>1, <1>2, <1>3 DEF RecordHere
<1> QED BY <1>1, <1>3, <1>4 DEF RecordsInv

(* One more record, where the one before it ends. *)
LEMMA RecordsMore ==
  ASSUME PhaseInv, ShapeInv, RecordsInv, UNCHANGED Reads, call \in RecordCalls,
         Upcoming \in Nat, Fits(Upcoming, Len(rows)), rows' = Append(rows, Record(Upcoming)),
         Upcoming' = After(Upcoming), phase' # "done"
  PROVE  RecordsInv'
<1> SUFFICES ASSUME NEW n, n = Len(rows), NEW p, p = Upcoming PROVE RecordsInv'
  OBVIOUS
<1>1. /\ n \in Nat /\ Len(rows') = n + 1
      /\ \A k \in 1 .. n : rows'[k] = rows[k]
      /\ rows'[n + 1] = Record(p)
  BY SequenceAppend DEF ShapeInv
<1>2. /\ Section' = Section /\ call' = call
      /\ \A position : Record(position)' = Record(position)
      /\ \A position : After(position)' = After(position)
      /\ \A position, passed : Fits(position, passed)' = Fits(position, passed)
  BY SlotSame, RecordSame DEF Reads
<1>3. \A k \in 1 .. n : RecordHere(k) /\ Follows(n) = p
  BY DEF RecordsInv
<1>4. \A k \in 1 .. n : Position(k)' = Position(k)
  BY <1>1, <1>2 DEF Position
<1>5. Position(n + 1)' = p
  <2>1. Section # None /\ Section.address \in Nat
    BY AfterFacts, SectionFacts
  <2>2. rows'[n + 1].address = Section.address + p
    BY <1>1, RecordAddress
  <2> QED BY <1>2, <2>1, <2>2 DEF Position
<1>6. ASSUME NEW k \in 0 .. n PROVE Follows(k)' = Follows(k)
  <2>1. k = 0 \/ k \in 1 .. n
    BY <1>1
  <2> QED BY <1>2, <1>4, <2>1 DEF Follows
<1>7. Follows(n + 1)' = Upcoming'
  <2>1. n + 1 # 0
    BY <1>1
  <2> QED BY <1>2, <1>5, <2>1 DEF Follows
<1>8. Follows(n) = p
  BY DEF RecordsInv
<1>9. ASSUME NEW k \in 1 .. n + 1 PROVE RecordHere(k)'
  <2>1. k - 1 \in 0 .. n
    BY <1>1
  <2>2. Follows(k - 1)' = Follows(k - 1)
    BY <1>6, <2>1
  <2>3. CASE k \in 1 .. n
    <3>1. Position(k)' = Position(k) /\ rows'[k] = rows[k] /\ RecordHere(k)
      BY <1>1, <1>3, <1>4, <2>3
    <3> QED BY <1>2, <2>2, <3>1 DEF RecordHere
  <2>4. CASE k \notin 1 .. n
    <3>1. k = n + 1 /\ k - 1 = n
      BY <1>1, <2>4
    <3>2. Follows(n)' = p
      BY <1>8, <2>2, <3>1
    <3> QED BY <1>1, <1>2, <1>5, <3>1, <3>2 DEF RecordHere
  <2> QED BY <2>3, <2>4
<1> QED BY <1>1, <1>2, <1>7, <1>9 DEF RecordsInv

LEMMA RecordsStep ==
  ASSUME PhaseInv, ShapeInv, RecordsInv, [Next]_vars
  PROVE  RecordsInv'
<1>1. CASE TakeFields \/ TakeCapture
  <2>1. /\ UNCHANGED Reads /\ call \in {"fields", "captures"} /\ Fits(cursor, Len(rows))
        /\ cursor' = After(cursor) /\ rows' = Append(rows, Record(cursor)) /\ phase' # "done"
    BY <1>1 DEF TakeFields, TakeCapture, HasFields, HasCapture, Fits, After, Record, Reads
  <2>2. Upcoming = cursor /\ Upcoming' = cursor' /\ cursor \in Nat
    BY <2>1 DEF Upcoming, ShapeInv, Reads
  <2> QED BY <2>1, <2>2, RecordsMore DEF RecordCalls
<1>2. CASE TakeReplacement
  <2>1. /\ UNCHANGED Reads /\ call = "replacements" /\ Fits(Scope, Len(rows))
        /\ cursor' = Scope + 8 /\ rows' = Append(rows, Record(Scope)) /\ phase' # "done"
        /\ After(Scope) = Scope + 8
    BY <1>2 DEF TakeReplacement, HasReplacement, Fits, After, Record, Reads
  <2>2. Scope \in Nat /\ Scope + 8 # 0
    BY DEF Scope, ShapeInv
  <2>3. Upcoming = Scope /\ Upcoming' = Scope + 8
    BY <2>1, <2>2 DEF Upcoming, Scope, Reads
  <2> QED BY <2>1, <2>2, <2>3, RecordsMore DEF RecordCalls
<1>3. CASE EndRows
  <2>1. ASSUME call \in RecordCalls PROVE ~Fits(Follows(Len(rows)), Len(rows))
    <3>1. Follows(Len(rows)) = Upcoming /\ phase = "rows"
      BY <1>3, <2>1 DEF RecordsInv, EndRows
    <3> QED BY <1>3, <2>1, <3>1
            DEF EndRows, HasFields, HasCapture, HasReplacement, Fits, Upcoming, RecordCalls
  <2> QED BY <1>3, <2>1, RecordsSame DEF EndRows, Reads
<1>4. CASE SkipSlot \/ TakeRow \/ TakeType \/ EndTrailers
  BY <1>4 DEF SkipSlot, TakeRow, TakeType, EndTrailers, HasSlot, PhaseInv, RecordsInv,
              RecordCalls
<1>5. CASE NotSwift
  BY <1>5, RecordsSame DEF NotSwift, Reads
<1>6. CASE Build \/ WalkTrailers \/ TakeEntry \/ EndTable \/ EndEntries
  <2>1. UNCHANGED Reads /\ UNCHANGED <<cursor, rows>> /\ phase' # "done"
    BY <1>6 DEF Build, WalkTrailers, TakeEntry, EndTable, EndEntries, Reads
  <2> QED BY <2>1, RecordsSame
<1>7. CASE Returned \/ UNCHANGED vars
  BY <1>7, RecordsSame DEF Returned, vars, Reads
<1> QED BY <1>1, <1>2, <1>3, <1>4, <1>5, <1>6, <1>7 DEF Next, Work

LEMMA RecordsSound == ShapeInv /\ RecordsInv => RecordsFollow
<1> SUFFICES ASSUME ShapeInv, RecordsInv, call \in RecordCalls PROVE RecordsFollow
  BY DEF RecordsFollow, RecordCalls
<1>1. DOMAIN rows = 1 .. Len(rows)
  BY SequenceFacts DEF ShapeInv
<1> QED BY <1>1 DEF RecordsInv, RecordsFollow, RecordHere
-----------------------------------------------------------------------------
(* The trailing objects of a descriptor *)

Names ==
  {"generic", "resilient superclass", "foreign", "singleton", "vtable", "override table",
   "stub", "prespecializations", "invertible", "metadata pointer", "default overrides"}

(* The objects found so far: each is read behind the one before it. *)
Chained(found) ==
  \A j \in DOMAIN found.blocks :
    /\ found.blocks[j] = Block(found.blocks[j].of, Behind(found, j - 1))
    /\ Known(found.blocks[j].of, Behind(found, j - 1))
    /\ found.blocks[j].of \in Names

Named(found) ==
  \A k \in Flagged(found) :
    Numbered(Flagged(found), k) <= Len(found.blocks) =>
      found.blocks[Numbered(Flagged(found), k)].of = Blocks(found)[k]

(* Those the flags announce among the ones that were considered. *)
WalkedTo(found, va, passed) ==
  /\ Len(found.blocks) = Numbered(Flagged(found), passed)
  /\ Named(found)
  /\ va = Behind(found, Len(found.blocks))

Walking == WalkedTo(type, at, block)

TrailersInv ==
  call = "types" =>
    /\ \A k \in 1 .. Len(rows) : Laid(rows[k].type) /\ Chained(rows[k].type)
    /\ phase = "trailers" =>
         /\ block \in 0 .. Len(Blocks(type)) /\ Chained(type)
         /\ Walking \/ (block = Len(Blocks(type)) /\ Laid(type))

LEMMA BlocksFacts ==
  ASSUME NEW found, found.body.kind \in Kinds
  PROVE  /\ Len(Blocks(found)) \in Nat /\ DOMAIN Blocks(found) = 1 .. Len(Blocks(found))
         /\ \A k \in 1 .. Len(Blocks(found)) : Blocks(found)[k] \in Names
         /\ Flagged(found) \in SUBSET (Nat \ {0}) /\ Flagged(found) \in SUBSET Nat
         /\ \A k \in Flagged(found) : k <= Len(Blocks(found))
         /\ \A k \in 1 .. Len(Blocks(found)) :
              k \in Flagged(found) <=> Has(found, Blocks(found)[k])
<1>1. ClassBlocks \in Seq(Names)
  BY DEF ClassBlocks, Names
<1>2. ValueBlocks \in Seq(Names)
  BY DEF ValueBlocks, Names
<1>3. Blocks(found) \in Seq(Names)
  BY <1>1, <1>2 DEF Blocks, Kinds
<1>4. /\ Len(Blocks(found)) \in Nat /\ DOMAIN Blocks(found) = 1 .. Len(Blocks(found))
      /\ \A k \in 1 .. Len(Blocks(found)) : Blocks(found)[k] \in Names
  BY <1>3
<1>5. \A k \in Flagged(found) : k \in 1 .. Len(Blocks(found))
  BY <1>4 DEF Flagged
<1> QED BY <1>4, <1>5 DEF Flagged

LEMMA CountType ==
  ASSUME PhaseInv, NEW name \in Names, NEW va
  PROVE  Block(name, va).count \in Nat
<1>1. Half(va) \in Nat /\ Half(va + 4) \in Nat
  BY WordFacts
<1>2. Count(name, va) \in Nat
  BY <1>1 DEF Count, Names
<1> QED BY <1>2 DEF Block

LEMMA WalkedIsLaid ==
  ASSUME PhaseInv, ShapeInv, phase = "trailers", Chained(type), Walking,
         block \in 0 .. Len(Blocks(type)),
         \/ block = Len(Blocks(type))
         \/ block < Len(Blocks(type)) /\ Has(type, NextBlock) /\ ~Known(NextBlock, at)
  PROVE  Laid(type)
<1> DEFINE F == Flagged(type)
           n == Len(type.blocks)
           last == Len(Blocks(type))
<1>1. /\ last \in Nat /\ F \in SUBSET (Nat \ {0}) /\ F \in SUBSET Nat
      /\ \A k \in F : k <= last
      /\ \A k \in 1 .. last : k \in F <=> Has(type, Blocks(type)[k])
  BY BlocksFacts DEF ShapeInv
<1>2. n \in Nat /\ DOMAIN type.blocks = 1 .. n
  BY SequenceFacts DEF ShapeInv
<1>3. /\ n = Numbered(F, block) /\ at = Behind(type, n) /\ block \in Nat /\ block <= last
      /\ \A k \in F : Numbered(F, k) <= n => type.blocks[Numbered(F, k)].of = Blocks(type)[k]
  BY DEF Walking, WalkedTo, Named
<1>4. Cardinality(F) = Numbered(F, last) /\ n <= Cardinality(F)
  <2> HIDE DEF F, n, last
  <2>1. Cardinality(F) = Numbered(F, last)
    BY <1>1, NumberedAll
  <2>2. Numbered(F, block) <= Numbered(F, last)
    BY <1>1, <1>3, NumberedUpTo
  <2> QED BY <1>3, <2>1, <2>2
<1>5. ASSUME NEW k \in F, Numbered(F, k) = n + 1
      PROVE  ~Known(Blocks(type)[k], Behind(type, (n + 1) - 1))
  <2>1. CASE block = last
    <3>1. Numbered(F, k) <= Numbered(F, last)
      <4> HIDE DEF F, last
      <4> QED BY <1>1, NumberedIn
    <3> QED BY <1>2, <1>3, <1>5, <2>1, <3>1
  <2>2. CASE block < last /\ Has(type, NextBlock) /\ ~Known(NextBlock, at)
    <3>1. block + 1 \in F /\ NextBlock = Blocks(type)[block + 1]
      BY <1>1, <1>3, <2>2 DEF NextBlock
    <3>2. Numbered(F, block + 1) = n + 1
      <4> HIDE DEF F, n
      <4> QED BY <1>1, <1>3, <3>1, NumberedMore
    <3>3. k = block + 1
      <4> HIDE DEF F, n
      <4> QED BY <1>1, <1>5, <3>1, <3>2, NumberedApart
    <3>4. (n + 1) - 1 = n
      BY <1>2
    <3> QED BY <1>3, <2>2, <3>1, <3>3, <3>4
  <2> QED BY <2>1, <2>2
<1> QED BY <1>2, <1>3, <1>4, <1>5 DEF Laid, Chained

(* What a descriptor says of its first objects stays as more are found. *)
LEMMA ChainSame ==
  ASSUME UNCHANGED Reads
  PROVE  \A found : Chained(found)' = Chained(found)
<1>1. \A found, j : Behind(found, j)' = Behind(found, j)
  BY BlockSame DEF Behind
<1> QED BY <1>1, BlockSame DEF Chained

LEMMA WalkSame ==
  ASSUME UNCHANGED Reads
  PROVE  \A found, va, passed : WalkedTo(found, va, passed)' <=> WalkedTo(found, va, passed)
<1>1. \A found, j : Behind(found, j)' = Behind(found, j)
  BY BlockSame DEF Behind
<1> SUFFICES ASSUME NEW found, NEW va, NEW passed
             PROVE  WalkedTo(found, va, passed)' <=> WalkedTo(found, va, passed)
  OBVIOUS
<1>2. Named(found)' <=> Named(found)
  BY DEF Named, Flagged, Blocks, Has, Numbered
<1>3. Numbered(Flagged(found), passed)' = Numbered(Flagged(found), passed)
  BY DEF Flagged, Blocks, Has, Numbered
<1> QED BY <1>1, <1>2, <1>3 DEF WalkedTo

LEMMA WalkLater ==
  ASSUME UNCHANGED Reads, WalkedTo(type', at', block')
  PROVE  Walking'
<1> SUFFICES ASSUME NEW found, found = type', NEW va, va = at', NEW passed, passed = block',
                    WalkedTo(found, va, passed)
             PROVE  Walking'
  OBVIOUS
<1>1. WalkedTo(found, va, passed)'
  BY WalkSame
<1> QED BY <1>1 DEF Walking, WalkedTo, Named, Flagged, Blocks, Has, Behind, Numbered

LEMMA LaidLater ==
  ASSUME UNCHANGED Reads, Laid(type')
  PROVE  Laid(type)'
<1> SUFFICES ASSUME NEW found, found = type', Laid(found) PROVE Laid(type)'
  OBVIOUS
<1>1. Laid(found)'
  BY BlockSame
<1>2. Flagged(type)' = Flagged(found) /\ Blocks(type)' = Blocks(found)
  BY DEF Flagged, Blocks, Has
<1>3. \A j : Behind(type, j)' = Behind(found, j)'
  BY DEF Behind
<1>4. \A k : Numbered(Flagged(type), k)' = Numbered(Flagged(found), k)
  BY <1>2 DEF Numbered
<1>5. \A j \in DOMAIN found.blocks :
        /\ found.blocks[j] = Block(found.blocks[j].of, Behind(found, j - 1))'
        /\ Known(found.blocks[j].of, Behind(found, j - 1))'
  BY <1>1 DEF Laid
<1>6. \A j \in DOMAIN found.blocks :
        /\ found.blocks[j] = Block(found.blocks[j].of, Behind(type, j - 1))'
        /\ Known(found.blocks[j].of, Behind(type, j - 1))'
  BY <1>3, <1>5
<1>7. /\ Len(found.blocks) <= Cardinality(Flagged(found))
      /\ \A k \in Flagged(found) :
           /\ Numbered(Flagged(found), k) <= Len(found.blocks) =>
                found.blocks[Numbered(Flagged(found), k)].of = Blocks(found)[k]
           /\ Numbered(Flagged(found), k) = Len(found.blocks) + 1 =>
                ~Known(Blocks(found)[k], Behind(found, Numbered(Flagged(found), k) - 1))'
  BY <1>1 DEF Laid
<1> QED BY <1>2, <1>3, <1>4, <1>6, <1>7 DEF Laid

LEMMA ChainedLater ==
  ASSUME UNCHANGED Reads, Chained(type')
  PROVE  Chained(type)'
<1> SUFFICES ASSUME NEW found, found = type', Chained(found) PROVE Chained(type)'
  OBVIOUS
<1>1. Chained(found)'
  BY ChainSame
<1> QED BY <1>1 DEF Chained, Behind

LEMMA ChainMore ==
  ASSUME NEW found, NEW later, IsSequence(found.blocks), Chained(found),
         later.body = found.body, later.bits = found.bits, NEW name \in Names,
         later.blocks = Append(found.blocks, Block(name, Behind(found, Len(found.blocks)))),
         Known(name, Behind(found, Len(found.blocks)))
  PROVE  /\ Chained(later) /\ Flagged(later) = Flagged(found) /\ Blocks(later) = Blocks(found)
         /\ Len(found.blocks) \in Nat /\ Len(later.blocks) = Len(found.blocks) + 1
         /\ \A j \in 1 .. Len(found.blocks) : later.blocks[j] = found.blocks[j]
         /\ later.blocks[Len(found.blocks) + 1].of = name
         /\ Behind(later, Len(found.blocks) + 1) =
              Behind(found, Len(found.blocks)) + Size(name, Behind(found, Len(found.blocks)))
<1> DEFINE n == Len(found.blocks)
           va == Behind(found, n)
<1>1. /\ n \in Nat /\ Len(later.blocks) = n + 1 /\ DOMAIN found.blocks = 1 .. n
      /\ DOMAIN later.blocks = 1 .. n + 1
      /\ \A j \in 1 .. n : later.blocks[j] = found.blocks[j]
      /\ later.blocks[n + 1] = Block(name, va)
  BY SequenceAppend
<1>2. Block(name, va).of = name /\ Block(name, va).at = va
  BY DEF Block
<1>3. \A j \in 0 .. n : Behind(later, j) = Behind(found, j)
  <2>1. ASSUME NEW j \in 0 .. n PROVE Behind(later, j) = Behind(found, j)
    <3>1. j = 0 \/ j \in 1 .. n
      BY <1>1
    <3> QED BY <1>1, <3>1 DEF Behind
  <2> QED BY <2>1
<1>4. Behind(later, n + 1) = va + Size(name, va)
  <2>1. n + 1 # 0
    BY <1>1
  <2> QED BY <1>1, <1>2, <2>1 DEF Behind
<1>5. Blocks(later) = Blocks(found)
  BY DEF Blocks
<1>6. Flagged(later) = Flagged(found)
  <2>1. \A x : Has(later, x) = Has(found, x)
    BY DEF Has
  <2> QED BY <1>5, <2>1 DEF Flagged
<1> HIDE DEF va
<1>7. ASSUME NEW j \in 1 .. n + 1
      PROVE  /\ later.blocks[j] = Block(later.blocks[j].of, Behind(later, j - 1))
             /\ Known(later.blocks[j].of, Behind(later, j - 1))
             /\ later.blocks[j].of \in Names
  <2>1. j - 1 \in 0 .. n
    BY <1>1
  <2>2. Behind(later, j - 1) = Behind(found, j - 1)
    BY <1>3, <2>1
  <2>3. CASE j \in 1 .. n
    BY <1>1, <2>2, <2>3 DEF Chained
  <2>4. CASE j \notin 1 .. n
    <3>1. j = n + 1 /\ j - 1 = n
      BY <1>1, <2>4
    <3> QED BY <1>1, <1>2, <2>2, <3>1 DEF va
  <2> QED BY <2>3, <2>4
<1>8. Chained(later)
  BY <1>1, <1>7 DEF Chained
<1> QED BY <1>1, <1>2, <1>4, <1>5, <1>6, <1>8 DEF va

LEMMA TrailersInit == Init => TrailersInv
<1> SUFFICES ASSUME Init PROVE TrailersInv
  OBVIOUS
<1>1. rows = <<>> /\ phase = "build" /\ Len(rows) = 0
  BY SequenceEmpty DEF Init
<1> QED BY <1>1 DEF TrailersInv

LEMMA TrailersSame ==
  ASSUME TrailersInv, UNCHANGED Reads, UNCHANGED rows,
         phase' = "trailers" => UNCHANGED <<phase, type, at, block>>
  PROVE  TrailersInv'
<1> SUFFICES ASSUME call = "types" PROVE TrailersInv'
  BY DEF TrailersInv, Reads
<1>1. \A found : (Laid(found)' <=> Laid(found)) /\ (Chained(found)' <=> Chained(found))
  BY BlockSame, ChainSame
<1>2. \A k \in 1 .. Len(rows') : Laid(rows[k].type)' /\ Chained(rows[k].type)'
  BY <1>1 DEF TrailersInv
<1>3. ASSUME phase' = "trailers"
      PROVE  /\ block' \in 0 .. Len(Blocks(type)') /\ Chained(type)'
             /\ Walking' \/ (block' = Len(Blocks(type)') /\ Laid(type)')
  <2>1. /\ block \in 0 .. Len(Blocks(type)) /\ Chained(type)
        /\ Walking \/ (block = Len(Blocks(type)) /\ Laid(type))
        /\ UNCHANGED <<type, at, block>>
    BY <1>3 DEF TrailersInv
  <2>2. Blocks(type)' = Blocks(type)
    BY <2>1 DEF Blocks
  <2>3. Walking => Walking'
    BY <2>1, WalkLater DEF Walking
  <2>4. Laid(type) => Laid(type)'
    BY <2>1, LaidLater
  <2>5. Chained(type)'
    BY <2>1, ChainedLater
  <2> QED BY <2>1, <2>2, <2>3, <2>4, <2>5
<1> QED BY <1>2, <1>3 DEF TrailersInv

(* A step of the walk over the trailing objects. *)
LEMMA TrailersWalk ==
  ASSUME PhaseInv, ShapeInv, ShapeInv', TrailersInv, WalkTrailers
  PROVE  TrailersInv'
<1>1. /\ UNCHANGED Reads /\ UNCHANGED rows /\ call = "types" /\ phase = "trailers"
      /\ phase' = "trailers" /\ HasBlock
  BY DEF WalkTrailers, AbsentBlock, TakeBlock, LostBlock, PhaseInv, Reads
<1> SUFFICES ASSUME NEW F, F = Flagged(type), NEW n, n = Len(type.blocks),
                    NEW b, b = block, NEW last, last = Len(Blocks(type))
             PROVE  TrailersInv'
  OBVIOUS
<1>2. /\ last \in Nat /\ F \in SUBSET (Nat \ {0}) /\ F \in SUBSET Nat
      /\ \A k \in F : k <= last
      /\ \A k \in 1 .. last : Blocks(type)[k] \in Names
      /\ \A k \in 1 .. last : k \in F <=> Has(type, Blocks(type)[k])
  BY <1>1, BlocksFacts DEF ShapeInv
<1>3. IsSequence(type.blocks) /\ n \in Nat /\ DOMAIN type.blocks = 1 .. n
  BY <1>1, SequenceFacts DEF ShapeInv
<1>4. /\ b \in 0 .. last /\ b < last /\ Chained(type) /\ Walking
      /\ b \in Nat /\ b + 1 \in 1 .. last
  <2>1. b \in 0 .. last /\ b < last /\ Chained(type) /\ (Walking \/ b = last)
    BY <1>1 DEF TrailersInv, HasBlock
  <2> QED BY <1>2, <2>1
<1>5. /\ n = Numbered(F, b) /\ at = Behind(type, n)
      /\ \A k \in F : Numbered(F, k) <= n => type.blocks[Numbered(F, k)].of = Blocks(type)[k]
  BY <1>4 DEF Walking, WalkedTo, Named
<1>6. NextBlock = Blocks(type)[b + 1] /\ NextBlock \in Names
  BY <1>2, <1>4 DEF NextBlock
<1>7. Numbered(F, b + 1) = n + (IF b + 1 \in F THEN 1 ELSE 0)
  BY <1>2, <1>4, <1>5, NumberedMore
<1>8. \A found : (Laid(found)' <=> Laid(found)) /\ (Chained(found)' <=> Chained(found))
  BY <1>1, BlockSame, ChainSame
<1>9. \A found, j : Behind(found, j)' = Behind(found, j)
  BY <1>1, BlockSame DEF Behind
<1>10. \A k \in 1 .. Len(rows') : Laid(rows[k].type)' /\ Chained(rows[k].type)'
  BY <1>1, <1>8 DEF TrailersInv
<1>11. CASE AbsentBlock
  <2>1. UNCHANGED <<type, at>> /\ block' = b + 1 /\ b + 1 \notin F
    BY <1>2, <1>4, <1>6, <1>11 DEF AbsentBlock
  <2>2. Blocks(type)' = Blocks(type) /\ Chained(type)'
    BY <1>1, <1>4, <2>1, ChainedLater DEF Blocks
  <2>3. Walking'
    <3>1. WalkedTo(type, at, b + 1)
      BY <1>3, <1>4, <1>5, <1>7, <2>1 DEF Walking, WalkedTo
    <3> QED BY <1>1, <2>1, <3>1, WalkLater
  <2>4. block' \in 0 .. Len(Blocks(type)')
    BY <1>4, <2>1, <2>2
  <2> QED BY <1>10, <2>2, <2>3, <2>4 DEF TrailersInv
<1>12. CASE LostBlock
  <2>1. /\ UNCHANGED <<type, at>> /\ block' = last
        /\ Has(type, NextBlock) /\ ~Known(NextBlock, at)
    BY <1>12 DEF LostBlock
  <2>2. Laid(type)
    BY <1>1, <1>4, <2>1, WalkedIsLaid
  <2>3. /\ Laid(type)' /\ Chained(type)' /\ Blocks(type)' = Blocks(type)
    BY <1>1, <1>4, <2>1, <2>2, ChainedLater, LaidLater DEF Blocks
  <2>4. block' \in 0 .. Len(Blocks(type)') /\ block' = Len(Blocks(type)')
    BY <1>2, <2>1, <2>3
  <2> QED BY <1>10, <2>3, <2>4 DEF TrailersInv
<1>13. CASE TakeBlock
  <2>1. /\ block' = b + 1 /\ b + 1 \in F /\ at' = at + Size(NextBlock, at)
        /\ Known(NextBlock, at)
    BY <1>2, <1>4, <1>6, <1>13 DEF TakeBlock
  <2>2. /\ type'.blocks = Append(type.blocks, Block(NextBlock, at))
        /\ type'.body = type.body /\ type'.bits = type.bits
    BY <1>13, WalkFacts DEF AbsentBlock, LostBlock, TakeBlock
  <2> SUFFICES ASSUME NEW later, later = type' PROVE TrailersInv'
    OBVIOUS
  <2>3. /\ Chained(later) /\ Flagged(later) = F /\ Blocks(later) = Blocks(type)
        /\ Len(later.blocks) = n + 1
        /\ \A j \in 1 .. n : later.blocks[j] = type.blocks[j]
        /\ later.blocks[n + 1].of = NextBlock
        /\ Behind(later, n + 1) = at'
    <3>1. later.blocks = Append(type.blocks, Block(NextBlock, Behind(type, Len(type.blocks))))
      BY <1>5, <2>2
    <3>2. Known(NextBlock, Behind(type, Len(type.blocks)))
      BY <1>5, <2>1
    <3> HIDE DEF Chained, Flagged, Blocks, Behind, NextBlock
    <3>3. /\ Chained(later) /\ Flagged(later) = Flagged(type) /\ Blocks(later) = Blocks(type)
          /\ Len(later.blocks) = Len(type.blocks) + 1
          /\ \A j \in 1 .. Len(type.blocks) : later.blocks[j] = type.blocks[j]
          /\ later.blocks[Len(type.blocks) + 1].of = NextBlock
          /\ Behind(later, Len(type.blocks) + 1) =
               Behind(type, Len(type.blocks)) + Size(NextBlock, Behind(type, Len(type.blocks)))
      BY <1>3, <1>4, <1>6, <2>2, <3>1, <3>2, ChainMore
    <3> QED BY <1>5, <2>1, <3>3
  <2>4. Named(later)
    <3> SUFFICES ASSUME NEW k \in F, Numbered(F, k) <= n + 1
                 PROVE  later.blocks[Numbered(F, k)].of = Blocks(type)[k]
      BY <2>3 DEF Named
    <3>1. Numbered(F, k) \in Nat \ {0}
      BY <1>2, NumberedIn
    <3>2. CASE Numbered(F, k) <= n
      <4>1. Numbered(F, k) \in 1 .. n
        BY <1>3, <3>1, <3>2
      <4> QED BY <1>5, <2>3, <3>2, <4>1
    <3>3. CASE ~(Numbered(F, k) <= n)
      <4>1. Numbered(F, k) = n + 1 /\ Numbered(F, b + 1) = n + 1
        BY <1>3, <1>7, <2>1, <3>1, <3>3
      <4>2. k = b + 1
        BY <1>2, <2>1, <4>1, NumberedApart
      <4> QED BY <1>6, <2>3, <4>1, <4>2
    <3> QED BY <3>2, <3>3
  <2>5. Walking'
    <3>1. WalkedTo(later, at', b + 1)
      BY <1>7, <2>1, <2>3, <2>4 DEF WalkedTo
    <3> QED BY <1>1, <2>1, <3>1, WalkLater
  <2>6. Chained(type)' /\ Blocks(type)' = Blocks(type)
    <3>1. Chained(type)'
      BY <1>1, <2>3, ChainedLater
    <3>2. Blocks(type)' = Blocks(later)
      BY DEF Blocks
    <3> QED BY <2>3, <3>1, <3>2
  <2>7. block' \in 0 .. Len(Blocks(type)')
    BY <1>4, <2>1, <2>6
  <2> QED BY <1>10, <2>5, <2>6, <2>7 DEF TrailersInv
<1> QED BY <1>11, <1>12, <1>13 DEF WalkTrailers

LEMMA TrailersStep ==
  ASSUME PhaseInv, ShapeInv, ShapeInv', TrailersInv, [Next]_vars
  PROVE  TrailersInv'
<1>1. CASE WalkTrailers
  BY <1>1, TrailersWalk
<1>2. CASE EndTrailers
  <2> SUFFICES ASSUME NEW row, row = [type |-> type, offsets |-> FieldOffsets],
                      NEW n, n = Len(rows)
               PROVE  TrailersInv'
    OBVIOUS
  <2>1. /\ UNCHANGED Reads /\ phase = "trailers" /\ phase' = "entries" /\ ~HasBlock
        /\ call = "types" /\ rows' = Append(rows, row) /\ row.type = type
    BY <1>2 DEF EndTrailers, Reads, PhaseInv
  <2>2. Laid(type) /\ Chained(type)
    <3>1. /\ block \in 0 .. Len(Blocks(type)) /\ Chained(type)
          /\ Walking \/ (block = Len(Blocks(type)) /\ Laid(type))
      BY <2>1 DEF TrailersInv
    <3>2. Len(Blocks(type)) \in Nat
      BY <2>1, BlocksFacts DEF ShapeInv
    <3>3. block = Len(Blocks(type))
      BY <2>1, <3>1, <3>2 DEF HasBlock
    <3> QED BY <2>1, <3>1, <3>3, WalkedIsLaid
  <2>3. /\ n \in Nat /\ Len(rows') = n + 1
        /\ \A k \in 1 .. n : rows'[k] = rows[k]
        /\ rows'[n + 1] = row
    BY <2>1, SequenceAppend DEF ShapeInv
  <2>4. \A found : (Laid(found)' <=> Laid(found)) /\ (Chained(found)' <=> Chained(found))
    BY <2>1, BlockSame, ChainSame
  <2>5. ASSUME NEW k \in 1 .. n + 1 PROVE Laid(rows[k].type)' /\ Chained(rows[k].type)'
    <3> SUFFICES ASSUME NEW found, found = rows'[k].type PROVE Laid(found)' /\ Chained(found)'
      BY DEF Laid, Chained, Flagged, Blocks, Has, Behind
    <3>1. Laid(found) /\ Chained(found)
      <4>1. k \in 1 .. n \/ k = n + 1
        BY <2>3
      <4>2. CASE k \in 1 .. n
        <5>1. Laid(rows[k].type) /\ Chained(rows[k].type)
          BY <2>1, <4>2 DEF TrailersInv
        <5> QED BY <2>3, <4>2, <5>1
      <4>3. CASE k = n + 1
        BY <2>1, <2>2, <2>3, <4>3
      <4> QED BY <4>1, <4>2, <4>3
    <3> QED BY <2>4, <3>1
  <2> QED BY <2>1, <2>3, <2>5 DEF TrailersInv
<1>3. CASE TakeType
  <2>1. /\ UNCHANGED Reads /\ UNCHANGED rows /\ call = "types" /\ phase' = "trailers"
        /\ type' = Row /\ at' = Row.body.after /\ block' = 0 /\ Row # None
    BY <1>3 DEF TakeType, Reads
  <2> SUFFICES ASSUME NEW later, later = type' PROVE TrailersInv'
    OBVIOUS
  <2>2. later.blocks = <<>> /\ later.body.kind \in Kinds
    BY <2>1, RowIsType DEF Row
  <2>3. Len(later.blocks) = 0 /\ DOMAIN later.blocks = {}
    BY <2>2, SequenceEmpty
  <2>4. Numbered(Flagged(later), 0) = 0 /\ Len(Blocks(later)) \in Nat
        /\ \A k \in Flagged(later) : Numbered(Flagged(later), k) \in Nat \ {0}
    BY <2>2, BlocksFacts, NumberedNone, NumberedIn
  <2>5. Chained(later) /\ Named(later) /\ at' = Behind(later, 0)
    BY <2>1, <2>3, <2>4 DEF Chained, Named, Behind
  <2>6. Chained(type)' /\ Walking'
    <3>1. Chained(type)'
      BY <2>3 DEF Chained
    <3>2. Walking'
      BY <2>1, <2>3, <2>4, <2>5, WalkLater DEF WalkedTo
    <3> QED BY <3>1, <3>2
  <2>7. block' \in 0 .. Len(Blocks(type)')
    BY <2>1, <2>4 DEF Blocks
  <2>8. \A k \in 1 .. Len(rows') : Laid(rows[k].type)' /\ Chained(rows[k].type)'
    BY <2>1, BlockSame, ChainSame DEF TrailersInv
  <2> QED BY <2>6, <2>7, <2>8 DEF TrailersInv
<1>4. CASE TakeRow \/ TakeFields \/ TakeCapture \/ TakeReplacement
  BY <1>4 DEF TakeRow, TakeFields, TakeCapture, TakeReplacement, HasFields, HasCapture,
              HasReplacement, TrailersInv
<1>5. CASE Build \/ NotSwift \/ SkipSlot \/ EndRows \/ TakeEntry \/ EndTable \/ EndEntries
  <2>1. UNCHANGED Reads /\ UNCHANGED rows /\ phase' # "trailers"
    BY <1>5 DEF Build, NotSwift, SkipSlot, EndRows, TakeEntry, EndTable, EndEntries, HasSlot,
                Reads
  <2> QED BY <2>1, TrailersSame
<1>6. CASE Returned \/ UNCHANGED vars
  BY <1>6, TrailersSame DEF Returned, vars, trailerVars, Reads
<1> QED BY <1>1, <1>2, <1>3, <1>4, <1>5, <1>6 DEF Next, Work

LEMMA TrailersSound == ShapeInv /\ TrailersInv => TrailersFollow
<1> SUFFICES ASSUME ShapeInv, TrailersInv, call = "types" PROVE TrailersFollow
  BY DEF TrailersFollow
<1>1. DOMAIN rows = 1 .. Len(rows)
  BY SequenceFacts DEF ShapeInv
<1> QED BY <1>1 DEF TrailersInv, TrailersFollow
-----------------------------------------------------------------------------
(* Lists ordered by places: the member of a place stands at its rank. *)

Place == Nat \X Nat \X Nat

InOrder(list, places, value) ==
  /\ IsFiniteSet(places) /\ Len(list) = Cardinality(places)
  /\ \A p \in places : list[Rank(places, p)] = value[p]

LEMMA UpToFacts ==
  ASSUME NEW p \in Place, NEW q \in Place, p # q
  PROVE  UpTo(p, p) /\ (UpTo(p, q) => ~UpTo(q, p))
<1>1. /\ p[1] \in Nat /\ p[2] \in Nat /\ p[3] \in Nat
      /\ q[1] \in Nat /\ q[2] \in Nat /\ q[3] \in Nat
      /\ p[1] # q[1] \/ p[2] # q[2] \/ p[3] # q[3]
  BY DEF Place
<1> QED BY <1>1 DEF UpTo

LEMMA RankFacts ==
  ASSUME NEW places \in SUBSET Place, IsFiniteSet(places), NEW p \in places
  PROVE  Rank(places, p) \in 1 .. Cardinality(places) /\ Cardinality(places) \in Nat
<1> DEFINE below == {q \in places : UpTo(q, p)}
<1>1. p \in below /\ below \subseteq places
  <2>1. UpTo(p, p)
    <3>1. p \in Place
      OBVIOUS
    <3>2. p[1] \in Nat /\ p[2] \in Nat /\ p[3] \in Nat
      BY <3>1 DEF Place
    <3> QED BY <3>2 DEF UpTo
  <2> QED BY <2>1
<1>2. IsFiniteSet(below) /\ Cardinality(below) <= Cardinality(places)
  BY <1>1, FS_Subset
<1>3. Cardinality(below) \in Nat /\ Cardinality(places) \in Nat /\ Cardinality(below) # 0
  BY <1>1, <1>2, FS_CardinalityType, FS_EmptySet
<1> QED BY <1>2, <1>3 DEF Rank

(* One more member, whose place is behind those of the others. *)
LEMMA InOrderMore ==
  ASSUME NEW places \in SUBSET Place, NEW q \in Place, q \notin places,
         \A p \in places : UpTo(p, q),
         NEW list, IsSequence(list), NEW value, NEW later, InOrder(list, places, value),
         \A p \in places : later[p] = value[p]
  PROVE  InOrder(Append(list, later[q]), places \cup {q}, later)
<1> DEFINE more == Append(list, later[q])
           all == places \cup {q}
<1>1. /\ IsFiniteSet(places) /\ Len(list) = Cardinality(places)
      /\ \A p \in places : list[Rank(places, p)] = value[p]
      /\ Cardinality(places) \in Nat
  BY FS_CardinalityType DEF InOrder
<1>2. IsFiniteSet(all) /\ Cardinality(all) = Cardinality(places) + 1
  BY <1>1, FS_AddElement
<1>3. /\ Len(more) = Len(list) + 1
      /\ \A k \in 1 .. Len(list) : more[k] = list[k]
      /\ more[Len(list) + 1] = later[q]
  BY SequenceAppend
<1>4. ASSUME NEW p \in places PROVE more[Rank(all, p)] = later[p]
  <2>1. ~UpTo(q, p)
    BY UpToFacts
  <2>2. {r \in all : UpTo(r, p)} = {r \in places : UpTo(r, p)}
    BY <2>1
  <2>3. Rank(all, p) = Rank(places, p)
    <3> HIDE DEF all
    <3> QED BY <2>2 DEF Rank
  <2>4. Rank(places, p) \in 1 .. Len(list)
    BY <1>1, RankFacts
  <2> HIDE DEF more, all
  <2> QED BY <1>1, <1>3, <2>3, <2>4
<1>5. more[Rank(all, q)] = later[q]
  <2>1. q[1] \in Nat /\ q[2] \in Nat /\ q[3] \in Nat
    BY DEF Place
  <2>2. UpTo(q, q)
    BY <2>1 DEF UpTo
  <2>3. {r \in all : UpTo(r, q)} = all
    BY <2>2
  <2>4. Rank(all, q) = Cardinality(all)
    <3> HIDE DEF all
    <3> QED BY <2>3 DEF Rank
  <2> HIDE DEF more, all
  <2> QED BY <1>1, <1>2, <1>3, <2>4
<1> HIDE DEF more
<1>6. \A p \in all : more[Rank(all, p)] = later[p]
  BY <1>4, <1>5
<1> HIDE DEF all
<1>7. InOrder(more, all, later)
  BY <1>1, <1>2, <1>3, <1>6 DEF InOrder
<1> QED BY <1>7 DEF more, all
-----------------------------------------------------------------------------
(* The tables of a row *)

TablesFor(row, position) ==
  CASE call = "types" -> [j \in DOMAIN row.type.blocks |-> TableOf(row.type.blocks[j])]
    [] call = "fields" -> <<RecordTable(position)>>
    [] call \notin {"types", "fields"} -> <<>>

TablesRule ==
  \A k, row, position :
    row = rows[k] /\ position = Position(k) => TablesOf(k) = TablesFor(row, position)

LEMMA TablesAre == TablesRule
BY DEF TablesRule, TablesOf, TablesFor

EntryRule ==
  \A p, table :
    table = TablesOf(p[1])[p[2]] =>
      EntryOf(p) = [row |-> p[1], of |-> table.of, fields |-> EntryAt(table, p[3])]

LEMMA EntryIs == EntryRule
BY DEF EntryRule, EntryOf

PlaceRule ==
  \A p : p \in EntryPlaces <=>
           \E k \in DOMAIN rows : \E j \in DOMAIN TablesOf(k) :
             \E table : table = TablesOf(k)[j] /\ \E e \in Yielded(table) : p = <<k, j, e>>

LEMMA PlaceIs == PlaceRule
BY DEF PlaceRule, EntryPlaces

(* Rows that are out keep their tables, and these their entries. *)
LEMMA TablesSame ==
  ASSUME UNCHANGED Reads
  PROVE  \A k : rows'[k] = rows[k] =>
           /\ TablesOf(k)' = TablesOf(k)
           /\ \A p : p[1] = k => EntryOf(p)' = EntryOf(p)
<1>1. \A row, position : TablesFor(row, position)' = TablesFor(row, position)
  <2>1. \A position : RecordTable(position)' = RecordTable(position)
    BY RecordSame
  <2> QED BY <2>1 DEF TablesFor, Reads
<1>2. ASSUME NEW k, rows'[k] = rows[k]
      PROVE  TablesOf(k)' = TablesOf(k)
  <2> SUFFICES ASSUME NEW row, row = rows[k], NEW position, position = Position(k)
               PROVE  TablesOf(k)' = TablesOf(k)
    OBVIOUS
  <2>1. position = Position(k)'
    BY <1>2, SlotSame DEF Position
  <2>2. TablesRule'
    BY TablesAre, PTL
  <2>3. TablesOf(k)' = TablesFor(row, position)'
    BY <1>2, <2>1, <2>2 DEF TablesRule
  <2> QED BY <1>1, <2>3, TablesAre DEF TablesRule
<1>3. ASSUME NEW p, rows'[p[1]] = rows[p[1]]
      PROVE  EntryOf(p)' = EntryOf(p)
  <2> SUFFICES ASSUME NEW table, table = TablesOf(p[1])[p[2]]
               PROVE  EntryOf(p)' = EntryOf(p)
    OBVIOUS
  <2>1. table = TablesOf(p[1])'[p[2]]
    BY <1>2, <1>3
  <2>2. EntryRule'
    BY EntryIs, PTL
  <2>3. EntryOf(p)' = [row |-> p[1], of |-> table.of, fields |-> EntryAt(table, p[3])']
    BY <2>1, <2>2 DEF EntryRule
  <2>4. EntryAt(table, p[3])' = EntryAt(table, p[3])
    BY EntrySame
  <2> QED BY <2>3, <2>4, EntryIs DEF EntryRule
<1> QED BY <1>2, <1>3

LEMMA TableFacts ==
  PhaseInv /\ ShapeInv /\ TrailersInv =>
    \A k \in 1 .. Len(rows) :
      /\ IsSequence(TablesOf(k))
      /\ \A j \in DOMAIN TablesOf(k) : TablesOf(k)[j].count \in Nat
<1> SUFFICES ASSUME PhaseInv, ShapeInv, TrailersInv, NEW k \in 1 .. Len(rows)
             PROVE  /\ IsSequence(TablesOf(k))
                    /\ \A j \in DOMAIN TablesOf(k) : TablesOf(k)[j].count \in Nat
  OBVIOUS
<1>1. CASE call = "types"
  <2> DEFINE blocks == rows[k].type.blocks
             of == [j \in DOMAIN blocks |-> TableOf(blocks[j])]
  <2>1. TablesOf(k) = of
    BY <1>1 DEF TablesOf
  <2>2. IsSequence(blocks) /\ Chained(rows[k].type)
    BY <1>1, SequenceFacts DEF ShapeInv, TrailersInv
  <2>3. Len(blocks) \in Nat /\ DOMAIN blocks = 1 .. Len(blocks)
    BY <2>2, SequenceFacts
  <2>4. ASSUME NEW j \in DOMAIN blocks PROVE of[j].count \in Nat
    <3>1. /\ blocks[j] = Block(blocks[j].of, Behind(rows[k].type, j - 1))
          /\ blocks[j].of \in Names
      BY <2>2 DEF Chained
    <3>2. blocks[j].count \in Nat
      BY <3>1, CountType
    <3> QED BY <3>2 DEF TableOf
  <2>5. DOMAIN of = DOMAIN blocks
    OBVIOUS
  <2>6. of = [j \in 1 .. Len(blocks) |-> of[j]]
    BY <2>3
  <2> HIDE DEF of, blocks
  <2>7. IsSequence(of)
    BY <2>3, <2>6, SequenceFunction
  <2> QED BY <2>1, <2>4, <2>5, <2>7
<1>2. CASE call = "fields"
  <2> DEFINE table == RecordTable(Position(k))
  <2>1. TablesOf(k) = <<table>>
    BY <1>2 DEF TablesOf
  <2>2. table.count \in Nat
    BY SectionFacts DEF RecordTable, RecordCount
  <2> HIDE DEF table
  <2>3. <<table>> \in Seq({table}) /\ DOMAIN <<table>> = {1} /\ <<table>>[1] = table
    OBVIOUS
  <2>4. IsSequence(<<table>>)
    BY <2>3, SequenceOf
  <2> QED BY <2>1, <2>2, <2>3, <2>4
<1>3. CASE call \notin {"types", "fields"}
  BY <1>3, SequenceEmpty DEF TablesOf
<1> QED BY <1>1, <1>2, <1>3
-----------------------------------------------------------------------------
(* The tables that are left, and the one being read *)

LastTables == IF rows = <<>> THEN <<>> ELSE TablesOf(Len(rows))

Drained == Len(LastTables) - Len(tables)

(* What is left is the rest of what the last row has, and every entry of   *)
(* the first of them up to the one that is next can be read.               *)
TablesInv ==
  /\ entry \in Nat /\ (tables = <<>> => entry = 0)
  /\ IsSequence(tables) /\ Len(tables) <= Len(LastTables)
  /\ \A i \in 1 .. Len(tables) : tables[i] = LastTables[Drained + i]
  /\ \A table : tables # <<>> /\ table = Table =>
       \A e \in Nat : e < entry => EntryAt(table, e) # None

LEMMA TablesInit == Init => TablesInv
<1> SUFFICES ASSUME Init PROVE TablesInv
  OBVIOUS
<1>1. rows = <<>> /\ tables = <<>> /\ entry = 0
  BY DEF Init
<1> QED BY <1>1, SequenceEmpty DEF TablesInv, LastTables, Drained

LastFacts ==
  /\ IsSequence(LastTables) /\ Len(LastTables) \in Nat
  /\ DOMAIN LastTables = 1 .. Len(LastTables)
  /\ tables # <<>> =>
       /\ Len(rows) \in Nat \ {0} /\ Drained \in Nat
       /\ LastTables = TablesOf(Len(rows))
       /\ Drained + 1 \in DOMAIN LastTables /\ Table = LastTables[Drained + 1]
       /\ Table.count \in Nat

(* The next table is the one behind those that are drained. *)
LEMMA LastTableFacts == PhaseInv /\ ShapeInv /\ TrailersInv /\ TablesInv => LastFacts
<1> SUFFICES ASSUME PhaseInv, ShapeInv, TrailersInv, TablesInv PROVE LastFacts
  OBVIOUS
<1>1. IsSequence(rows) /\ Len(rows) \in Nat
  BY SequenceFacts DEF ShapeInv
<1>2. rows # <<>> => Len(rows) \in 1 .. Len(rows) /\ LastTables = TablesOf(Len(rows))
  BY <1>1, SequenceTail DEF LastTables
<1>3. IsSequence(LastTables) /\ \A j \in DOMAIN LastTables : LastTables[j].count \in Nat
  <2>1. CASE rows = <<>>
    BY <2>1, SequenceEmpty DEF LastTables
  <2>2. CASE rows # <<>>
    BY <1>2, <2>2, TableFacts
  <2> QED BY <2>1, <2>2
<1>4. Len(LastTables) \in Nat /\ DOMAIN LastTables = 1 .. Len(LastTables)
  BY <1>3, SequenceFacts
<1>5. ASSUME tables # <<>>
      PROVE  /\ Len(rows) \in Nat \ {0} /\ Drained \in Nat
             /\ LastTables = TablesOf(Len(rows))
             /\ Drained + 1 \in DOMAIN LastTables /\ Table = LastTables[Drained + 1]
             /\ Table.count \in Nat
  <2>1. /\ IsSequence(tables) /\ Len(tables) <= Len(LastTables)
        /\ \A i \in 1 .. Len(tables) : tables[i] = LastTables[Drained + i]
    BY DEF TablesInv
  <2>2. Table = tables[1] /\ Len(tables) \in Nat \ {0}
    BY <1>5, <2>1, SequenceTail DEF Table
  <2>3. rows # <<>>
    <3>1. ASSUME rows = <<>> PROVE FALSE
      <4>1. Len(LastTables) = 0
        BY <3>1, SequenceEmpty DEF LastTables
      <4> QED BY <2>1, <2>2, <4>1
    <3> QED BY <3>1
  <2>4. Drained \in Nat /\ Drained + 1 \in 1 .. Len(LastTables)
    BY <1>4, <2>1, <2>2 DEF Drained
  <2>5. Table = LastTables[Drained + 1]
    BY <2>1, <2>2
  <2>6. Len(rows) \in Nat \ {0}
    BY <1>2, <2>3
  <2> QED BY <1>2, <1>3, <1>4, <2>3, <2>4, <2>5, <2>6
<1> QED BY <1>3, <1>4, <1>5 DEF LastFacts

(* The row that is added brings its tables, and none of them is read. *)
RowAdded ==
  /\ UNCHANGED Reads /\ UNCHANGED <<entry, entries>> /\ tables = <<>>
  /\ \E row : rows' = Append(rows, row)
  /\ \A k : k = Len(rows) + 1 => tables' = TablesOf(k)'

LEMMA RowStep ==
  ASSUME PhaseInv, ShapeInv, ShapeInv',
         TakeRow \/ EndTrailers \/ TakeFields \/ TakeCapture \/ TakeReplacement
  PROVE  RowAdded
<1> SUFFICES ASSUME NEW n, n = Len(rows) PROVE RowAdded
  OBVIOUS
<1>1. /\ UNCHANGED Reads /\ UNCHANGED <<entry, entries>> /\ phase # "entries"
      /\ \E row : rows' = Append(rows, row)
  BY DEF TakeRow, EndTrailers, TakeFields, TakeCapture, TakeReplacement, HasSlot, HasFields,
         HasCapture, HasReplacement, tableVars, Reads
<1>2. tables = <<>>
  BY <1>1 DEF PhaseInv
<1>3. CASE TakeRow \/ TakeCapture \/ TakeReplacement
  <2>1. call' \notin {"types", "fields"} /\ tables' = <<>>
    BY <1>2, <1>3 DEF TakeRow, TakeCapture, TakeReplacement, HasSlot, HasCapture,
                      HasReplacement, tableVars
  <2>2. \A k : TablesOf(k)' = <<>>
    BY <2>1 DEF TablesOf
  <2> QED BY <1>1, <1>2, <2>1, <2>2 DEF RowAdded
<1>4. CASE EndTrailers
  <2> SUFFICES ASSUME NEW row, row = [type |-> type, offsets |-> FieldOffsets]
               PROVE  RowAdded
    OBVIOUS
  <2>1. call' = "types" /\ rows' = Append(rows, row) /\ row.type = type
        /\ tables' = [k \in DOMAIN type.blocks |-> TableOf(type.blocks[k])]
    BY <1>4 DEF EndTrailers, PhaseInv
  <2>2. rows'[n + 1] = row
    BY <2>1, SequenceAppend DEF ShapeInv
  <2>3. TablesOf(n + 1)' = tables'
    BY <2>1, <2>2 DEF TablesOf
  <2> QED BY <1>1, <1>2, <2>3 DEF RowAdded
<1>5. CASE TakeFields
  <2> SUFFICES ASSUME NEW p, p = cursor, NEW row, row = FieldRow(cursor),
                      NEW table, table = RecordTable(p)
               PROVE  RowAdded
    OBVIOUS
  <2>1. call = "fields" /\ call' = "fields" /\ rows' = Append(rows, row)
        /\ tables' = <<table>> /\ Section # None
    BY <1>5 DEF TakeFields, HasFields, FieldsFit, Within
  <2>2. Section.address \in Nat /\ p \in Nat /\ Section' = Section
    BY <1>1, <2>1, SectionFacts, SlotSame DEF ShapeInv
  <2>3. rows'[n + 1] = row /\ row.address = Section.address + p
    BY <2>1, SequenceAppend DEF ShapeInv, FieldRow
  <2>4. p = Position(n + 1)'
    BY <2>2, <2>3 DEF Position
  <2>5. TablesRule'
    BY TablesAre, PTL
  <2>6. TablesOf(n + 1)' = TablesFor(row, p)'
    BY <2>3, <2>4, <2>5 DEF TablesRule
  <2>7. RecordTable(p)' = table
    BY <1>1, RecordSame
  <2>8. TablesFor(row, p)' = <<table>>
    BY <2>1, <2>7 DEF TablesFor
  <2> QED BY <1>1, <1>2, <2>1, <2>6, <2>8 DEF RowAdded
<1> QED BY <1>3, <1>4, <1>5

LEMMA AddedFacts ==
  ASSUME ShapeInv, ShapeInv', RowAdded, NEW n, n = Len(rows)
  PROVE  /\ n \in Nat /\ Len(rows') = n + 1 /\ rows' # <<>>
         /\ \A k \in 1 .. n : rows'[k] = rows[k]
         /\ LastTables' = tables' /\ TablesOf(n + 1)' = tables'
<1>1. /\ n \in Nat /\ Len(rows') = n + 1
      /\ \A k \in 1 .. n : rows'[k] = rows[k]
  BY SequenceAppend DEF ShapeInv, RowAdded
<1>2. rows' # <<>>
  BY <1>1, SequenceEmpty
<1>3. TablesOf(n + 1)' = tables'
  BY DEF RowAdded
<1>4. LastTables' = TablesOf(n + 1)'
  BY <1>1, <1>2 DEF LastTables, TablesOf, Position
<1> QED BY <1>1, <1>2, <1>3, <1>4

(* Steps that leave the rows alone. *)
LEMMA TablesStay ==
  ASSUME UNCHANGED Reads, UNCHANGED rows
  PROVE  LastTables' = LastTables
<1> SUFFICES ASSUME NEW n, n = Len(rows) PROVE LastTables' = LastTables
  OBVIOUS
<1>1. TablesOf(n)' = TablesOf(n)
  BY TablesSame
<1>2. LastTables' = IF rows' = <<>> THEN <<>> ELSE TablesOf(n)'
  BY DEF LastTables, TablesOf, Position
<1>3. LastTables = IF rows = <<>> THEN <<>> ELSE TablesOf(n)
  BY DEF LastTables
<1> QED BY <1>1, <1>2, <1>3

LEMMA TablesStep ==
  ASSUME PhaseInv, ShapeInv, TrailersInv, TablesInv,
         PhaseInv', ShapeInv', TrailersInv', [Next]_vars
  PROVE  TablesInv'
<1>1. ASSUME RowAdded PROVE TablesInv'
  <2> SUFFICES ASSUME NEW n, n = Len(rows) PROVE TablesInv'
    OBVIOUS
  <2>1. /\ n \in Nat /\ Len(rows') = n + 1 /\ LastTables' = tables'
        /\ TablesOf(n + 1)' = tables'
    BY <1>1, AddedFacts
  <2>2. entry' = 0
    BY <1>1 DEF RowAdded, TablesInv
  <2>3. IsSequence(tables')
    <3>1. (PhaseInv /\ ShapeInv /\ TrailersInv =>
             \A k \in 1 .. Len(rows) :
               /\ IsSequence(TablesOf(k))
               /\ \A j \in DOMAIN TablesOf(k) : TablesOf(k)[j].count \in Nat)'
      BY TableFacts, PTL
    <3>2. n + 1 \in 1 .. Len(rows')
      BY <2>1
    <3>3. IsSequence(TablesOf(n + 1)')
      BY <3>1, <3>2
    <3> QED BY <2>1, <3>3
  <2>4. Len(tables') \in Nat /\ Drained' = 0 /\ Len(tables') = Len(LastTables')
    BY <2>1, <2>3, SequenceFacts DEF Drained
  <2>5. \A i \in 1 .. Len(tables') : tables'[i] = LastTables'[Drained' + i]
    BY <2>1, <2>4
  <2> QED BY <2>2, <2>3, <2>4, <2>5 DEF TablesInv
<1>2. ASSUME UNCHANGED Reads, UNCHANGED <<rows, tables, entry>> PROVE TablesInv'
  <2>1. LastTables' = LastTables /\ Drained' = Drained
    BY <1>2, TablesStay DEF Drained
  <2>2. \A table, k : EntryAt(table, k)' = EntryAt(table, k)
    BY <1>2, EntrySame
  <2>3. Table' = Table
    BY <1>2 DEF Table
  <2> QED BY <1>2, <2>1, <2>2, <2>3 DEF TablesInv
<1>3. CASE TakeRow \/ EndTrailers \/ TakeFields \/ TakeCapture \/ TakeReplacement
  BY <1>1, <1>3, RowStep
<1>4. CASE \/ Build \/ NotSwift \/ SkipSlot \/ TakeType \/ WalkTrailers \/ EndRows \/ EndEntries
           \/ Returned \/ UNCHANGED vars
  <2>1. UNCHANGED Reads /\ UNCHANGED <<rows, tables, entry>>
    BY <1>4 DEF Build, NotSwift, SkipSlot, TakeType, WalkTrailers, EndRows, EndEntries, Returned,
                vars, tableVars, Reads
  <2> QED BY <1>2, <2>1
<1>5. CASE TakeEntry
  <2>1. /\ UNCHANGED Reads /\ UNCHANGED <<rows, tables>> /\ tables # <<>>
        /\ entry' = entry + 1 /\ Found # None
    BY <1>5 DEF TakeEntry, Reads
  <2>2. LastTables' = LastTables /\ Drained' = Drained /\ Table' = Table
    BY <2>1, TablesStay DEF Drained, Table
  <2>3. ASSUME NEW table, table = Table, NEW e \in Nat, e < entry + 1
        PROVE  EntryAt(table, e)' # None
    <3>1. EntryAt(table, e)' = EntryAt(table, e)
      BY <2>1, EntrySame
    <3>2. entry \in Nat /\ (e < entry => EntryAt(table, e) # None)
      BY <2>1, <2>3 DEF TablesInv
    <3>3. CASE e < entry
      BY <3>1, <3>2, <3>3
    <3>4. CASE ~(e < entry)
      <4>1. e = entry
        BY <2>3, <3>2, <3>4
      <4>2. Found = EntryAt(table, e)
        BY <2>1, <2>3, <4>1 DEF Found
      <4> QED BY <2>1, <3>1, <4>2
    <3> QED BY <3>3, <3>4
  <2>4. entry' \in Nat
    BY <2>1 DEF TablesInv
  <2>5. /\ IsSequence(tables) /\ Len(tables) <= Len(LastTables)
        /\ \A i \in 1 .. Len(tables) : tables[i] = LastTables[Drained + i]
    BY DEF TablesInv
  <2> QED BY <2>1, <2>2, <2>3, <2>4, <2>5 DEF TablesInv
<1>6. CASE EndTable
  <2>1. /\ UNCHANGED Reads /\ UNCHANGED rows /\ tables # <<>>
        /\ tables' = Tail(tables) /\ entry' = 0
    BY <1>6 DEF EndTable, Reads
  <2>2. /\ IsSequence(tables) /\ Len(tables) <= Len(LastTables)
        /\ \A i \in 1 .. Len(tables) : tables[i] = LastTables[Drained + i]
    BY DEF TablesInv
  <2>3. /\ Len(tables) \in Nat \ {0} /\ IsSequence(tables') /\ Len(tables') = Len(tables) - 1
        /\ \A k \in 1 .. Len(tables) - 1 : tables'[k] = tables[k + 1]
    BY <2>1, <2>2, SequenceTail
  <2>4. LastTables' = LastTables /\ Drained \in Nat /\ Len(LastTables) \in Nat
    BY <2>1, LastTableFacts, TablesStay DEF LastFacts
  <2>5. Drained' = Drained + 1 /\ Len(tables') <= Len(LastTables')
    BY <2>2, <2>3, <2>4 DEF Drained
  <2>6. \A i \in 1 .. Len(tables') : tables'[i] = LastTables'[Drained' + i]
    <3> SUFFICES ASSUME NEW i \in 1 .. Len(tables) - 1
                 PROVE  tables'[i] = LastTables[(Drained + 1) + i]
      BY <2>3, <2>4, <2>5
    <3>1. tables'[i] = tables[i + 1] /\ i + 1 \in 1 .. Len(tables)
      BY <2>3
    <3>2. tables[i + 1] = LastTables[Drained + (i + 1)]
      BY <2>2, <3>1
    <3>3. Drained + (i + 1) = (Drained + 1) + i
      BY <2>4
    <3> QED BY <3>1, <3>2, <3>3
  <2>7. \A e \in Nat : ~(e < 0)
    OBVIOUS
  <2> QED BY <2>1, <2>3, <2>5, <2>6, <2>7 DEF TablesInv
<1> QED BY <1>3, <1>4, <1>5, <1>6 DEF Next, Work
-----------------------------------------------------------------------------
(* The entries *)

(* A place that the walk is past. *)
Before(p) ==
  \/ p[1] < Len(rows)
  \/ p[1] = Len(rows) /\ p[2] <= Drained
  \/ p[1] = Len(rows) /\ p[2] = Drained + 1 /\ p[3] < entry

Passed == {p \in EntryPlaces : Before(p)}

EntryValue == [p \in EntryPlaces |-> EntryOf(p)]

EntriesInv == IsSequence(entries) /\ InOrder(entries, Passed, EntryValue)

(* A place is a row, a table of it, and an entry the table yields. *)
PlacesAre ==
  /\ EntryPlaces \in SUBSET Place
  /\ \A p \in Place :
       p \in EntryPlaces <=>
         /\ p[1] \in 1 .. Len(rows)
         /\ p[2] \in DOMAIN TablesOf(p[1])
         /\ \E table : table = TablesOf(p[1])[p[2]] /\ p[3] \in Yielded(table)

LEMMA PlaceFacts == PhaseInv /\ ShapeInv /\ TrailersInv => PlacesAre
<1> SUFFICES ASSUME PhaseInv, ShapeInv, TrailersInv PROVE PlacesAre
  OBVIOUS
<1>1. Len(rows) \in Nat /\ DOMAIN rows = 1 .. Len(rows)
  BY SequenceFacts DEF ShapeInv
<1>2. ASSUME NEW k \in 1 .. Len(rows)
      PROVE  DOMAIN TablesOf(k) \subseteq Nat
  BY <1>2, SequenceFacts, TableFacts
<1>3. \A table : Yielded(table) \subseteq Nat
  BY DEF Yielded
<1>4. ASSUME NEW p \in EntryPlaces PROVE p \in Place
  <2>1. PICK k \in DOMAIN rows : \E j \in DOMAIN TablesOf(k) :
          \E table : table = TablesOf(k)[j] /\ \E e \in Yielded(table) : p = <<k, j, e>>
    BY PlaceIs DEF PlaceRule
  <2>2. PICK j \in DOMAIN TablesOf(k) :
          \E table : table = TablesOf(k)[j] /\ \E e \in Yielded(table) : p = <<k, j, e>>
    BY <2>1
  <2>3. PICK table : table = TablesOf(k)[j] /\ \E e \in Yielded(table) : p = <<k, j, e>>
    BY <2>2
  <2>4. PICK e \in Yielded(table) : p = <<k, j, e>>
    BY <2>3
  <2>5. k \in Nat /\ j \in Nat /\ e \in Nat
    BY <1>1, <1>2, <1>3
  <2> QED BY <2>4, <2>5 DEF Place
<1>5. ASSUME NEW p \in Place
      PROVE  p \in EntryPlaces <=>
               /\ p[1] \in 1 .. Len(rows)
               /\ p[2] \in DOMAIN TablesOf(p[1])
               /\ \E table : table = TablesOf(p[1])[p[2]] /\ p[3] \in Yielded(table)
  <2>1. p = <<p[1], p[2], p[3]>>
    BY DEF Place
  <2>2. ASSUME p \in EntryPlaces
        PROVE  /\ p[1] \in 1 .. Len(rows)
               /\ p[2] \in DOMAIN TablesOf(p[1])
               /\ \E table : table = TablesOf(p[1])[p[2]] /\ p[3] \in Yielded(table)
    <3>1. PICK k \in DOMAIN rows : \E j \in DOMAIN TablesOf(k) :
            \E table : table = TablesOf(k)[j] /\ \E e \in Yielded(table) : p = <<k, j, e>>
      BY <2>2, PlaceIs DEF PlaceRule
    <3>2. PICK j \in DOMAIN TablesOf(k) :
            \E table : table = TablesOf(k)[j] /\ \E e \in Yielded(table) : p = <<k, j, e>>
      BY <3>1
    <3>3. PICK table : table = TablesOf(k)[j] /\ \E e \in Yielded(table) : p = <<k, j, e>>
      BY <3>2
    <3>4. p[1] = k /\ p[2] = j /\ p[3] \in Yielded(table)
      BY <3>3
    <3> QED BY <1>1, <3>3, <3>4
  <2>3. ASSUME p[1] \in 1 .. Len(rows), p[2] \in DOMAIN TablesOf(p[1]),
               NEW table, table = TablesOf(p[1])[p[2]], p[3] \in Yielded(table)
        PROVE  p \in EntryPlaces
    BY <1>1, <2>1, <2>3, PlaceIs DEF PlaceRule
  <2> QED BY <2>2, <2>3
<1> QED BY <1>4, <1>5 DEF PlacesAre

(* Rows that are out keep their places and their entries. *)
LEMMA PlacesSame ==
  ASSUME UNCHANGED Reads, rows' = rows
  PROVE  EntryPlaces' = EntryPlaces /\ EntryValue' = EntryValue
<1>1. \A k : TablesOf(k)' = TablesOf(k)
  BY TablesSame
<1>2. \A table : Yielded(table)' = Yielded(table)
  BY EntrySame
<1>3. PlaceRule /\ PlaceRule'
  BY PlaceIs, PTL
<1>4. \A p : p \in EntryPlaces' <=> p \in EntryPlaces
  BY <1>1, <1>2, <1>3 DEF PlaceRule
<1>5. EntryPlaces' = EntryPlaces
  BY <1>4 DEF EntryPlaces
<1>6. \A p : EntryOf(p)' = EntryOf(p)
  BY TablesSame
<1> QED BY <1>5, <1>6 DEF EntryValue

(* A step that yields nothing passes no place. *)
LEMMA EntriesSame ==
  ASSUME UNCHANGED Reads, UNCHANGED <<rows, entries>>, EntriesInv,
         \A p \in EntryPlaces : Before(p)' <=> Before(p)
  PROVE  EntriesInv'
<1>1. Passed' = Passed
  BY PlacesSame DEF Passed
<1> QED BY <1>1, PlacesSame DEF EntriesInv, InOrder, Rank

LEMMA EntriesInit == Init => EntriesInv
<1> SUFFICES ASSUME Init PROVE EntriesInv
  OBVIOUS
<1>1. rows = <<>> /\ entries = <<>> /\ DOMAIN rows = {}
  BY SequenceEmpty DEF Init
<1>2. \A p : p \notin EntryPlaces
  BY <1>1, PlaceIs DEF PlaceRule
<1>3. Passed = {}
  BY <1>2 DEF Passed
<1> QED BY <1>1, <1>3, FS_EmptySet, SequenceEmpty DEF EntriesInv, InOrder

(* Between two rows, every entry of the rows that are out is passed. *)
LEMMA AllPassed ==
  ASSUME PhaseInv, ShapeInv, TrailersInv, TablesInv, tables = <<>>
  PROVE  Passed = EntryPlaces
<1>1. Len(tables) = 0
  BY SequenceEmpty
<1> SUFFICES ASSUME NEW p \in EntryPlaces PROVE Before(p)
  BY DEF Passed
<1>2. /\ p \in Place /\ p[1] \in 1 .. Len(rows)
      /\ p[2] \in DOMAIN TablesOf(p[1])
  BY PlaceFacts DEF PlacesAre
<1>3. Len(rows) \in Nat
  BY SequenceFacts DEF ShapeInv
<1>4. CASE p[1] = Len(rows)
  <2>1. rows # <<>>
    BY <1>2, <1>4, SequenceEmpty
  <2>2. LastTables = TablesOf(p[1])
    BY <1>4, <2>1 DEF LastTables
  <2>3. Len(LastTables) \in Nat /\ DOMAIN LastTables = 1 .. Len(LastTables)
    BY LastTableFacts DEF LastFacts
  <2>4. p[2] <= Drained
    BY <1>1, <1>2, <2>2, <2>3 DEF Drained
  <2> QED BY <1>4, <2>4 DEF Before
<1>5. CASE p[1] # Len(rows)
  BY <1>2, <1>3, <1>5 DEF Before
<1> QED BY <1>4, <1>5

(* The row that is added adds places, and all of them are ahead. *)
LEMMA EntriesRow ==
  ASSUME PhaseInv, ShapeInv, TrailersInv, TablesInv, EntriesInv,
         PhaseInv', ShapeInv', TrailersInv', TablesInv', RowAdded
  PROVE  EntriesInv'
<1> SUFFICES ASSUME NEW n, n = Len(rows) PROVE EntriesInv'
  OBVIOUS
<1>1. /\ UNCHANGED Reads /\ UNCHANGED <<entry, entries>> /\ tables = <<>> /\ entry = 0
  BY DEF RowAdded, TablesInv
<1>2. /\ n \in Nat /\ Len(rows') = n + 1
      /\ \A k \in 1 .. n : rows'[k] = rows[k]
      /\ LastTables' = tables' /\ TablesOf(n + 1)' = tables'
  BY AddedFacts
<1>3. PlacesAre /\ PlacesAre'
  <2>1. (PhaseInv /\ ShapeInv /\ TrailersInv => PlacesAre)'
    BY PlaceFacts, PTL
  <2> QED BY <2>1, PlaceFacts
<1>4. \A table : Yielded(table)' = Yielded(table)
  BY <1>1, EntrySame
<1>5. \A k \in 1 .. n : TablesOf(k)' = TablesOf(k)
  BY <1>1, <1>2, TablesSame
<1>6. Passed = EntryPlaces
  BY <1>1, AllPassed
<1>7. Drained' = 0 /\ IsSequence(tables')
  <2>1. IsSequence(tables')
    BY DEF TablesInv
  <2> QED BY <1>2, <2>1, SequenceFacts DEF Drained
<1>8. ASSUME NEW p \in Place, p[1] \in 1 .. n
      PROVE  p \in EntryPlaces' <=> p \in EntryPlaces
  <2>1. p[1] \in 1 .. Len(rows')
    BY <1>2, <1>8
  <2>2. TablesOf(p[1])' = TablesOf(p[1])
    BY <1>5, <1>8
  <2> QED BY <1>3, <1>4, <1>8, <2>1, <2>2 DEF PlacesAre
<1>9. Passed' = EntryPlaces
  <2>1. ASSUME NEW p \in EntryPlaces PROVE p \in Passed'
    <3>1. p \in Place /\ p[1] \in 1 .. n
      BY <1>3 DEF PlacesAre
    <3>2. p[1] < Len(rows')
      BY <1>2, <3>1
    <3> QED BY <1>8, <3>1, <3>2 DEF Passed, Before
  <2>2. ASSUME NEW p \in Passed' PROVE p \in EntryPlaces
    <3>1. p \in EntryPlaces' /\ Before(p)'
      BY DEF Passed
    <3>2. p \in Place /\ p[1] \in 1 .. Len(rows')
      BY <1>3, <3>1 DEF PlacesAre
    <3>3. p[1] # Len(rows')
      <4> SUFFICES ASSUME p[1] = Len(rows') PROVE FALSE
        OBVIOUS
      <4>1. p[2] \in DOMAIN TablesOf(p[1])'
        BY <1>3, <3>1, <3>2 DEF PlacesAre
      <4>2. p[1] = n + 1
        BY <1>2
      <4>3. p[2] \in DOMAIN tables'
        BY <1>2, <4>1, <4>2
      <4>4. p[2] \in Nat \ {0} /\ p[3] \in Nat
        BY <1>7, <3>2, <4>3, SequenceFacts DEF Place
      <4>5. entry' = 0
        BY <1>1
      <4> QED BY <1>2, <1>7, <3>1, <4>2, <4>4, <4>5 DEF Before
    <3>4. p[1] \in 1 .. n
      BY <1>2, <3>2, <3>3
    <3> QED BY <1>8, <3>1, <3>2, <3>4
  <2> QED BY <2>1, <2>2
<1>10. ASSUME NEW p \in EntryPlaces PROVE EntryValue'[p] = EntryValue[p]
  <2>1. p \in Place /\ p[1] \in 1 .. n
    BY <1>3 DEF PlacesAre
  <2>2. p \in EntryPlaces' /\ rows'[p[1]] = rows[p[1]]
    BY <1>2, <1>8, <2>1
  <2>3. EntryOf(p)' = EntryOf(p)
    BY <1>1, <2>2, TablesSame
  <2> QED BY <2>2, <2>3 DEF EntryValue
<1>11. IsSequence(entries) /\ InOrder(entries, EntryPlaces, EntryValue)
  BY <1>6 DEF EntriesInv
<1>12. InOrder(entries, EntryPlaces, EntryValue')
  BY <1>10, <1>11 DEF InOrder
<1> QED BY <1>1, <1>9, <1>11, <1>12 DEF EntriesInv, InOrder, Rank

(* The entry the walk stands at. *)
Here == <<Len(rows), Drained + 1, entry>>

LEMMA HereFacts ==
  ASSUME PhaseInv, ShapeInv, TrailersInv, TablesInv, tables # <<>>
  PROVE  /\ Here \in Place
         /\ Len(rows) \in Nat /\ Drained \in Nat /\ entry \in Nat
         /\ Here \in EntryPlaces <=> Found # None
         /\ Found # None =>
              EntryOf(Here) = [row |-> Len(rows), of |-> Table.of, fields |-> Found]
         /\ Here[1] = Len(rows) /\ Here[2] = Drained + 1 /\ Here[3] = entry
<1> SUFFICES ASSUME NEW table, table = Table
             PROVE  /\ Here \in Place
                    /\ Len(rows) \in Nat /\ Drained \in Nat /\ entry \in Nat
                    /\ Here \in EntryPlaces <=> Found # None
                    /\ Found # None =>
                         EntryOf(Here) = [row |-> Len(rows), of |-> table.of, fields |-> Found]
                    /\ Here[1] = Len(rows) /\ Here[2] = Drained + 1 /\ Here[3] = entry
  OBVIOUS
<1>1. /\ Len(rows) \in Nat \ {0} /\ Drained \in Nat
      /\ LastTables = TablesOf(Len(rows))
      /\ Drained + 1 \in DOMAIN LastTables /\ table = LastTables[Drained + 1]
      /\ table.count \in Nat
  BY LastTableFacts DEF LastFacts
<1>2. entry \in Nat /\ \A e \in Nat : e < entry => EntryAt(table, e) # None
  BY DEF TablesInv
<1>3. Here \in Place /\ Here[1] = Len(rows) /\ Here[2] = Drained + 1 /\ Here[3] = entry
  BY <1>1, <1>2 DEF Here, Place
<1>4. entry \in Yielded(table) <=> Found # None
  <2>1. CASE entry < table.count
    <3>1. Found = EntryAt(table, entry) /\ entry \in 0 .. table.count - 1
      BY <1>1, <1>2, <2>1 DEF Found
    <3>2. EntryAt(table, entry) # None <=> \A i \in 0 .. entry : EntryAt(table, i) # None
      <4>1. ASSUME EntryAt(table, entry) # None, NEW i \in 0 .. entry
            PROVE  EntryAt(table, i) # None
        <5>1. i = entry \/ (i \in Nat /\ i < entry)
          BY <1>2
        <5> QED BY <1>2, <4>1, <5>1
      <4>2. entry \in 0 .. entry
        BY <1>2
      <4> QED BY <4>1, <4>2
    <3> QED BY <3>1, <3>2 DEF Yielded
  <2>2. CASE ~(entry < table.count)
    <3>1. Found = None
      BY <2>2 DEF Found
    <3>2. entry \notin 0 .. table.count - 1
      BY <1>1, <1>2, <2>2
    <3> QED BY <3>1, <3>2 DEF Yielded
  <2> QED BY <2>1, <2>2
<1>5. Here \in EntryPlaces <=> Found # None
  <2>1. PlacesAre
    BY PlaceFacts
  <2>2. Len(rows) \in 1 .. Len(rows)
    BY <1>1
  <2>3. Here \in EntryPlaces <=>
          \E t : t = TablesOf(Len(rows))[Drained + 1] /\ entry \in Yielded(t)
    BY <1>1, <1>3, <2>1, <2>2 DEF PlacesAre
  <2>4. Here \in EntryPlaces <=> entry \in Yielded(table)
    BY <1>1, <2>3
  <2> QED BY <1>4, <2>4
<1>6. Found # None => Found = EntryAt(table, entry)
  BY DEF Found
<1>7. EntryOf(Here) = [row |-> Len(rows), of |-> table.of, fields |-> EntryAt(table, entry)]
  <2>1. table = TablesOf(Here[1])[Here[2]]
    BY <1>1, <1>3
  <2>2. EntryOf(Here) = [row |-> Here[1], of |-> table.of, fields |-> EntryAt(table, Here[3])]
    BY <2>1, EntryIs DEF EntryRule
  <2> QED BY <1>3, <2>2
<1> QED BY <1>1, <1>2, <1>3, <1>5, <1>6, <1>7

(* The step over an entry passes its place and no other. *)
LEMMA BeforeHere ==
  ASSUME PhaseInv, ShapeInv, TrailersInv, TablesInv, tables # <<>>,
         UNCHANGED Reads, UNCHANGED <<rows, tables>>, entry' = entry + 1, NEW p \in Place
  PROVE  /\ Before(p)' <=> Before(p) \/ p = Here
         /\ ~(Before(Here))
         /\ Before(p) => UpTo(p, Here)
<1>1. /\ Here \in Place /\ Len(rows) \in Nat /\ Drained \in Nat /\ entry \in Nat
      /\ Here[1] = Len(rows) /\ Here[2] = Drained + 1 /\ Here[3] = entry
  BY HereFacts
<1>2. Drained' = Drained
  BY TablesStay DEF Drained
<1>3. /\ p[1] \in Nat /\ p[2] \in Nat /\ p[3] \in Nat
      /\ p = Here <=> p[1] = Here[1] /\ p[2] = Here[2] /\ p[3] = Here[3]
  BY <1>1 DEF Place
<1>4. Before(p)' <=> Before(p) \/ p = Here
  BY <1>1, <1>2, <1>3 DEF Before
<1>5. ~Before(Here)
  BY <1>1 DEF Before
<1>6. Before(p) => UpTo(p, Here)
  BY <1>1, <1>3 DEF Before, UpTo
<1> QED BY <1>4, <1>5, <1>6

LEMMA EntriesTake ==
  ASSUME PhaseInv, ShapeInv, TrailersInv, TablesInv, EntriesInv, TakeEntry
  PROVE  EntriesInv'
<1>1. /\ tables # <<>> /\ UNCHANGED Reads /\ UNCHANGED <<rows, tables>>
      /\ entry' = entry + 1 /\ Found # None
      /\ entries' = Append(entries, [row |-> Len(rows), of |-> Table.of, fields |-> Found])
  BY DEF TakeEntry, Reads
<1>2. /\ Here \in Place /\ Here \in EntryPlaces
      /\ entries' = Append(entries, EntryOf(Here))
  BY <1>1, HereFacts
<1>3. PlacesAre /\ IsSequence(entries) /\ InOrder(entries, Passed, EntryValue)
  BY PlaceFacts DEF EntriesInv
<1>4. EntryPlaces' = EntryPlaces /\ EntryValue' = EntryValue
  BY <1>1, PlacesSame
<1>5. Passed \in SUBSET Place
  BY <1>3 DEF Passed, PlacesAre
<1>6. /\ Passed' = Passed \cup {Here} /\ Here \notin Passed
      /\ \A p \in Passed : UpTo(p, Here)
  <2>1. \A p \in EntryPlaces : /\ Before(p)' <=> Before(p) \/ p = Here
                               /\ ~(Before(Here))
                               /\ Before(p) => UpTo(p, Here)
    BY <1>1, <1>3, BeforeHere DEF PlacesAre
  <2>2. Passed' = {p \in EntryPlaces : Before(p)'}
    BY <1>4 DEF Passed
  <2> QED BY <1>2, <2>1, <2>2 DEF Passed
<1>7. EntryValue[Here] = EntryOf(Here)
  BY <1>2 DEF EntryValue
<1>8. InOrder(Append(entries, EntryValue[Here]), Passed \cup {Here}, EntryValue)
  BY <1>2, <1>3, <1>5, <1>6, InOrderMore
<1>9. IsSequence(entries')
  BY <1>2, <1>3, SequenceAppend
<1> QED BY <1>2, <1>4, <1>6, <1>7, <1>8, <1>9 DEF EntriesInv, InOrder, Rank

(* A table that ends has no entry ahead. *)
LEMMA EntriesNext ==
  ASSUME PhaseInv, ShapeInv, TrailersInv, TablesInv, EntriesInv, EndTable
  PROVE  EntriesInv'
<1> SUFFICES ASSUME NEW table, table = Table PROVE EntriesInv'
  OBVIOUS
<1>1. /\ UNCHANGED Reads /\ UNCHANGED <<rows, entries>> /\ tables # <<>>
      /\ tables' = Tail(tables) /\ entry' = 0 /\ Found = None
  BY DEF EndTable, Reads
<1>2. PlacesAre /\ IsSequence(tables)
  BY PlaceFacts DEF TablesInv
<1>3. /\ Len(rows) \in Nat \ {0} /\ Drained \in Nat
      /\ LastTables = TablesOf(Len(rows)) /\ Len(LastTables) \in Nat
      /\ table = LastTables[Drained + 1] /\ table.count \in Nat
  BY <1>1, LastTableFacts DEF LastFacts
<1>4. Drained' = Drained + 1
  <2>1. LastTables' = LastTables
    BY <1>1, TablesStay
  <2>2. Len(tables) \in Nat /\ Len(tables') = Len(tables) - 1
    BY <1>1, <1>2, SequenceTail
  <2> QED BY <1>3, <2>1, <2>2 DEF Drained
<1>5. ASSUME NEW e \in Yielded(table) PROVE e < entry
  <2>1. e \in 0 .. table.count - 1 /\ \A i \in 0 .. e : EntryAt(table, i) # None
    BY DEF Yielded
  <2>2. entry \in Nat
    BY DEF TablesInv
  <2>3. ASSUME ~(e < entry) PROVE FALSE
    <3>1. entry \in 0 .. e /\ entry < table.count
      BY <1>3, <2>1, <2>2, <2>3
    <3>2. Found = EntryAt(table, entry)
      BY <3>1 DEF Found
    <3> QED BY <1>1, <2>1, <3>1, <3>2
  <2> QED BY <2>3
<1>6. ASSUME NEW p \in EntryPlaces PROVE Before(p)' <=> Before(p)
  <2>1. /\ p \in Place /\ p[1] \in 1 .. Len(rows)
        /\ \E t : t = TablesOf(p[1])[p[2]] /\ p[3] \in Yielded(t)
    BY <1>2 DEF PlacesAre
  <2>2. p[1] \in Nat /\ p[2] \in Nat /\ p[3] \in Nat
    BY <2>1 DEF Place
  <2>3. ASSUME p[1] = Len(rows), p[2] = Drained + 1
        PROVE  p[3] < entry
    BY <1>3, <1>5, <2>1, <2>3
  <2>4. ~(p[3] < 0)
    BY <2>2
  <2> QED BY <1>1, <1>3, <1>4, <2>2, <2>3, <2>4 DEF Before
<1> QED BY <1>1, <1>6, EntriesSame

LEMMA EntriesStep ==
  ASSUME PhaseInv, ShapeInv, TrailersInv, TablesInv, EntriesInv,
         PhaseInv', ShapeInv', TrailersInv', TablesInv', [Next]_vars
  PROVE  EntriesInv'
<1>1. CASE TakeRow \/ EndTrailers \/ TakeFields \/ TakeCapture \/ TakeReplacement
  BY <1>1, RowStep, EntriesRow
<1>2. CASE TakeEntry
  BY <1>2, EntriesTake
<1>3. CASE EndTable
  BY <1>3, EntriesNext
<1>4. CASE \/ Build \/ NotSwift \/ SkipSlot \/ TakeType \/ WalkTrailers \/ EndRows \/ EndEntries
           \/ Returned \/ UNCHANGED vars
  <2>1. UNCHANGED Reads /\ UNCHANGED <<rows, tables, entry, entries>>
    BY <1>4 DEF Build, NotSwift, SkipSlot, TakeType, WalkTrailers, EndRows, EndEntries, Returned,
                vars, tableVars, Reads
  <2>2. Drained' = Drained
    BY <2>1, TablesStay DEF Drained
  <2>3. \A p \in EntryPlaces : Before(p)' <=> Before(p)
    BY <2>1, <2>2 DEF Before
  <2> QED BY <2>1, <2>3, EntriesSame
<1> QED BY <1>1, <1>2, <1>3, <1>4 DEF Next, Work

(* When the walk has ended every place is passed. *)
LEMMA EntriesSound ==
  PhaseInv /\ ShapeInv /\ TrailersInv /\ TablesInv /\ EntriesInv => EntriesFollow
<1> SUFFICES ASSUME PhaseInv, ShapeInv, TrailersInv, TablesInv, EntriesInv, phase = "done"
             PROVE  EntriesFollow
  BY DEF EntriesFollow
<1>1. Passed = EntryPlaces
  BY AllPassed DEF PhaseInv
<1>2. InOrder(entries, EntryPlaces, EntryValue)
  BY <1>1 DEF EntriesInv
<1> QED BY <1>2 DEF InOrder, EntriesFollow, EntryValue
-----------------------------------------------------------------------------
(* The theorems *)

SwiftInv ==
  PhaseInv /\ ShapeInv /\ SlotsInv /\ RecordsInv /\ TrailersInv /\ TablesInv /\ EntriesInv

LEMMA SwiftInit == Init => SwiftInv
BY PhaseInit, ShapeInit, SlotsInit, RecordsInit, TrailersInit, TablesInit, EntriesInit
   DEF SwiftInv

LEMMA SwiftStep == SwiftInv /\ [Next]_vars => SwiftInv'
<1> SUFFICES ASSUME SwiftInv, [Next]_vars PROVE SwiftInv'
  OBVIOUS
<1>1. PhaseInv' /\ ShapeInv'
  BY PhaseStep, ShapeStep DEF SwiftInv
<1>2. SlotsInv' /\ RecordsInv' /\ TrailersInv'
  BY <1>1, SlotsStep, RecordsStep, TrailersStep DEF SwiftInv
<1>3. TablesInv'
  BY <1>1, <1>2, TablesStep DEF SwiftInv
<1>4. EntriesInv'
  BY <1>1, <1>2, <1>3, EntriesStep DEF SwiftInv
<1> QED BY <1>1, <1>2, <1>3, <1>4 DEF SwiftInv

(* For every image and every iterator: the invariant the other two rest    *)
(* on, with the rows, the trailing objects and the entries up to where the *)
(* walk is.                                                                *)
THEOREM SwiftInvariant == Spec => []SwiftInv
<1>1. Init => SwiftInv
  BY SwiftInit
<1>2. SwiftInv /\ [Next]_vars => SwiftInv'
  BY SwiftStep
<1> QED BY <1>1, <1>2, PTL DEF Spec

(* For every image: each slot that decodes yields its row once and in      *)
(* order, whatever stands between them, and each record is read where the  *)
(* one before it ends, up to the first that does not fit.                  *)
THEOREM RowsComeInOrder == Spec => []RowsInOrder
<1>1. SwiftInv => RowsInOrder
  BY SlotsSound, RecordsSound DEF SwiftInv, RowsInOrder
<1> QED BY <1>1, SwiftInvariant, PTL

(* For every image: the trailing objects are those the flags announce,     *)
(* each read behind all before it, and the entries of every table come row *)
(* by row, table by table, up to the first that cannot be read.            *)
THEOREM TablesComeInOrder == Spec => []TablesInOrder
<1>1. SwiftInv => TablesInOrder
  BY TrailersSound, EntriesSound DEF SwiftInv, TablesInOrder
<1> QED BY <1>1, SwiftInvariant, PTL
=============================================================================
