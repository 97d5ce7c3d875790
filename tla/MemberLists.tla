---------------------------- MODULE MemberLists ----------------------------
(***************************************************************************)
(* The lists of Objective-C metadata and the records they hang from: what  *)
(* a list header says of its entries, what an entry says, and which lists  *)
(* a class_ro_t, a protocol_t or a category_t has.                         *)
(*                                                                         *)
(* To what DataImage says of an image, this adds: binds, the symbol bound  *)
(* to each slot; classNames, the name of each class_t that has one; flags, *)
(* those of __objc_imageinfo.  A symbol is <<prefix, rest>>, or <<name>>.  *)
(***************************************************************************)
EXTENDS DataImage

CONSTANTS
  SizeUnit,     \* 2^16: entsizeAndFlags has flags from here on
  LowFlags,     \* 4: and below here
  DirectFlag,   \* RELATIVE_METHOD_SELECTORS_ARE_DIRECT_FLAG
  SmallFlag,    \* SMALL_METHOD_LIST_FLAG
  ByteUnit,     \* 2^8
  MaxNames,     \* 2^20, the cap of a protocol list
  ClassProps    \* OBJC_IMAGE_HAS_CATEGORY_CLASS_PROPERTIES

ASSUME MemberAssumption ==
  /\ {SizeUnit, LowFlags, DirectFlag, SmallFlag, ByteUnit, ClassProps}
       \subseteq Nat \ {0}
  /\ MaxNames \in Nat

VARIABLE
  targets       \* rebases_by_va

WordShift == 3

HasBit(word, bit) == (word \div bit) % 2 = 1

Signed(half) == IF half >= HalfUnit \div 2 THEN half - HalfUnit ELSE half

(* relative_pointer *)
Relative(slot, half) == slot + Signed(half)

(* resolve_pointer *)
Resolve(slot) ==
  IF slot \in DOMAIN targets \/ Readable(image, slot)
  THEN Pointer(image, targets, slot) ELSE None

OrZero(v) == IF v = None THEN 0 ELSE v

OrEmpty(text) == IF text = None THEN <<>> ELSE text

NonZero(v) == IF v = 0 THEN None ELSE v

TextAt(slot) == ReadCStr(image, OrZero(Resolve(slot)))

(* strip_objc_symbol_prefix *)
StripPrefix(symbol) ==
  IF symbol[1] \in {"_OBJC_CLASS_$_", "_OBJC_METACLASS_$_", "_OBJC_PROTOCOL_$_",
                    "_OBJC_REF_$_", "_OBJC_LABEL_PROTOCOL_$_"}
  THEN Tail(symbol) ELSE symbol
-----------------------------------------------------------------------------
(* method_list_iter, ivar_list_iter, property_list_iter, protocol_name_iter *)

MethodKind(word) ==
  IF ~HasBit(word, SmallFlag) THEN "legacy"
  ELSE IF HasBit(word, DirectFlag) THEN "direct" ELSE "indirect"

Entsize(of, word) ==
  IF of = "methods" THEN ((word % SizeUnit) \div LowFlags) * LowFlags ELSE word

LeastSize(kind) ==
  CASE kind = "legacy" -> 3 * WordSize [] kind \in {"direct", "indirect"} -> 3 * HalfSize
    [] kind = "ivars" -> 4 * WordSize [] kind = "properties" -> 2 * WordSize

(* The layout of the list at an address, None for an empty iterator. *)
Layout(of, at) ==
  LET word == Low(image, at)
      kind == IF of = "methods" THEN MethodKind(word) ELSE of
  IN  IF at = 0 \/ (of # "ivars" /\ at % 2 = 1) \/ ~ReadBytes(image, at, WordSize)
      THEN None
      ELSE IF of = "names"
      THEN [kind |-> of, base |-> at + WordSize, entsize |-> WordSize,
            count |-> Min({Word(image, at), MaxNames})]
      ELSE IF Entsize(of, word) < LeastSize(kind) THEN None
      ELSE [kind |-> kind, base |-> at + WordSize, entsize |-> Entsize(of, word),
            count |-> High(image, at)]
-----------------------------------------------------------------------------
(* decode_legacy_method: three pointers. *)
LegacyMethod(va) ==
  LET selector == TextAt(va)
  IN  IF ReadBytes(image, va, 3 * WordSize) /\ selector # None
      THEN [kind |-> "legacy", name |-> selector,
            types |-> OrEmpty(TextAt(va + WordSize)),
            imp |-> NonZero(OrZero(Resolve(va + 2 * WordSize)))]
      ELSE None

(* Mutant: the second offset counts from the start of the record. *)
TypesSlotOfRecord(va) == va

TypesSlot(va) == va + HalfSize

ImpSlot(va) == va + WordSize

SmallImp(va) ==
  LET half == Low(image, ImpSlot(va))
  IN  IF half = 0 THEN None ELSE Relative(ImpSlot(va), half) % PacUnit

(* decode_small_method: three offsets, each from its own slot; the first   *)
(* leads to a selector reference or to the selector itself.                *)
SmallMethod(kind, va) ==
  LET name == Relative(va, Low(image, va))
      selector == IF kind = "direct" THEN ReadCStr(image, name) ELSE TextAt(name)
  IN  IF ReadBytes(image, va, 3 * HalfSize) /\ selector # None
      THEN [kind |-> kind, name |-> selector,
            types |-> OrEmpty(ReadCStr(image, Relative(TypesSlot(va), High(image, va)))),
            imp |-> SmallImp(va)]
      ELSE None

(* decode_ivar; the offset stands in a cell of its own. *)
IvarOffset(cell) ==
  IF cell # 0 /\ ReadBytes(image, cell, HalfSize) THEN Low(image, cell) ELSE None

IvarEntry(va) ==
  LET name == TextAt(va + WordSize)
      alignment == Low(image, va + 3 * WordSize)
  IN  IF ReadBytes(image, va, 4 * WordSize) /\ name # None
      THEN [kind |-> "ivars", name |-> name,
            types |-> OrEmpty(TextAt(va + 2 * WordSize)),
            offset |-> IvarOffset(OrZero(Resolve(va))),
            size |-> High(image, va + 3 * WordSize),
            alignment |-> IF alignment = HalfUnit - 1 THEN WordShift
                          ELSE alignment % ByteUnit]
      ELSE None

(* decode_property *)
PropertyEntry(va) ==
  LET name == TextAt(va)
  IN  IF ReadBytes(image, va, 2 * WordSize) /\ name # None
      THEN [kind |-> "properties", name |-> name,
            attributes |-> OrEmpty(TextAt(va + WordSize))]
      ELSE None
-----------------------------------------------------------------------------
(* The records; None where one cannot be decoded.  A list is what an       *)
(* accessor of the row passes on: what it is of, and where it is.          *)
ListOf(field, of, slot) == [field |-> field, of |-> of, at |-> OrZero(Resolve(slot))]

(* ObjcClass::ro, decode_class_ro; class is a row of ClassIter, its ro the *)
(* masked pointer.                                                         *)
ClassRow(class, fields) ==
  LET ro == class.ro
      name == TextAt(ro + 3 * WordSize)
      list(field) == CASE field = "methods" -> ListOf(field, "methods", ro + 4 * WordSize)
                       [] field = "protocols" -> ListOf(field, "names", ro + 5 * WordSize)
                       [] field = "ivars" -> ListOf(field, "ivars", ro + 6 * WordSize)
                       [] field = "properties" -> ListOf(field, "properties", ro + 8 * WordSize)
  IN  IF ro # None /\ ReadBytes(image, ro, 9 * WordSize) /\ name # None
      THEN [address |-> class.address, name |-> name, host |-> None, meta |-> class.meta,
            lists |-> [k \in DOMAIN fields |-> list(fields[k])]]
      ELSE None

(* The trailing field of a protocol_t is there if it is inside size. *)
HasClassProps(size) == size >= 12 * WordSize

(* decode_protocol *)
ProtocolRow(va) ==
  LET name == TextAt(va + WordSize)
      size == Low(image, va + 8 * WordSize)
      last == va + 11 * WordSize
      lists == <<ListOf("instance", "methods", va + 3 * WordSize),
                 ListOf("class", "methods", va + 4 * WordSize),
                 ListOf("optional instance", "methods", va + 5 * WordSize),
                 ListOf("optional class", "methods", va + 6 * WordSize),
                 ListOf("properties", "properties", va + 7 * WordSize),
                 ListOf("protocols", "names", va + 2 * WordSize)>>
  IN  IF /\ ReadBytes(image, va, 9 * WordSize) /\ name # None
         /\ HasClassProps(size) => Readable(image, last)
      THEN [address |-> va, name |-> name, host |-> None, meta |-> FALSE,
            lists |-> IF HasClassProps(size)
                      THEN Append(lists, ListOf("class properties", "properties", last))
                      ELSE lists]
      ELSE None

(* Mutant: the bind is looked up at the category. *)
HostNameOfRecord(va) ==
  LET class == OrZero(Resolve(va + WordSize))
  IN  IF class \in DOMAIN image.classNames THEN image.classNames[class]
      ELSE IF va \in DOMAIN image.binds THEN StripPrefix(image.binds[va]) ELSE None

(* ObjcCategory::class_name *)
HostName(va) ==
  LET class == OrZero(Resolve(va + WordSize))
      slot == va + WordSize
  IN  IF class # 0 /\ class \in DOMAIN image.classNames THEN image.classNames[class]
      ELSE IF slot \in DOMAIN image.binds THEN StripPrefix(image.binds[slot]) ELSE None

(* decode_category *)
CategoryRow(va) ==
  LET name == TextAt(va)
      props == HasBit(image.flags, ClassProps)
      lists == <<ListOf("instance", "methods", va + 2 * WordSize),
                 ListOf("class", "methods", va + 3 * WordSize),
                 ListOf("protocols", "names", va + 4 * WordSize),
                 ListOf("properties", "properties", va + 5 * WordSize)>>
  IN  IF ReadBytes(image, va, (IF props THEN 7 ELSE 6) * WordSize) /\ name # None
      THEN [address |-> va, name |-> name, host |-> HostName(va), meta |-> FALSE,
            lists |-> IF props
                      THEN Append(lists, ListOf("class properties", "properties", va + 6 * WordSize))
                      ELSE lists]
      ELSE None

(* ProtocolNameIter::next: a protocol of the image, or else the symbol     *)
(* bound to the slot.                                                      *)
ProtocolName(slot) ==
  LET va == OrZero(Resolve(slot))
      local == IF va = 0 THEN None ELSE ProtocolRow(va)
  IN  IF local # None THEN local.name
      ELSE IF slot \in DOMAIN image.binds THEN StripPrefix(image.binds[slot]) ELSE None

Member(kind, va) ==
  CASE kind = "legacy" -> LegacyMethod(va)
    [] kind \in {"direct", "indirect"} -> SmallMethod(kind, va)
    [] kind = "ivars" -> IvarEntry(va)
    [] kind = "properties" -> PropertyEntry(va)
    [] kind = "names" -> ProtocolName(va)
=============================================================================
