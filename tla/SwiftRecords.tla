---------------------------- MODULE SwiftRecords ----------------------------
(***************************************************************************)
(* The records of the __swift5_ sections, each as one read returns it.     *)
(* Almost all of their pointers are 32-bit offsets from their own slot.    *)
(*                                                                         *)
(* To what DataImage says of an image, this adds: bits, the set of bits of *)
(* the flags word at an offset; sections, for each name the address, size  *)
(* and offset of that section, or None; is64.  Here words has one number   *)
(* for every 32 bits.                                                      *)
(***************************************************************************)
EXTENDS DataImage

CONSTANTS
  Limit,        \* 2^64
  ShortUnit,    \* 2^16
  CaseUnit      \* 2^24: payload cases below, the size offset above

ASSUME RecordAssumption ==
  {Limit, ShortUnit, CaseUnit, WordSize \div 2} \subseteq Nat \ {0}

Half(va) == Low(image, va)

Signed(half) == IF half >= HalfUnit \div 2 THEN half - HalfUnit ELSE half

(* relative_pointer *)
RelativePointer(slot, half) == (slot + Signed(half)) % Limit

(* Most fields are null if their offset is. *)
Relative(slot) == IF Half(slot) = 0 THEN 0 ELSE RelativePointer(slot, Half(slot))

OptionalText(slot) == ReadCStr(image, Relative(slot))

(* The name of a context is read even if its offset is null, which leads   *)
(* to the four zeros of the slot.                                          *)
Name(slot) == IF Half(slot) = 0 THEN <<>> ELSE ReadCStr(image, Relative(slot))

Bits(va) ==
  LET offset == FileOffset(image, va)
  IN  IF offset \in DOMAIN image.bits THEN image.bits[offset] ELSE {}

SectionHalf(section, offset) == WordAt(image, section.offset + offset)
-----------------------------------------------------------------------------
(* ContextDescriptorFlags, with TypeContextDescriptorFlags from bit 16 on. *)
ContextKind(bits) ==
  CASE bits \cap 0..4 = {4} -> "class"
    [] bits \cap 0..4 = {0, 4} -> "struct"
    [] bits \cap 0..4 = {1, 4} -> "enum"
    [] OTHER -> "other"

HasInvertible(bits) == 5 \in bits
IsGeneric(bits) == 7 \in bits

MetadataInitialization(bits) ==
  CASE bits \cap {16, 17} = {} -> "none" [] bits \cap {16, 17} = {16} -> "singleton"
    [] bits \cap {16, 17} = {17} -> "foreign" [] OTHER -> "other"

(* One bit means two things. *)
HasPrespecializations(bits) == 19 \in bits /\ MetadataInitialization(bits) # "singleton"
HasMetadataPointer(bits) == 19 \in bits /\ MetadataInitialization(bits) = "singleton"

HasDefaultOverrides(bits) == 22 \in bits
HasResilientSuperclass(bits) == 29 \in bits
HasOverrideTable(bits) == 30 \in bits
HasVTable(bits) == 31 \in bits

(* ConformanceFlags::type_reference_kind *)
TypeReferenceKind(bits) ==
  CASE bits \cap 3..5 = {} -> "direct" [] bits \cap 3..5 = {3} -> "indirect"
    [] bits \cap 3..5 = {4} -> "class name" [] bits \cap 3..5 = {3, 4} -> "class"
    [] OTHER -> "other"
-----------------------------------------------------------------------------
(* decode_class_body, decode_struct_body, decode_enum_body, up to their    *)
(* trailing objects, which start at after; None if there is no room.       *)
ClassBody(va, bits) ==
  LET resilient == HasResilientSuperclass(bits)
  IN  IF ~ReadBytes(image, va, 24) THEN None
      ELSE [kind |-> "class", superclass |-> OptionalText(va), after |-> va + 24,
            bounds |-> IF resilient THEN <<Relative(va + 4)>>
                       ELSE <<Half(va + 4), Half(va + 8)>>,
            extra |-> IF resilient THEN Half(va + 8) ELSE None,
            counts |-> <<Half(va + 12), Half(va + 16), Half(va + 20)>>]

ValueBody(kind, va) ==
  IF ~ReadBytes(image, va, 8) THEN None
  ELSE [kind |-> kind, superclass |-> None, after |-> va + 8, bounds |-> <<>>,
        extra |-> None,
        counts |-> IF kind = "struct" THEN <<Half(va), Half(va + 4)>>
                   ELSE <<Half(va) % CaseUnit, Half(va) \div CaseUnit, Half(va + 4)>>]

NonType == [kind |-> "nontype", superclass |-> None, after |-> 0, bounds |-> <<>>,
            extra |-> None, counts |-> <<>>]

Body(va, bits) ==
  LET body == CASE ContextKind(bits) = "class" -> ClassBody(va + 20, bits)
                [] ContextKind(bits) \in {"struct", "enum"} ->
                     ValueBody(ContextKind(bits), va + 20)
                [] ContextKind(bits) = "other" -> None
  IN  IF body = None THEN NonType ELSE body

(* decode_type_descriptor; its blocks come from the walk of ClassTrailers. *)
TypeRow(va) ==
  IF ReadBytes(image, va, 20) /\ Name(va + 8) # None
  THEN [address |-> va, bits |-> Bits(va), parent |-> Relative(va + 4),
        name |-> Name(va + 8), body |-> Body(va, Bits(va)), blocks |-> <<>>]
  ELSE None

(* decode_protocol *)
ProtocolRow(va) ==
  IF ReadBytes(image, va, 24) /\ Name(va + 8) # None
  THEN [address |-> va, parent |-> Relative(va + 4), name |-> Name(va + 8),
        counts |-> <<Half(va + 12), Half(va + 16)>>, associated |-> OptionalText(va + 20)]
  ELSE None

(* decode_type_reference: a class name that cannot be read is kept as it   *)
(* is.                                                                     *)
TypeReference(slot, bits) ==
  LET name == OptionalText(slot)
      kind == TypeReferenceKind(bits)
  IN  IF kind # "class name" THEN [kind |-> kind, of |-> <<Relative(slot)>>]
      ELSE IF name # None THEN [kind |-> kind, of |-> name]
      ELSE [kind |-> "other", of |-> <<Relative(slot)>>]

(* decode_conformance *)
ConformanceRow(va) ==
  IF ReadBytes(image, va, 16)
  THEN [address |-> va, protocol |-> Relative(va), witness |-> Relative(va + 8),
        type |-> TypeReference(va + 4, Bits(va + 12))]
  ELSE None
-----------------------------------------------------------------------------
(* read_cstr_at: the terminator stands inside as well. *)
TextWithin(offset, end) ==
  LET text == CStr(image, offset)
  IN  IF text # None /\ offset + text[2] >= end THEN None ELSE text

(* lookup_field_name: a name the segments do not show may still be inside  *)
(* of __swift5_reflstr.                                                    *)
FieldName(slot) ==
  LET va == Relative(slot)
      pool == image.sections["reflstr"]
  IN  IF va = 0 \/ ReadCStr(image, va) # None \/ pool = None THEN ReadCStr(image, va)
      ELSE IF va < pool.address \/ va - pool.address >= pool.size THEN None
      ELSE TextWithin(pool.offset + (va - pool.address), pool.offset + pool.size)

(* What the fields of an entry of a table are; of two kinds of trailing    *)
(* objects nothing but the header is read.                                 *)
Fields(of) ==
  CASE of = "vtable" -> <<"word", "relative">>
    [] of \in {"override table", "singleton"} -> <<"relative", "relative", "relative">>
    [] of = "default overrides" -> <<"relative", "relative">>
    [] of \in {"prespecializations", "foreign", "resilient superclass", "stub",
               "metadata pointer"} -> <<"relative">>
    [] of = "records" -> <<"word", "text", "name">>
    [] of \in {"generic", "invertible"} -> <<>>

Field(what, slot) ==
  CASE what = "word" -> Half(slot) [] what = "relative" -> Relative(slot)
    [] what = "text" -> OptionalText(slot) [] what = "name" -> FieldName(slot)

(* The entry at an address, None if it cannot be read. *)
Entry(of, va) ==
  IF ReadBytes(image, va, HalfSize * Len(Fields(of)))
  THEN [k \in DOMAIN Fields(of) |-> Field(Fields(of)[k], va + HalfSize * (k - 1))]
  ELSE None
=============================================================================
