---------------------------- MODULE ClassTrailers ----------------------------
(***************************************************************************)
(* decode_class_trailers and decode_value_type_trailers: the objects that  *)
(* stand behind a class, struct or enum descriptor.  Flags say which ones  *)
(* there are, and where one is follows from the sizes of all before it,    *)
(* some of which stand in the objects themselves.                          *)
(***************************************************************************)
EXTENDS SwiftRecords

VARIABLES
  type,         \* the descriptor being decoded, None if none is
  at,           \* cursor
  block         \* blocks considered

trailerVars == <<type, at, block>>

TrailerInit == type = None /\ at = 0 /\ block = 0

ClassBlocks ==
  <<"generic", "resilient superclass", "foreign", "singleton", "vtable",
    "override table", "stub", "prespecializations", "invertible",
    "metadata pointer", "default overrides">>

ValueBlocks ==
  <<"generic", "foreign", "singleton", "prespecializations", "invertible",
    "metadata pointer">>

Blocks(of) ==
  CASE of.body.kind = "class" -> ClassBlocks
    [] of.body.kind \in {"struct", "enum"} -> ValueBlocks
    [] of.body.kind = "nontype" -> <<>>

Has(of, name) ==
  CASE name = "generic" -> IsGeneric(of.bits)
    [] name = "resilient superclass" -> HasResilientSuperclass(of.bits)
    [] name \in {"foreign", "singleton"} -> MetadataInitialization(of.bits) = name
    [] name = "vtable" -> HasVTable(of.bits)
    [] name = "override table" -> HasOverrideTable(of.bits)
    [] name = "stub" -> of.body.extra # None /\ of.body.extra % 2 = 1
    [] name = "prespecializations" -> HasPrespecializations(of.bits)
    [] name = "invertible" -> HasInvertible(of.bits)
    [] name = "metadata pointer" -> HasMetadataPointer(of.bits)
    [] name = "default overrides" -> HasDefaultOverrides(of.bits)

(* The bytes that are read to know the size of a block. *)
HeaderSize(name) ==
  CASE name = "generic" -> 16 [] name = "vtable" -> 8 [] name = "invertible" -> 2
    [] name \in {"override table", "prespecializations", "default overrides"} -> 4
    [] name \in {"resilient superclass", "foreign", "singleton", "stub",
                 "metadata pointer"} -> 0

(* The number of entries of a block. *)
Count(name, va) ==
  CASE name = "vtable" -> Half(va + 4)
    [] name \in {"override table", "prespecializations", "default overrides"} -> Half(va)
    [] name \in {"generic", "invertible"} -> 0
    [] name \in {"resilient superclass", "foreign", "singleton", "stub",
                 "metadata pointer"} -> 1

Padded(bytes) == HalfSize * ((bytes + HalfSize - 1) \div HalfSize)

(* Mutant: generic parameters are not padded. *)
GenericSizeUnpadded(va) ==
  16 + (Half(va + 8) % ShortUnit) + 12 * (Half(va + 8) \div ShortUnit)

(* decode_generic_header *)
GenericSize(va) ==
  16 + Padded(Half(va + 8) % ShortUnit) + 12 * (Half(va + 8) \div ShortUnit)

(* Each prespecialization has an accessor behind all of them; the 16 bits  *)
(* of the invertible protocols are padded.                                 *)
Size(name, va) ==
  CASE name = "generic" -> GenericSize(va)
    [] name = "invertible" -> 4
    [] name = "prespecializations" -> 4 + 2 * HalfSize * Count(name, va)
    [] name \notin {"generic", "invertible", "prespecializations"} ->
         HeaderSize(name) + HalfSize * Len(Fields(name)) * Count(name, va)

Block(name, va) ==
  [of |-> name, at |-> va, base |-> va + HeaderSize(name), count |-> Count(name, va),
   word |-> CASE name = "invertible" -> Half(va) % ShortUnit [] name = "vtable" -> Half(va)
              [] name \notin {"invertible", "vtable"} -> 0]

Known(name, va) == HeaderSize(name) = 0 \/ ReadBytes(image, va, HeaderSize(name))

HasBlock == block < Len(Blocks(type))

NextBlock == Blocks(type)[block + 1]

AbsentBlock ==
  /\ HasBlock /\ ~Has(type, NextBlock)
  /\ block' = block + 1
  /\ UNCHANGED <<type, at>>

TakeBlock ==
  /\ HasBlock
  /\ Has(type, NextBlock) /\ Known(NextBlock, at)
  /\ type' = [type EXCEPT !.blocks = Append(@, Block(NextBlock, at))]
  /\ at' = at + Size(NextBlock, at)
  /\ block' = block + 1

(* A block of unknown size takes all behind it along. *)
LostBlock ==
  /\ HasBlock
  /\ Has(type, NextBlock) /\ ~Known(NextBlock, at)
  /\ block' = Len(Blocks(type))
  /\ UNCHANGED <<type, at>>
=============================================================================
