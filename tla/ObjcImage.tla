------------------------------ MODULE ObjcImage ------------------------------
(***************************************************************************)
(* What the Objective-C walkers of darwinscope read from an image: bytes   *)
(* through the segment table, strings, and pointer slots, whose meaning    *)
(* depends on the fixups.  On an image with chained fixups the bytes of a  *)
(* slot are a chain entry and the pointer is in the rebase row for the     *)
(* slot's address; otherwise the bytes are the pointer, perhaps signed.    *)
(*                                                                         *)
(* Addresses are numbers; a word is WordSize of them.  The image has one   *)
(* stretch of mapped bytes, lo .. end-1; raw[va] is the number the word at *)
(* va, aligned or not, holds.  A raw pointer is pac * PacUnit + va: above  *)
(* the address stand the bits of its signature, of which the lowest is one *)
(* that FAST_DATA_MASK_ARM64E keeps.  The units are powers of two in the   *)
(* code; what matters of it is that masks and words fit together.          *)
(***************************************************************************)
EXTENDS Integers, Sequences, FiniteSets

CONSTANTS
  WordSize,     \* 8
  PacUnit,      \* 2^48, VA_MASK + 1
  StdUnit,      \* 2^39, the reach of FAST_DATA_MASK_64
  SuperAt,      \* offset of class_t.superclass (8)
  BitsAt,       \* offset of class_t.bits (32)
  ClassSize,    \* 40
  NameAt,       \* offset of class_ro_t.name (24)
  RoSize,       \* 72
  Names,        \* what strings can say
  None          \* the Option that holds nothing

ASSUME ImageAssumption ==
  /\ WordSize \in Nat \ {0} /\ PacUnit \in Nat \ {0} /\ StdUnit \in 1..PacUnit
  /\ PacUnit % WordSize = 0 /\ StdUnit % WordSize = 0
  /\ SuperAt \in Nat /\ BitsAt \in Nat /\ NameAt \in Nat
  /\ ClassSize \in Nat /\ RoSize \in Nat
  /\ None \notin Nat \cup Names

(* vm_to_file_offset is Some, and len bytes follow. *)
Mapped(im, va) == im.lo <= va /\ va < im.end

ReadBytes(im, va, len) == Mapped(im, va) /\ va + len <= im.end

ReadU64(im, va) == IF ReadBytes(im, va, WordSize) THEN im.raw[va] ELSE None

(* read_cstr: the null address, an unmapped one and bytes that are no      *)
(* UTF-8 text give None.                                                   *)
ReadCStr(im, va) ==
  IF va # 0 /\ Mapped(im, va) /\ va \in DOMAIN im.strings
  THEN im.strings[va] ELSE None

(* ptrauth::strip_signature *)
StripSignature(v) == v % PacUnit

(* v & !FAST_FLAGS_MASK *)
ClearFlags(v) == v - (v % WordSize)

(* mask_class_ro_pointer: the wide mask, if what it leaves is mapped, else *)
(* the standard one, resolving or not.                                     *)
MaskRo(im, bits) ==
  LET wide == ClearFlags(bits % (2 * PacUnit))
      std  == ClearFlags(bits % StdUnit)
  IN  IF wide # 0 /\ Mapped(im, wide) THEN wide
      ELSE IF std # 0 THEN std ELSE None

(* ObjcRuntime::resolve_pointer; rebases is the map from slot to target. *)
ResolvePointer(im, rebases, slot) ==
  IF slot \in DOMAIN rebases THEN rebases[slot]
  ELSE IF ReadU64(im, slot) = None THEN None
  ELSE StripSignature(ReadU64(im, slot))

(* unwrap_or(0) *)
OrZero(v) == IF v = None THEN 0 ELSE v

(* decode_class: the class_t at va, or {} when it or its bits cannot be    *)
(* read.                                                                   *)
DecodeClass(im, rebases, va, meta) ==
  LET slot == va + BitsAt
      raw  == ReadU64(im, slot)
      ro   == IF slot \in DOMAIN rebases THEN rebases[slot]
              ELSE OrZero(MaskRo(im, raw))
  IN  IF ReadBytes(im, va, ClassSize) /\ raw # None
      THEN {[address    |-> va,
             isa        |-> OrZero(ResolvePointer(im, rebases, va)),
             superclass |-> OrZero(ResolvePointer(im, rebases, va + SuperAt)),
             ro         |-> ClearFlags(ro),
             flags      |-> raw % WordSize,
             meta       |-> meta]}
      ELSE {}

(* ObjcClass::ro, then ClassRo::name.  bits is re-masked on the way. *)
RoName(im, rebases, class) ==
  LET ro == MaskRo(im, class.ro + class.flags)
  IN  IF ro # None /\ ReadBytes(im, ro, RoSize)
      THEN LET name == ResolvePointer(im, rebases, ro + NameAt)
           IN  IF name = None THEN None ELSE ReadCStr(im, name)
      ELSE None

(* Mutant: the word in the slot is not masked. *)
DecodeClassNameUnmasked(im, rebases, va) ==
  LET ro   == ResolvePointer(im, rebases, va + BitsAt)
      name == ResolvePointer(im, rebases, ro + NameAt)
  IN  IF ReadBytes(im, va, ClassSize) /\ ro # None /\ name # None
      THEN ReadCStr(im, name) ELSE None

(* decode_class_name: as decode_class and ro().name(), but the target of a *)
(* rebased bits slot is used as it is.                                     *)
DecodeClassName(im, rebases, va) ==
  LET slot == va + BitsAt
      raw  == ReadU64(im, slot)
      ro   == IF slot \in DOMAIN rebases THEN rebases[slot]
              ELSE IF raw = None THEN None ELSE MaskRo(im, raw)
      name == ResolvePointer(im, rebases, ro + NameAt)
  IN  IF ReadBytes(im, va, ClassSize) /\ ro # None /\ name # None
      THEN ReadCStr(im, name) ELSE None

(* superclass_name: the in-image name, else the symbol bound to the slot.  *)
SuperName(im, rebases, binds, class) ==
  LET local == DecodeClassName(im, rebases, class.superclass)
      slot  == class.address + SuperAt
  IN  IF class.superclass # 0 /\ local # None THEN local
      ELSE IF slot \in DOMAIN binds THEN binds[slot] ELSE None
=============================================================================
