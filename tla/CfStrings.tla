------------------------------ MODULE CfStrings ------------------------------
(***************************************************************************)
(* CFStringRuntime: build takes the first __cfstring section, CFStringIter *)
(* goes over its quadruples, and decode_body over the text of each.        *)
(***************************************************************************)
EXTENDS DataImage

CONSTANTS
  EncodingBits, \* CFSTRING_FLAG_ENCODING_MASK has the bits below this one
  EncodingUnit, \* and from this one on
  AsciiFlag,    \* CFSTRING_FLAG_ASCII
  Utf16Flag     \* CFSTRING_FLAG_UTF16

ASSUME EncodingAssumption ==
  /\ {EncodingBits, EncodingUnit} \subseteq Nat \ {0}
  /\ {AsciiFlag, Utf16Flag} \subseteq 0 .. EncodingBits - 1 /\ AsciiFlag # Utf16Flag

(* image.tables are the section tables of the segments, in file order; a  *)
(* row is malformed, or has the name, the address and the body of the      *)
(* section, a stretch of the file.  image.bad8 and image.bad16 are the     *)
(* offsets whose byte makes a text of UTF-8 or UTF-16 invalid.             *)
VARIABLES
  cfPhase,      \* "find", "walk", "none" or "done"
  taken,        \* segments SectionIter has taken
  current,      \* the rows of the last one it has not passed
  section,      \* the section
  cfRebases,    \* rebases_by_va
  cursor,       \* bytes of the section the iterator has passed
  strings       \* the rows

cfVars == <<image, cfPhase, taken, current, section, cfRebases, cursor, strings>>

CfInit ==
  /\ cfPhase = "find" /\ taken = 0 /\ current = <<>> /\ section = None
  /\ cfRebases = [va \in {} |-> 0] /\ cursor = 0 /\ strings = <<>>

(* CFSTRING_STRIDE *)
Stride == 4 * WordSize
-----------------------------------------------------------------------------
(* CFStringRuntime::build drains SectionIter up to the first section of    *)
(* that name.                                                              *)
Finding == cfPhase = "find" /\ image.is64

Unfound == UNCHANGED <<image, cfPhase, section, cfRebases, cursor, strings>>

(* SectionIter::next has no row left of the current segment. *)
NextTable ==
  /\ Finding /\ current = <<>> /\ taken < Len(image.tables)
  /\ taken' = taken + 1
  /\ current' = image.tables[taken + 1]
  /\ Unfound

(* Mutant: the rows behind a malformed one are lost. *)
SkipMalformedAndRest ==
  /\ Finding /\ current # <<>> /\ Head(current).malformed
  /\ current' = <<>>
  /\ taken' = taken
  /\ Unfound

SkipMalformed ==
  /\ Finding /\ current # <<>> /\ Head(current).malformed
  /\ current' = Tail(current)
  /\ taken' = taken
  /\ Unfound

Named == ~Head(current).malformed /\ Head(current).name = "cfstring"

PassSection ==
  /\ Finding /\ current # <<>> /\ ~Head(current).malformed /\ ~Named
  /\ current' = Tail(current)
  /\ taken' = taken
  /\ Unfound

TakeSection ==
  /\ Finding /\ current # <<>> /\ Named
  /\ section' = Head(current)
  /\ cfRebases' = RebasesByVa(image)
  /\ cfPhase' = "walk"
  /\ UNCHANGED <<image, taken, current, cursor, strings>>

NoSection ==
  /\ cfPhase = "find"
  /\ ~image.is64 \/ (current = <<>> /\ taken = Len(image.tables))
  /\ cfPhase' = "none"
  /\ UNCHANGED <<image, taken, current, section, cfRebases, cursor, strings>>
-----------------------------------------------------------------------------
(* CFStringEncoding::from_flags *)
Encoding(flags) == ((flags % EncodingBits) \div EncodingUnit) * EncodingUnit

(* decode_body; a text is valid if no byte in it is bad. *)
Slice(offset, len) == offset .. offset + len - 1

Body(flags, address, length) ==
  LET offset == FileOffset(image, address)
      encoding == Encoding(flags)
      whole(bytes) == offset + bytes <= image.size
  IN  CASE address = 0 \/ offset = None \/ encoding \notin {AsciiFlag, Utf16Flag} -> None
        [] address # 0 /\ offset # None /\ encoding = AsciiFlag ->
             IF whole(length)
             THEN IF Slice(offset, length) \cap image.bad8 = {}
                  THEN <<offset, length>> ELSE None
             ELSE CStr(image, offset)
        [] address # 0 /\ offset # None /\ encoding = Utf16Flag ->
             IF whole(2 * length) /\ Slice(offset, 2 * length) \cap image.bad16 = {}
             THEN <<offset, 2 * length>> ELSE None

(* A word of the quadruple, from the body of the section; the slot of its  *)
(* text, by address.                                                       *)
Field(k) == WordAt(image, section.offset + cursor + k * WordSize)

(* Mutant: rebases are looked up from the start of the section. *)
TextSlotShifted == cursor + 2 * WordSize

TextSlot == section.address + cursor + 2 * WordSize

Decoded ==
  LET flags == Field(1) % HalfUnit
      address == ResolvePointer(cfRebases, TextSlot, Field(2))
  IN  [address |-> section.address + cursor, flags |-> flags,
       text |-> address, length |-> Field(3), body |-> Body(flags, address, Field(3))]

NextString ==
  /\ cfPhase = "walk" /\ cursor + Stride <= section.size
  /\ strings' = Append(strings, Decoded)
  /\ cursor' = cursor + Stride
  /\ UNCHANGED <<image, cfPhase, taken, current, section, cfRebases>>

EndStrings ==
  /\ cfPhase = "walk" /\ cursor + Stride > section.size
  /\ cfPhase' = "done"
  /\ UNCHANGED <<image, taken, current, section, cfRebases, cursor, strings>>

CfStep == NextTable \/ SkipMalformed \/ PassSection \/ TakeSection \/ NoSection
            \/ NextString \/ EndStrings
=============================================================================
