------------------------------ MODULE DataImage ------------------------------
(***************************************************************************)
(* What the walkers over constant data read: words and text through the    *)
(* segment table, and pointer slots, which mean what the rebase row for    *)
(* their address says, or else their own content without a signature.      *)
(*                                                                         *)
(* An image is a record: segments, its table; size, the bytes of the file; *)
(* words, the number at each offset (0 where nothing is said); text, the   *)
(* length of the C string that starts at an offset; rebases, the rows of   *)
(* chained_rebases().  A text is named by its place in the file.           *)
(***************************************************************************)
EXTENDS Integers, Sequences, FiniteSetsExt

CONSTANTS
  WordSize,     \* 8
  HalfUnit,     \* 2^32: one more than the low half of a word can hold
  PacUnit,      \* 2^48: one more than an address can be
  None          \* the Option that holds nothing

ASSUME DataAssumption ==
  /\ WordSize \in Nat \ {0} /\ HalfUnit \in Nat \ {0} /\ PacUnit \in Nat \ {0}
  /\ None \notin Nat

VARIABLE
  image         \* the image, never written

HalfSize == WordSize \div 2

(* vm_to_file_offset_in: the first segment around the address decides. *)
Around(im, va) ==
  {k \in DOMAIN im.segments :
     /\ im.segments[k].filesize > 0
     /\ im.segments[k].vmaddr <= va
     /\ va < im.segments[k].vmaddr + im.segments[k].vmsize}

OffsetIn(seg, va) ==
  IF va - seg.vmaddr < seg.filesize THEN seg.fileoff + (va - seg.vmaddr) ELSE None

FileOffset(im, address) ==
  LET offset[va \in Int] ==
        IF Around(im, va) = {} THEN None
        ELSE OffsetIn(im.segments[Min(Around(im, va))], va)
  IN  offset[address]

WordAt(im, offset) == IF offset \in DOMAIN im.words THEN im.words[offset] ELSE 0

(* read_bytes *)
ReadBytes(im, va, len) ==
  FileOffset(im, va) # None /\ FileOffset(im, va) + len <= im.size

(* read_u64; read_u32 at the front of a word, and behind that. *)
Readable(im, va) == ReadBytes(im, va, WordSize)

Word(im, va) == WordAt(im, FileOffset(im, va))

Low(im, va) == Word(im, va) % HalfUnit
High(im, va) == Word(im, va) \div HalfUnit

CStr(im, offset) ==
  IF offset \in DOMAIN im.text THEN <<offset, im.text[offset]>> ELSE None

(* read_cstr *)
ReadCStr(im, address) ==
  LET text[va \in Int] ==
        IF va = 0 \/ FileOffset(im, va) = None THEN None
        ELSE CStr(im, FileOffset(im, va))
  IN  text[address]

(* rebases_by_va: of two rows for a slot the later one stays. *)
RebasesByVa(im) ==
  LET rows(va) == {k \in DOMAIN im.rebases : im.rebases[k].va = va}
  IN  [va \in {im.rebases[k].va : k \in DOMAIN im.rebases} |->
         im.rebases[Max(rows(va))].target]

(* resolve_pointer *)
ResolvePointer(rebases, slot, raw) ==
  IF slot \in DOMAIN rebases THEN rebases[slot] ELSE raw % PacUnit

Pointer(im, rebases, slot) == ResolvePointer(rebases, slot, Word(im, slot))
-----------------------------------------------------------------------------
(* The first n of a set of positions in ascending order are all of it. *)
Listings(positions, n) ==
  {at \in [1..n -> positions] :
     /\ \A i, j \in 1..n : i < j => at[i] < at[j]
     /\ \A k \in positions : \E i \in 1..n : at[i] = k}
=============================================================================
