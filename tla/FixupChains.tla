----------------------------- MODULE FixupChains -----------------------------
(***************************************************************************)
(* The chained-fixup walk of src/src/fixup.rs, driven by                   *)
(* MachoBinary::chained_rebases / chained_binds (src/src/binary.rs).       *)
(*                                                                         *)
(* The walk is one call of a sequential program over immutable bytes.  It  *)
(* first drains ChainedSegmentIter and pairs every record it yields with   *)
(* the segment of the same index (collect_chained_segments); then          *)
(* decode_segment_chains walks, segment by segment and page by page, the   *)
(* linked list of pointer slots that starts on each page, and appends a    *)
(* row for every slot to the list of rebases or to the list of binds.      *)
(*                                                                         *)
(* Everything the walk reads from the file is the constant part of the     *)
(* state, "image", chosen once in Init: the code is run on one image and   *)
(* the model on every image of Images.  Offsets, sizes and addresses are   *)
(* numbers of an arbitrary unit; SlotSize and the two strides say how many *)
(* units 8 and 4 bytes are.                                                *)
(***************************************************************************)
EXTENDS Integers, Sequences, FiniteSets

CONSTANTS
  Images,       \* the images the walk may be run on
  DataLen,      \* length of the file
  SlotSize,     \* bytes read for a slot (read_u64_le_at: 8)
  LongStride,   \* stride of the 8-byte-stride formats
  ShortStride,  \* stride of the 4-byte-stride formats
  MultiBit,     \* PTR_START_MULTI, the top bit of a page start (0x8000)
  MaxU          \* largest u64, where vm addresses saturate

Formats == {"Arm64e", "Ptr64", "Ptr64Offset", "Arm64eKernel",
            "Arm64eUserland", "Arm64eUserland24", "Arm64eSharedCache",
            "Other"}

(* PointerFormat::is_supported. *)
Supported == Formats \ {"Other"}

PageStart == 0 .. (2 * MultiBit - 1)
StartNone == 2 * MultiBit - 1           \* PTR_START_NONE, all ones

Segment == [vmaddr: 0..MaxU, fileoff: Nat, filesize: Nat]

(* One entry of seg_info_offset[] and the record it points to.  "absent": *)
(* the offset is 0; "short": fewer than 22 bytes follow it; "unreadable":   *)
(* the entry itself, or the offset it holds, lies past the end of the      *)
(* file.  Only a "starts" record has a meaningful rest: starts holds the   *)
(* page starts that are inside the file, pageCount how many the record     *)
(* claims.                                                                 *)
Record == [kind: {"starts", "absent", "short", "unreadable"},
           format: Formats, pageSize: Nat, pageCount: Nat,
           starts: Seq(PageStart)]

(* A slot as decode_chain_entry splits it: value is the target field of a  *)
(* rebase and the import ordinal of a bind, next counts strides.           *)
Slot == [bind: BOOLEAN, auth: BOOLEAN, value: Nat, next: Nat]

Image == [segs: Seq(Segment), records: Seq(Record),
          slots: [0..(DataLen - SlotSize) -> Slot]]

ASSUME FixupAssumption ==
  /\ DataLen \in Nat /\ MaxU \in Nat /\ MultiBit \in Nat \ {0}
  /\ SlotSize \in Nat \ {0}
  /\ LongStride \in Nat \ {0} /\ ShortStride \in Nat \ {0}
  /\ Images \subseteq Image

VARIABLES
  image,     \* the file, never written
  phase,     \* "collect", "walk" or "done"
  cursor,    \* ChainedSegmentIter::cursor, entries consumed so far
  locs,      \* the collected SegmentLocs, as indices into segs and records
  loc,       \* position in locs of the segment being walked
  page,      \* page_idx
  off,       \* chain_off, or NoChain between two chains
  rebases,   \* rebases_out
  binds      \* binds_out

vars == <<image, phase, cursor, locs, loc, page, off, rebases, binds>>

NoChain == -1
-----------------------------------------------------------------------------
(* Reading the image *)

(* Mutant: plain addition. *)
SatAddWide(a, b) == a + b

SatAdd(a, b) == IF a + b > MaxU THEN MaxU ELSE a + b

(* The stride match at the end of decode_segment_chains. *)
StrideOf(format) ==
  IF format \in {"Arm64e", "Arm64eUserland", "Arm64eUserland24",
                 "Arm64eSharedCache"}
  THEN LongStride ELSE ShortStride

(* Mutant: the page number is forgotten. *)
ByteOffInPage(im, r, p, o) == o

(* page_byte_off: the offset inside segment r of offset o on page p. *)
ByteOff(im, r, p, o) == p * im.records[r].pageSize + o

(* Mutant: one past the end of the segment still counts as inside. *)
ReadableAtEnd(im, r, p, o) ==
  /\ ByteOff(im, r, p, o) <= im.segs[r].filesize
  /\ im.segs[r].fileoff + ByteOff(im, r, p, o) + SlotSize <= DataLen

(* The slot at o may be decoded: it begins inside the segment's on-disk    *)
(* extent and all of it lies inside the file.                              *)
Readable(im, r, p, o) ==
  /\ ByteOff(im, r, p, o) < im.segs[r].filesize
  /\ im.segs[r].fileoff + ByteOff(im, r, p, o) + SlotSize <= DataLen

SlotAt(im, r, p, o) == im.slots[im.segs[r].fileoff + ByteOff(im, r, p, o)]

(* Mutant: the chain wraps around inside its page. *)
NextOffWrapped(im, r, p, o) ==
  (o + SlotAt(im, r, p, o).next * StrideOf(im.records[r].format))
    % im.records[r].pageSize

NextOff(im, r, p, o) ==
  o + SlotAt(im, r, p, o).next * StrideOf(im.records[r].format)

(* The page starts decode_segment_chains reads before it runs out of       *)
(* pages or of file.                                                       *)
Pages(im, r) ==
  {p \in 0 .. (im.records[r].pageCount - 1) : p < Len(im.records[r].starts)}

HasChain(im, r, p) == im.records[r].starts[p + 1] < MultiBit

(* collect_chained_segments: the lowest vmaddr of a segment with bytes on  *)
(* disk, 0 when there is none.                                             *)
ImageBase(im) ==
  LET onDisk == {i \in DOMAIN im.segs : im.segs[i].filesize > 0}
  IN  IF onDisk = {} THEN 0
      ELSE im.segs[CHOOSE i \in onDisk :
             \A j \in onDisk : im.segs[i].vmaddr <= im.segs[j].vmaddr].vmaddr

(* target_vmaddr of a rebase: a VA in Ptr64 and in a plain Arm64e slot, an *)
(* offset from the image base in every other case.                         *)
TargetOf(im, format, slot) ==
  IF format = "Ptr64" \/ (format = "Arm64e" /\ ~slot.auth)
  THEN slot.value
  ELSE SatAdd(ImageBase(im), slot.value)

(* A row, with the page and chain offset it was found at kept beside the   *)
(* fields of Rebase and Bind: segment_offset, vm_address, and in value the *)
(* target_vmaddr or the import_ordinal.                                    *)
RowAt(im, r, p, o) ==
  LET slot == SlotAt(im, r, p, o)
      at   == ByteOff(im, r, p, o)
  IN  [seg |-> r, page |-> p, off |-> o, at |-> at,
       va |-> SatAdd(im.segs[r].vmaddr, at),
       value |-> IF slot.bind THEN slot.value
                 ELSE TargetOf(im, im.records[r].format, slot)]
-----------------------------------------------------------------------------
Init ==
  /\ image \in Images
  /\ phase = "collect"
  /\ cursor = 0
  /\ locs = <<>>
  /\ loc = 1 /\ page = 0 /\ off = NoChain
  /\ rebases = <<>> /\ binds = <<>>

(* ChainedSegmentIter::next and the loop of collect_chained_segments.      *)
Entry == image.records[cursor + 1]

HasEntry == phase = "collect" /\ cursor < Len(image.records)

(* "continue" in next: no record, or too few bytes for its header. *)
SkipEntry ==
  /\ HasEntry
  /\ Entry.kind \in {"absent", "short"}
  /\ cursor' = cursor + 1
  /\ UNCHANGED <<image, phase, locs, loc, page, off, rebases, binds>>

(* A row comes out and there is a segment of that index. *)
TakeEntry ==
  /\ HasEntry
  /\ Entry.kind = "starts"
  /\ cursor + 1 \in DOMAIN image.segs
  /\ cursor' = cursor + 1
  /\ locs' = Append(locs, cursor + 1)
  /\ UNCHANGED <<image, phase, loc, page, off, rebases, binds>>

(* A row comes out for a segment the image does not have. *)
OrphanEntry ==
  /\ HasEntry
  /\ Entry.kind = "starts"
  /\ cursor + 1 \notin DOMAIN image.segs
  /\ cursor' = cursor + 1
  /\ UNCHANGED <<image, phase, locs, loc, page, off, rebases, binds>>

(* A failed read makes next return None, which ends the for loop over the  *)
(* iterator: the entries after this one are never looked at.               *)
BrokenEntry ==
  /\ HasEntry
  /\ Entry.kind = "unreadable"
  /\ cursor' = cursor + 1
  /\ phase' = "walk"
  /\ UNCHANGED <<image, locs, loc, page, off, rebases, binds>>

EndOfEntries ==
  /\ phase = "collect"
  /\ cursor = Len(image.records)
  /\ phase' = "walk"
  /\ UNCHANGED <<image, cursor, locs, loc, page, off, rebases, binds>>
-----------------------------------------------------------------------------
(* decode_segment_chains, for the segment locs[loc]. *)
Seg == locs[loc]

Walking == phase = "walk" /\ loc \in DOMAIN locs

BetweenChains ==
  /\ Walking
  /\ off = NoChain
  /\ image.records[Seg].format \in Supported

InChain == Walking /\ off # NoChain

NextSegment == loc' = loc + 1 /\ page' = 0
(* Mutant: the page counter is not incremented. *)
NextPageStuck == page' = page /\ off' = NoChain

NextPage    == page' = page + 1 /\ off' = NoChain

(* Pointer formats outside the supported set yield nothing. *)
SkipSegment ==
  /\ Walking
  /\ off = NoChain
  /\ image.records[Seg].format \notin Supported
  /\ NextSegment
  /\ UNCHANGED <<image, phase, cursor, locs, off, rebases, binds>>

(* All pages done, or the page-start table has run past the file. *)
EndSegment ==
  /\ BetweenChains
  /\ page \notin Pages(image, Seg)
  /\ NextSegment
  /\ UNCHANGED <<image, phase, cursor, locs, off, rebases, binds>>

(* PTR_START_NONE, or a page with several chains (not decoded). *)
SkipPage ==
  /\ BetweenChains
  /\ page \in Pages(image, Seg)
  /\ ~HasChain(image, Seg, page)
  /\ NextPage
  /\ UNCHANGED <<image, phase, cursor, locs, loc, rebases, binds>>

StartChain ==
  /\ BetweenChains
  /\ page \in Pages(image, Seg)
  /\ HasChain(image, Seg, page)
  /\ off' = image.records[Seg].starts[page + 1]
  /\ UNCHANGED <<image, phase, cursor, locs, loc, page, rebases, binds>>

(* Go on to the slot "next" strides further, or leave the page when next   *)
(* is 0.                                                                   *)
Advance ==
  IF SlotAt(image, Seg, page, off).next = 0
  THEN NextPage
  ELSE off' = NextOff(image, Seg, page, off) /\ page' = page

VisitRebase ==
  /\ InChain
  /\ Readable(image, Seg, page, off)
  /\ ~SlotAt(image, Seg, page, off).bind
  /\ rebases' = Append(rebases, RowAt(image, Seg, page, off))
  /\ Advance
  /\ UNCHANGED <<image, phase, cursor, locs, loc, binds>>

VisitBind ==
  /\ InChain
  /\ Readable(image, Seg, page, off)
  /\ SlotAt(image, Seg, page, off).bind
  /\ binds' = Append(binds, RowAt(image, Seg, page, off))
  /\ Advance
  /\ UNCHANGED <<image, phase, cursor, locs, loc, rebases>>

(* Mutant: the rest of the segment is given up with the chain. *)
LeaveExtentForGood ==
  /\ InChain
  /\ ~Readable(image, Seg, page, off)
  /\ NextSegment
  /\ off' = NoChain
  /\ UNCHANGED <<image, phase, cursor, locs, rebases, binds>>

(* The chain has left the segment's on-disk extent or the file. *)
LeaveExtent ==
  /\ InChain
  /\ ~Readable(image, Seg, page, off)
  /\ NextPage
  /\ UNCHANGED <<image, phase, cursor, locs, loc, rebases, binds>>

EndWalk ==
  /\ phase = "walk"
  /\ loc \notin DOMAIN locs
  /\ phase' = "done"
  /\ UNCHANGED <<image, cursor, locs, loc, page, off, rebases, binds>>

(* The call has returned. *)
Returned == phase = "done" /\ UNCHANGED vars

Collect == \/ SkipEntry \/ TakeEntry \/ OrphanEntry \/ BrokenEntry
           \/ EndOfEntries

Walk == \/ SkipSegment \/ EndSegment \/ SkipPage \/ StartChain
        \/ VisitRebase \/ VisitBind \/ LeaveExtent \/ EndWalk

Next == Collect \/ Walk \/ Returned

(* The call is sequential and never waits: it takes its next step. *)
Spec == Init /\ [][Next]_vars /\ WF_vars(Collect \/ Walk)
=============================================================================
