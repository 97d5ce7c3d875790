-------------------------- MODULE FixupChainsProofs --------------------------
(***************************************************************************)
(* Proofs about the two halves of fixup.rs.                                *)
(*                                                                         *)
(* The first part proves the safety properties of FixupProperties, for     *)
(* every set of images and every value of the sizes, and that the walk     *)
(* implements FixupSlots.                                                  *)
(*                                                                         *)
(* The second part is about BindTable, for every file, every width of the  *)
(* ordinals and every list of load commands.  Its inductive invariant says *)
(* what each of the lists holds while it is read: the imports are the      *)
(* entries up to the cursor, and a dependency is found at its rank among   *)
(* the dependencies as long as every name could be read.                   *)
(***************************************************************************)
EXTENDS FixupProperties, BindTable, FiniteSetTheorems, WellFoundedInduction, TLAPS

(* What the collection loop leaves in locs: strictly increasing indices of *)
(* page-start records that come before every unreadable entry, and all of  *)
(* those among the entries consumed.                                       *)
Clean(im, r) == \A q \in DOMAIN im.records :
                  q < r => im.records[q].kind # "unreadable"

LocsInv ==
  /\ phase = "collect" => \A q \in 1..cursor : image.records[q].kind # "unreadable"
  /\ phase # "collect" => \/ cursor = Len(image.records)
                          \/ cursor > 0 /\ image.records[cursor].kind = "unreadable"
  /\ \A i \in DOMAIN locs : /\ locs[i] <= cursor
                            /\ image.records[locs[i]].kind = "starts"
                            /\ Clean(image, locs[i])
  /\ \A i, j \in DOMAIN locs : i < j => locs[i] < locs[j]
  /\ \A r \in 1..cursor :
       r \in DOMAIN image.segs /\ image.records[r].kind = "starts"
         => \E i \in DOMAIN locs : locs[i] = r

(* Where the walk can be: at the origin while the entries are collected,   *)
(* inside a chain only on a page that has one.                             *)
PositionInv ==
  /\ phase = "collect" => /\ loc = 1 /\ page = 0 /\ off = NoChain
                          /\ rebases = <<>> /\ binds = <<>>
  /\ off # NoChain => /\ phase = "walk"
                      /\ loc \in DOMAIN locs
                      /\ image.records[locs[loc]].format \in Supported
                      /\ page \in Pages(image, locs[loc])
                      /\ HasChain(image, locs[loc], page)
  /\ phase = "done" => loc = Len(locs) + 1

(* Every row is the decoding of the slot it names, a readable one, and was *)
(* found strictly before the walk's position.                              *)
RowInv(row) ==
  /\ row = RowAt(image, row.seg, row.page, row.off)
  /\ Readable(image, row.seg, row.page, row.off)
  /\ image.records[row.seg].format \in Supported
  /\ \E i \in DOMAIN locs : /\ locs[i] = row.seg
                            /\ Before(i, row.page, row.off, loc, page, off)

RowsInv == \A row \in Rows : RowInv(row)

SafetyInv == TypeOK /\ LocsInv /\ PositionInv /\ RowsInv /\ WalkOrder
-----------------------------------------------------------------------------
(* Reading the image *)

(* Every non-empty set of natural numbers has a least element. *)
LEMMA LeastNat ==
  ASSUME NEW T \in SUBSET Nat, T # {}
  PROVE  \E x \in T : \A y \in T : x <= y
<1> DEFINE less == {ss \in Nat \X Nat : ss[1] < ss[2]}
<1>1. IsWellFoundedOn(less, Nat)
  BY NatLessThanWellFounded DEF OpToRel
<1>2. PICK x \in T : \A y \in T : ~(<<y, x>> \in less)
  <2> HIDE DEF less
  <2> QED BY <1>1, WFMin
<1>3. ASSUME NEW y \in T PROVE x <= y
  <2>1. <<y, x>> \in Nat \X Nat /\ <<y, x>>[1] = y /\ <<y, x>>[2] = x
    OBVIOUS
  <2>2. ~(y < x)
    BY <1>2, <2>1
  <2> QED BY <2>2
<1> QED BY <1>3

(* The types of an image's parts, field by field. *)
LEMMA ImageFacts ==
  ASSUME NEW im \in Image
  PROVE  /\ DOMAIN im.segs = 1 .. Len(im.segs) /\ Len(im.segs) \in Nat
         /\ DOMAIN im.records = 1 .. Len(im.records) /\ Len(im.records) \in Nat
         /\ im.slots \in [0..(DataLen - SlotSize) -> Slot]
         /\ \A r \in DOMAIN im.segs :
              /\ im.segs[r].vmaddr \in Nat /\ im.segs[r].vmaddr <= MaxU
              /\ im.segs[r].fileoff \in Nat /\ im.segs[r].filesize \in Nat
         /\ \A r \in DOMAIN im.records :
              /\ im.records[r].pageSize \in Nat /\ im.records[r].pageCount \in Nat
              /\ im.records[r].starts \in Seq(PageStart)
<1>1. im.segs \in Seq(Segment) /\ im.records \in Seq(Record)
      /\ im.slots \in [0..(DataLen - SlotSize) -> Slot]
  BY DEF Image
<1>2. \A s \in Segment : /\ s.vmaddr \in Nat /\ s.vmaddr <= MaxU
                         /\ s.fileoff \in Nat /\ s.filesize \in Nat
  BY FixupAssumption DEF Segment
<1>3. \A s \in Record : /\ s.pageSize \in Nat /\ s.pageCount \in Nat
                        /\ s.starts \in Seq(PageStart)
  BY DEF Record
<1>4. /\ \A r \in DOMAIN im.segs : im.segs[r] \in Segment
      /\ \A r \in DOMAIN im.records : im.records[r] \in Record
  BY <1>1
<1> QED BY <1>1, <1>2, <1>3, <1>4

(* Sums that saturate are still addresses. *)
LEMMA SatAddType ==
  ASSUME NEW a \in Nat, NEW b \in Nat
  PROVE  SatAdd(a, b) \in 0..MaxU
BY FixupAssumption DEF SatAdd

(* The image base is the address of a segment, or zero. *)
LEMMA ImageBaseType ==
  ASSUME NEW im \in Image
  PROVE  ImageBase(im) \in Nat
<1> DEFINE onDisk == {i \in DOMAIN im.segs : im.segs[i].filesize > 0}
           addrs  == {im.segs[i].vmaddr : i \in onDisk}
<1>1. \A i \in DOMAIN im.segs : im.segs[i].vmaddr \in Nat
  BY ImageFacts
<1>2. CASE onDisk = {}
  BY <1>2 DEF ImageBase
<1>3. CASE onDisk # {}
  <2>1. addrs \in SUBSET Nat /\ addrs # {}
    BY <1>1, <1>3
  <2>2. PICK a \in addrs : \A b \in addrs : a <= b
    BY <2>1, LeastNat
  <2>3. \E i \in onDisk : \A j \in onDisk : im.segs[i].vmaddr <= im.segs[j].vmaddr
    BY <2>2
  <2>4. ImageBase(im) = im.segs[CHOOSE i \in onDisk :
          \A j \in onDisk : im.segs[i].vmaddr <= im.segs[j].vmaddr].vmaddr
    BY <1>3 DEF ImageBase
  <2> QED BY <1>1, <2>3, <2>4
<1> QED BY <1>2, <1>3

(* What is known of a slot the walk may read on a page of segment r. *)
LEMMA ReadableSlot ==
  ASSUME NEW im \in Image, NEW r \in DOMAIN im.records \cap DOMAIN im.segs,
         NEW p \in Nat, NEW o \in Nat
  PROVE  /\ ByteOff(im, r, p, o) \in Nat
         /\ Readable(im, r, p, o) => SlotAt(im, r, p, o) \in Slot
<1>1. im.records[r].pageSize \in Nat /\ im.segs[r].fileoff \in Nat
  BY ImageFacts
<1>2. ByteOff(im, r, p, o) \in Nat
  BY <1>1 DEF ByteOff
<1>3. Readable(im, r, p, o) =>
        im.segs[r].fileoff + ByteOff(im, r, p, o) \in 0..(DataLen - SlotSize)
  BY <1>1, <1>2, FixupAssumption DEF Readable
<1> QED BY <1>2, <1>3, ImageFacts DEF SlotAt

(* The link of a slot goes up the page, strictly unless it ends the chain. *)
LEMMA LinkAscends ==
  ASSUME NEW im \in Image, NEW r \in DOMAIN im.records \cap DOMAIN im.segs,
         NEW p \in Nat, NEW o \in Nat, Readable(im, r, p, o)
  PROVE  /\ NextOff(im, r, p, o) \in Nat
         /\ SlotAt(im, r, p, o).next # 0 => NextOff(im, r, p, o) > o
<1> DEFINE next   == SlotAt(im, r, p, o).next
           stride == StrideOf(im.records[r].format)
<1>1. next \in Nat
  BY ReadableSlot DEF Slot
<1>2. stride \in Nat /\ stride > 0
  BY FixupAssumption DEF StrideOf
<1>3. next * stride \in Nat /\ (next # 0 => next * stride > 0)
  BY <1>1, <1>2
<1> QED BY <1>3 DEF NextOff

(* A decoded row has the fields of Rebase and Bind. *)
LEMMA RowType ==
  ASSUME NEW im \in Image, NEW r \in DOMAIN im.records \cap DOMAIN im.segs,
         NEW p \in Nat, NEW o \in Nat, Readable(im, r, p, o)
  PROVE  /\ RowAt(im, r, p, o) \in Row
         /\ RowAt(im, r, p, o).seg = r
         /\ RowAt(im, r, p, o).page = p
         /\ RowAt(im, r, p, o).off = o
         /\ RowAt(im, r, p, o).at = ByteOff(im, r, p, o)
         /\ RowAt(im, r, p, o).va = SatAdd(im.segs[r].vmaddr, ByteOff(im, r, p, o))
<1> DEFINE slot == SlotAt(im, r, p, o)
           at   == ByteOff(im, r, p, o)
<1>1. slot.value \in Nat /\ slot.bind \in BOOLEAN /\ at \in Nat
  BY ReadableSlot DEF Slot
<1>2. im.segs[r].vmaddr \in Nat /\ r \in Nat
  BY ImageFacts
<1>3. SatAdd(im.segs[r].vmaddr, at) \in 0..MaxU
  BY <1>1, <1>2, SatAddType
<1>4. TargetOf(im, im.records[r].format, slot) \in Nat
  <2>1. SatAdd(ImageBase(im), slot.value) \in 0..MaxU
    <3> HIDE DEF slot
    <3> QED BY <1>1, ImageBaseType, SatAddType
  <2> QED BY <1>1, <2>1, FixupAssumption DEF TargetOf
<1> QED BY <1>1, <1>2, <1>3, <1>4 DEF RowAt, Row
-----------------------------------------------------------------------------
(* Type correctness *)

(* The segment being walked is one of the image. *)
LEMMA SegType ==
  ASSUME TypeOK, loc \in DOMAIN locs
  PROVE  Seg \in DOMAIN image.records \cap DOMAIN image.segs
BY DEF TypeOK, Seg

(* Visiting a slot keeps the position a page and a chain offset. *)
LEMMA AdvanceType ==
  ASSUME TypeOK, InChain, Readable(image, Seg, page, off), Advance
  PROVE  page' \in Nat /\ off' \in Nat \cup {NoChain}
<1>1. page \in Nat /\ off \in Nat /\ image \in Image
  BY DEF TypeOK, InChain
<1>2. Seg \in DOMAIN image.records \cap DOMAIN image.segs
  BY SegType DEF InChain, Walking
<1>3. NextOff(image, Seg, page, off) \in Nat
  BY <1>1, <1>2, LinkAscends
<1> QED BY <1>1, <1>3 DEF Advance, NextPage

(* Every step keeps the types. *)
LEMMA TypeStep == TypeOK /\ [Next]_vars => TypeOK'
<1> SUFFICES ASSUME TypeOK, [Next]_vars PROVE TypeOK'
  OBVIOUS
<1> USE DEF TypeOK
<1>a. image \in Image /\ Len(image.records) \in Nat /\ cursor \in Nat
  BY ImageFacts
<1>1. CASE SkipEntry
  BY <1>a, <1>1 DEF SkipEntry, HasEntry
<1>2. CASE TakeEntry
  <2>1. cursor + 1 \in DOMAIN image.records \cap DOMAIN image.segs
    BY <1>a, <1>2, ImageFacts DEF TakeEntry, HasEntry
  <2>2. locs' \in Seq(DOMAIN image.records \cap DOMAIN image.segs)
        /\ Len(locs') = Len(locs) + 1
    BY <1>2, <2>1 DEF TakeEntry
  <2> QED BY <1>a, <1>2, <2>2 DEF TakeEntry, HasEntry
<1>3. CASE OrphanEntry
  BY <1>a, <1>3 DEF OrphanEntry, HasEntry
<1>4. CASE BrokenEntry
  BY <1>a, <1>4 DEF BrokenEntry, HasEntry
<1>5. CASE EndOfEntries
  BY <1>5 DEF EndOfEntries
<1>6. CASE SkipSegment
  BY <1>6 DEF SkipSegment, NextSegment, Walking
<1>7. CASE EndSegment
  BY <1>7 DEF EndSegment, NextSegment, BetweenChains, Walking
<1>8. CASE SkipPage
  BY <1>8 DEF SkipPage, NextPage
<1>9. CASE StartChain
  <2>1. Seg \in DOMAIN image.records
    BY <1>9, SegType DEF StartChain, BetweenChains, Walking
  <2>2. image.records[Seg].starts \in Seq(PageStart)
    BY <1>a, <2>1, ImageFacts
  <2>3. page + 1 \in DOMAIN image.records[Seg].starts
    <3>1. page \in Pages(image, Seg)
      BY <1>9 DEF StartChain
    <3>2. page \in Nat /\ page < Len(image.records[Seg].starts)
      BY <3>1 DEF Pages
    <3> QED BY <2>2, <3>2
  <2>4. off' \in PageStart
    <3>1. off' = image.records[Seg].starts[page + 1]
      BY <1>9 DEF StartChain
    <3> QED BY <2>2, <2>3, <3>1
  <2> QED BY <1>9, <2>4, FixupAssumption DEF StartChain, PageStart
<1>10. CASE VisitRebase
  <2>1. page \in Nat /\ off \in Nat
        /\ Seg \in DOMAIN image.records \cap DOMAIN image.segs
    BY <1>10, SegType DEF VisitRebase, InChain, Walking
  <2>2. RowAt(image, Seg, page, off) \in Row
    BY <1>a, <1>10, <2>1, RowType DEF VisitRebase
  <2>3. page' \in Nat /\ off' \in Nat \cup {NoChain}
    BY <1>10, AdvanceType DEF VisitRebase
  <2> QED BY <1>10, <2>2, <2>3 DEF VisitRebase
<1>11. CASE VisitBind
  <2>1. page \in Nat /\ off \in Nat
        /\ Seg \in DOMAIN image.records \cap DOMAIN image.segs
    BY <1>11, SegType DEF VisitBind, InChain, Walking
  <2>2. RowAt(image, Seg, page, off) \in Row
    BY <1>a, <1>11, <2>1, RowType DEF VisitBind
  <2>3. page' \in Nat /\ off' \in Nat \cup {NoChain}
    BY <1>11, AdvanceType DEF VisitBind
  <2> QED BY <1>11, <2>2, <2>3 DEF VisitBind
<1>12. CASE LeaveExtent
  BY <1>12 DEF LeaveExtent, NextPage
<1>13. CASE EndWalk
  BY <1>13 DEF EndWalk
<1>14. CASE UNCHANGED vars
  BY <1>14 DEF vars
<1> QED
  BY <1>1, <1>2, <1>3, <1>4, <1>5, <1>6, <1>7, <1>8, <1>9, <1>10, <1>11,
     <1>12, <1>13, <1>14 DEF Next, Collect, Walk, Returned

(* The walk starts well typed. *)
LEMMA TypeInit == Init => TypeOK
<1> SUFFICES ASSUME Init PROVE TypeOK
  OBVIOUS
<1>1. image \in Image /\ Len(image.records) \in Nat
  BY FixupAssumption, ImageFacts DEF Init
<1> QED BY <1>1 DEF Init, TypeOK

(* Type correctness of the walk: whatever the file holds, cursor, segment, *)
(* page and chain offset stay in their ranges and rows hold u64 addresses. *)
THEOREM TypeCorrect == Spec => []TypeOK
BY TypeInit, TypeStep, PTL DEF Spec
-----------------------------------------------------------------------------
(* The order of the walk *)

(* Each step of decode_segment_chains but the last takes the walk strictly *)
(* forward: to the next segment, the next page or up the chain.            *)
LEMMA WalkMovesForward ==
  ASSUME TypeOK, Walk
  PROVE  EndWalk \/ Before(loc, page, off, loc', page', off')
<1>a. loc \in Nat /\ page \in Nat /\ off \in Nat \cup {NoChain} /\ NoChain = -1
  BY DEF TypeOK, NoChain
<1>1. CASE SkipSegment
  BY <1>a, <1>1 DEF SkipSegment, NextSegment, Before
<1>2. CASE EndSegment
  BY <1>a, <1>2 DEF EndSegment, NextSegment, Before
<1>3. CASE SkipPage
  BY <1>a, <1>3 DEF SkipPage, NextPage, Before
<1>4. CASE StartChain
  <2>1. off = NoChain /\ loc' = loc /\ page' = page
    BY <1>4 DEF StartChain, BetweenChains
  <2>2. Seg \in DOMAIN image.records /\ image \in Image
    BY <1>4, SegType DEF StartChain, BetweenChains, Walking, TypeOK
  <2>3. image.records[Seg].starts \in Seq(PageStart)
    BY <2>2, ImageFacts
  <2>4. page + 1 \in DOMAIN image.records[Seg].starts
    BY <1>a, <1>4, <2>3 DEF StartChain, Pages
  <2>5. off' \in Nat
    BY <1>4, <2>3, <2>4, FixupAssumption DEF StartChain, PageStart
  <2> QED BY <1>a, <2>1, <2>5 DEF Before
<1>5. CASE VisitRebase \/ VisitBind
  <2>1. /\ InChain /\ Readable(image, Seg, page, off) /\ Advance
        /\ loc' = loc /\ off \in Nat /\ image \in Image
    BY <1>5 DEF VisitRebase, VisitBind, InChain, TypeOK
  <2>2. Seg \in DOMAIN image.records \cap DOMAIN image.segs
    BY <2>1, SegType DEF InChain, Walking
  <2>3. CASE SlotAt(image, Seg, page, off).next = 0
    BY <1>a, <2>1, <2>3 DEF Advance, NextPage, Before
  <2>4. CASE SlotAt(image, Seg, page, off).next # 0
    <3>1. NextOff(image, Seg, page, off) \in Nat
          /\ NextOff(image, Seg, page, off) > off
      BY <1>a, <2>1, <2>2, <2>4, LinkAscends
    <3> QED BY <1>a, <2>1, <2>4, <3>1 DEF Advance, Before
  <2> QED BY <2>3, <2>4
<1>6. CASE LeaveExtent
  BY <1>a, <1>6 DEF LeaveExtent, NextPage, Before
<1> QED BY <1>1, <1>2, <1>3, <1>4, <1>5, <1>6 DEF Walk

(* Forward as a theorem of the specification: no loop of the walk can come *)
(* back to where it was, whatever the "next" fields say.                   *)
THEOREM WalkForward == Spec => Forward
<1>1. TypeOK /\ [Next]_vars =>
        [phase = "walk" /\ phase' = "walk" =>
           Before(loc, page, off, loc', page', off')]_vars
  <2> SUFFICES ASSUME TypeOK, Next, ~UNCHANGED vars,
                      phase = "walk", phase' = "walk"
               PROVE  Before(loc, page, off, loc', page', off')
    BY DEF vars
  <2>1. ~Collect
    BY DEF Collect, SkipEntry, TakeEntry, OrphanEntry, BrokenEntry,
           EndOfEntries, HasEntry
  <2>2. ~EndWalk /\ ~Returned
    BY DEF EndWalk, Returned
  <2>3. Walk
    BY <2>1, <2>2 DEF Next
  <2> QED BY <2>2, <2>3, WalkMovesForward
<1> QED BY <1>1, TypeCorrect, PTL DEF Spec, Forward
-----------------------------------------------------------------------------
(* The safety invariant, conjunct by conjunct *)

LEMMA SafetyInit == Init => SafetyInv
<1> SUFFICES ASSUME Init PROVE SafetyInv
  OBVIOUS
<1>1. TypeOK
  BY TypeInit
<1>2. Rows = {}
  BY DEF Init, Rows, Elems
<1>3. Len(image.records) \in Nat
  BY <1>1, ImageFacts DEF TypeOK
<1> QED
  BY <1>1, <1>2, <1>3
     DEF Init, SafetyInv, LocsInv, PositionInv, RowsInv, WalkOrder, InOrder,
         Elems, Slots

(* Steps of the walk do not touch what was collected. *)
LEMMA WalkKeepsLocs ==
  ASSUME LocsInv, Walk
  PROVE  LocsInv' /\ image' = image /\ locs' = locs
<1>1. phase # "collect" /\ phase' # "collect"
  BY DEF Walk, SkipSegment, EndSegment, SkipPage, StartChain, VisitRebase,
         VisitBind, LeaveExtent, EndWalk, BetweenChains, InChain, Walking
<1>2. UNCHANGED <<image, cursor, locs>>
  BY DEF Walk, SkipSegment, EndSegment, SkipPage, StartChain, VisitRebase,
         VisitBind, LeaveExtent, EndWalk
<1> QED BY <1>1, <1>2 DEF LocsInv, Clean

LEMMA LocsStep ==
  ASSUME TypeOK, LocsInv, [Next]_vars
  PROVE  LocsInv'
<1>a. /\ image \in Image /\ cursor \in Nat /\ Len(image.records) \in Nat
      /\ DOMAIN image.records = 1..Len(image.records)
      /\ cursor <= Len(image.records)
      /\ locs \in Seq(DOMAIN image.records \cap DOMAIN image.segs)
  BY ImageFacts DEF TypeOK
<1>b. \A q \in 1..(cursor + 1) : q \in 1..cursor \/ q = cursor + 1
  BY <1>a
<1>c. \A i \in DOMAIN locs : locs[i] \in Nat
  BY <1>a
<1> USE <1>a DEF LocsInv, Clean
<1>1. CASE SkipEntry
  <2>1. /\ phase = "collect" /\ phase' = "collect" /\ cursor' = cursor + 1
        /\ image' = image /\ locs' = locs
        /\ image.records[cursor + 1].kind \in {"absent", "short"}
    BY <1>1 DEF SkipEntry, HasEntry, Entry
  <2>2. phase' = "collect" /\ \A q \in 1..cursor' : image'.records[q].kind # "unreadable"
    BY <1>b, <2>1
  <2>3. \A i \in DOMAIN locs' : /\ locs'[i] <= cursor'
                                /\ image'.records[locs'[i]].kind = "starts"
                                /\ Clean(image', locs'[i])
    BY <1>c, <2>1
  <2>4. \A i, j \in DOMAIN locs' : i < j => locs'[i] < locs'[j]
    BY <2>1
  <2>5. \A r \in 1..cursor' :
          r \in DOMAIN image'.segs /\ image'.records[r].kind = "starts"
            => \E i \in DOMAIN locs' : locs'[i] = r
    BY <1>b, <2>1
  <2> QED BY <2>2, <2>3, <2>4, <2>5
<1>2. CASE TakeEntry
  <2>1. /\ phase = "collect" /\ phase' = "collect" /\ cursor' = cursor + 1
        /\ image' = image /\ locs' = Append(locs, cursor + 1)
        /\ image.records[cursor + 1].kind = "starts"
    BY <1>2 DEF TakeEntry, HasEntry, Entry
  <2>2. /\ DOMAIN locs = 1..Len(locs) /\ Len(locs) \in Nat
        /\ DOMAIN locs' = 1..(Len(locs) + 1)
        /\ \A i \in DOMAIN locs : locs'[i] = locs[i]
        /\ locs'[Len(locs) + 1] = cursor + 1
    BY <2>1
  <2>3. \A i \in DOMAIN locs' : i \in DOMAIN locs \/ i = Len(locs) + 1
    BY <2>2
  <2>4. \A q \in 1..cursor' : image'.records[q].kind # "unreadable"
    BY <2>1
  <2>5. \A i \in DOMAIN locs' : /\ locs'[i] <= cursor'
                                /\ image'.records[locs'[i]].kind = "starts"
                                /\ Clean(image', locs'[i])
    <3> SUFFICES ASSUME NEW i \in DOMAIN locs'
                 PROVE  /\ locs'[i] <= cursor'
                        /\ image'.records[locs'[i]].kind = "starts"
                        /\ Clean(image', locs'[i])
      OBVIOUS
    <3>1. CASE i \in DOMAIN locs
      <4>1. locs'[i] = locs[i] /\ locs[i] \in Nat
        BY <2>2, <3>1
      <4> QED BY <2>1, <3>1, <4>1
    <3>2. CASE i = Len(locs) + 1
      <4>1. locs'[i] = cursor + 1
        BY <2>2, <3>2
      <4> QED BY <2>1, <4>1
    <3> QED BY <2>3, <3>1, <3>2
  <2>6. \A i, j \in DOMAIN locs' : i < j => locs'[i] < locs'[j]
    <3> SUFFICES ASSUME NEW i \in DOMAIN locs', NEW j \in DOMAIN locs', i < j
                 PROVE  locs'[i] < locs'[j]
      OBVIOUS
    <3>1. i \in DOMAIN locs /\ locs'[i] = locs[i] /\ locs[i] <= cursor /\ locs[i] \in Nat
      BY <2>2, <2>3
    <3>2. CASE j \in DOMAIN locs
      BY <2>2, <3>1, <3>2
    <3>3. CASE j = Len(locs) + 1
      BY <2>2, <3>1, <3>3
    <3> QED BY <2>3, <3>2, <3>3
  <2>7. \A r \in 1..cursor' :
          r \in DOMAIN image'.segs /\ image'.records[r].kind = "starts"
            => \E i \in DOMAIN locs' : locs'[i] = r
    <3> SUFFICES ASSUME NEW r \in 1..(cursor + 1),
                        r \in DOMAIN image.segs, image.records[r].kind = "starts"
                 PROVE  \E i \in DOMAIN locs' : locs'[i] = r
      BY <2>1
    <3>1. CASE r \in 1..cursor
      <4>1. PICK i \in DOMAIN locs : locs[i] = r
        BY <2>1, <3>1
      <4> QED BY <2>2, <4>1
    <3>2. CASE r = cursor + 1
      BY <2>2, <3>2
    <3> QED BY <3>1, <3>2
  <2> QED BY <2>1, <2>4, <2>5, <2>6, <2>7
<1>3. CASE OrphanEntry
  <2>1. /\ phase = "collect" /\ phase' = "collect" /\ cursor' = cursor + 1
        /\ image' = image /\ locs' = locs
        /\ image.records[cursor + 1].kind = "starts"
        /\ cursor + 1 \notin DOMAIN image.segs
    BY <1>3 DEF OrphanEntry, HasEntry, Entry
  <2>2. phase' = "collect" /\ \A q \in 1..cursor' : image'.records[q].kind # "unreadable"
    BY <1>b, <2>1
  <2>3. \A i \in DOMAIN locs' : /\ locs'[i] <= cursor'
                                /\ image'.records[locs'[i]].kind = "starts"
                                /\ Clean(image', locs'[i])
    BY <1>c, <2>1
  <2>4. \A i, j \in DOMAIN locs' : i < j => locs'[i] < locs'[j]
    BY <2>1
  <2>5. \A r \in 1..cursor' :
          r \in DOMAIN image'.segs /\ image'.records[r].kind = "starts"
            => \E i \in DOMAIN locs' : locs'[i] = r
    BY <1>b, <2>1
  <2> QED BY <2>2, <2>3, <2>4, <2>5
<1>4. CASE BrokenEntry
  <2>1. /\ phase = "collect" /\ phase' = "walk" /\ cursor' = cursor + 1
        /\ image' = image /\ locs' = locs
        /\ image.records[cursor + 1].kind = "unreadable"
    BY <1>4 DEF BrokenEntry, HasEntry, Entry
  <2>2. \A i \in DOMAIN locs' : /\ locs'[i] <= cursor'
                                /\ image'.records[locs'[i]].kind = "starts"
                                /\ Clean(image', locs'[i])
    BY <1>c, <2>1
  <2>3. \A i, j \in DOMAIN locs' : i < j => locs'[i] < locs'[j]
    BY <2>1
  <2>4. \A r \in 1..cursor' :
          r \in DOMAIN image'.segs /\ image'.records[r].kind = "starts"
            => \E i \in DOMAIN locs' : locs'[i] = r
    BY <1>b, <2>1
  <2> QED BY <2>1, <2>2, <2>3, <2>4
<1>5. CASE EndOfEntries
  BY <1>5 DEF EndOfEntries
<1>6. CASE Walk
  BY <1>6, WalkKeepsLocs
<1>7. CASE Returned \/ UNCHANGED vars
  BY <1>7 DEF Returned, vars
<1> QED BY <1>1, <1>2, <1>3, <1>4, <1>5, <1>6, <1>7 DEF Next, Collect

LEMMA PositionStep ==
  ASSUME TypeOK, PositionInv, [Next]_vars
  PROVE  PositionInv'
<1> USE DEF PositionInv
<1>1. CASE Collect
  BY <1>1 DEF Collect, SkipEntry, TakeEntry, OrphanEntry, BrokenEntry,
              EndOfEntries, HasEntry, NoChain
<1>2. CASE SkipSegment \/ EndSegment
  BY <1>2 DEF SkipSegment, EndSegment, BetweenChains, Walking
<1>3. CASE SkipPage \/ LeaveExtent
  BY <1>3 DEF SkipPage, LeaveExtent, NextPage, BetweenChains, InChain, Walking
<1>4. CASE StartChain
  BY <1>4 DEF StartChain, BetweenChains, Walking, Seg
<1>5. CASE VisitRebase \/ VisitBind
  BY <1>5 DEF VisitRebase, VisitBind, InChain, Walking, Advance, NextPage
<1>6. CASE EndWalk
  <2>1. loc = Len(locs) + 1
    BY <1>6 DEF EndWalk, TypeOK
  <2> QED BY <1>6, <2>1 DEF EndWalk
<1>7. CASE Returned \/ UNCHANGED vars
  BY <1>7 DEF Returned, vars
<1> QED BY <1>1, <1>2, <1>3, <1>4, <1>5, <1>6, <1>7 DEF Next, Walk
(* Every row found so far has the types of Row. *)
LEMMA RowsTyped == TypeOK => Rows \subseteq Row
BY DEF TypeOK, Rows, Elems

(* The elements of a list after one is appended. *)
LEMMA ElemsAppend ==
  ASSUME NEW list \in Seq(Row), NEW row
  PROVE  Elems(Append(list, row)) = Elems(list) \cup {row}
<1>1. /\ DOMAIN Append(list, row) = DOMAIN list \cup {Len(list) + 1}
      /\ \A i \in DOMAIN list : Append(list, row)[i] = list[i]
      /\ Append(list, row)[Len(list) + 1] = row
  OBVIOUS
<1> QED BY <1>1 DEF Elems

(* The rows after one is appended to either list. *)
LEMMA RowsAppend ==
  ASSUME TypeOK, NEW row,
         \/ rebases' = Append(rebases, row) /\ binds' = binds
         \/ binds' = Append(binds, row) /\ rebases' = rebases
  PROVE  Rows' = Rows \cup {row}
<1>1. Rows' = Elems(rebases') \cup Elems(binds')
  BY DEF Rows, Elems
<1>2. rebases \in Seq(Row) /\ binds \in Seq(Row)
  BY DEF TypeOK
<1>3. CASE rebases' = Append(rebases, row) /\ binds' = binds
  <2>1. Elems(rebases') = Elems(rebases) \cup {row}
    BY <1>2, <1>3, ElemsAppend
  <2> QED BY <1>1, <1>3, <2>1 DEF Rows
<1>4. CASE binds' = Append(binds, row) /\ rebases' = rebases
  <2>1. Elems(binds') = Elems(binds) \cup {row}
    BY <1>2, <1>4, ElemsAppend
  <2> QED BY <1>1, <1>4, <2>1 DEF Rows
<1> QED BY <1>3, <1>4

(* Rows stay behind the walk when it moves on. *)
LEMMA RowsStayBehind ==
  ASSUME TypeOK, TypeOK', RowsInv, image' = image, locs' = locs,
         Before(loc, page, off, loc', page', off'), NEW row \in Rows
  PROVE  RowInv(row)'
<1>1. RowInv(row)
  BY DEF RowsInv
<1>2. PICK i \in DOMAIN locs :
        locs[i] = row.seg /\ Before(i, row.page, row.off, loc, page, off)
  BY <1>1 DEF RowInv
<1>3. row.page \in Nat /\ row.off \in Nat /\ i \in Nat
  <2>1. row \in Row /\ locs \in Seq(DOMAIN image.records \cap DOMAIN image.segs)
    BY RowsTyped DEF TypeOK
  <2> QED BY <2>1 DEF Row
<1>4. /\ loc \in Int /\ page \in Int /\ off \in Int
      /\ loc' \in Int /\ page' \in Int /\ off' \in Int
  BY DEF TypeOK, NoChain
<1>5. Before(i, row.page, row.off, loc', page', off')
  BY <1>2, <1>3, <1>4 DEF Before
<1> QED BY <1>1, <1>2, <1>5 DEF RowInv

(* What VisitRebase and VisitBind append. *)
LEMMA VisitedRow ==
  ASSUME TypeOK, PositionInv, InChain, Readable(image, Seg, page, off)
  PROVE  LET row == RowAt(image, Seg, page, off)
         IN  /\ row \in Row
             /\ row.seg = Seg /\ row.page = page /\ row.off = off
             /\ page \in Nat /\ off \in Nat /\ loc \in DOMAIN locs
             /\ Seg \in DOMAIN image.records \cap DOMAIN image.segs
             /\ image.records[Seg].format \in Supported
<1>1. page \in Nat /\ off \in Nat /\ image \in Image /\ loc \in DOMAIN locs
  BY DEF TypeOK, InChain, Walking
<1>2. Seg \in DOMAIN image.records \cap DOMAIN image.segs
  BY <1>1, SegType
<1>3. image.records[Seg].format \in Supported
  BY DEF PositionInv, InChain, Seg
<1> QED BY <1>1, <1>2, <1>3, RowType

LEMMA RowsStep ==
  ASSUME TypeOK, TypeOK', PositionInv, RowsInv, [Next]_vars
  PROVE  RowsInv'
<1>1. CASE Collect
  <2>1. rebases' = <<>> /\ binds' = <<>>
    BY <1>1 DEF PositionInv, Collect, SkipEntry, TakeEntry, OrphanEntry,
                BrokenEntry, EndOfEntries, HasEntry
  <2> QED BY <2>1 DEF RowsInv, Rows, Elems
<1>2. CASE SkipSegment \/ EndSegment \/ SkipPage \/ StartChain \/ LeaveExtent
  <2>1. /\ image' = image /\ locs' = locs /\ Rows' = Rows
        /\ phase' = "walk"
    BY <1>2 DEF SkipSegment, EndSegment, SkipPage, StartChain, LeaveExtent,
                BetweenChains, InChain, Walking, Rows, Elems
  <2>2. Before(loc, page, off, loc', page', off')
    BY <1>2, <2>1, WalkMovesForward DEF Walk, EndWalk
  <2> QED BY <2>1, <2>2, RowsStayBehind DEF RowsInv
<1>3. CASE VisitRebase \/ VisitBind
  <2>0. PICK new : new = RowAt(image, Seg, page, off)
    OBVIOUS
  <2>1. /\ InChain /\ Readable(image, Seg, page, off)
        /\ image' = image /\ locs' = locs /\ phase' = "walk"
    BY <1>3 DEF VisitRebase, VisitBind, InChain, Walking
  <2>2. Rows' = Rows \cup {new}
    <3>1. \/ rebases' = Append(rebases, new) /\ binds' = binds
          \/ binds' = Append(binds, new) /\ rebases' = rebases
      BY <1>3, <2>0 DEF VisitRebase, VisitBind
    <3> QED BY <3>1, RowsAppend
  <2>3. Before(loc, page, off, loc', page', off')
    BY <1>3, <2>1, WalkMovesForward DEF Walk, EndWalk
  <2>4. RowInv(new)'
    <3>1. /\ new.seg = Seg /\ new.page = page /\ new.off = off
          /\ loc \in DOMAIN locs /\ locs[loc] = Seg
          /\ image.records[Seg].format \in Supported
      BY <2>0, <2>1, VisitedRow DEF Seg
    <3>2. \E i \in DOMAIN locs' :
             locs'[i] = new.seg /\ Before(i, new.page, new.off, loc', page', off')
      BY <2>1, <2>3, <3>1
    <3> QED BY <2>0, <2>1, <3>1, <3>2 DEF RowInv
  <2>5. \A row \in Rows : RowInv(row)'
    BY <2>1, <2>3, RowsStayBehind
  <2> QED BY <2>2, <2>4, <2>5 DEF RowsInv
<1>4. CASE EndWalk \/ Returned \/ UNCHANGED vars
  <2>1. UNCHANGED <<image, locs, loc, page, off, rebases, binds>>
    BY <1>4 DEF EndWalk, Returned, vars
  <2> QED BY <2>1 DEF RowsInv, RowInv, Rows, Elems
<1> QED BY <1>1, <1>2, <1>3, <1>4 DEF Next, Walk

(* A slot about to be visited comes after every row in walk order. *)
LEMMA NewRowIsLast ==
  ASSUME TypeOK, LocsInv, PositionInv, RowsInv, InChain,
         Readable(image, Seg, page, off), NEW row \in Rows
  PROVE  /\ RowBefore(row, RowAt(image, Seg, page, off))
         /\ <<row.seg, row.page, row.off>> # <<Seg, page, off>>
<1>1. PICK i \in DOMAIN locs :
        locs[i] = row.seg /\ Before(i, row.page, row.off, loc, page, off)
  BY DEF RowsInv, RowInv
<1>2. /\ loc \in DOMAIN locs /\ page \in Nat /\ off \in Nat
      /\ RowAt(image, Seg, page, off).seg = Seg
      /\ RowAt(image, Seg, page, off).page = page
      /\ RowAt(image, Seg, page, off).off = off
  BY VisitedRow
<1>3. row.seg \in Nat /\ row.page \in Nat /\ row.off \in Nat
  BY RowsTyped DEF Row
<1>4. locs[loc] \in Nat /\ i \in Nat /\ loc \in Nat
  <2>1. DOMAIN image.records = 1..Len(image.records) /\ Len(image.records) \in Nat
    BY ImageFacts DEF TypeOK
  <2>2. locs \in Seq(DOMAIN image.records \cap DOMAIN image.segs)
    BY DEF TypeOK
  <2> QED BY <1>2, <2>1, <2>2
<1>5. i < loc => locs[i] < locs[loc]
  BY <1>2 DEF LocsInv
<1>6. Before(row.seg, row.page, row.off, Seg, page, off)
  BY <1>1, <1>2, <1>3, <1>4, <1>5 DEF Before, Seg
<1> QED BY <1>2, <1>3, <1>4, <1>6 DEF RowBefore, Before, Seg

(* Appending a row that comes after all others keeps a list in order. *)
LEMMA AppendInOrder ==
  ASSUME NEW list \in Seq(Row), NEW row, InOrder(list),
         \A other \in Elems(list) : RowBefore(other, row)
  PROVE  InOrder(Append(list, row))
<1> DEFINE ext == Append(list, row)
<1>1. /\ DOMAIN ext = DOMAIN list \cup {Len(list) + 1}
      /\ DOMAIN list = 1..Len(list) /\ Len(list) \in Nat
      /\ \A i \in DOMAIN list : ext[i] = list[i]
      /\ ext[Len(list) + 1] = row
  OBVIOUS
<1> HIDE DEF ext
<1> SUFFICES ASSUME NEW i \in DOMAIN ext, NEW j \in DOMAIN ext, i < j
             PROVE  RowBefore(ext[i], ext[j])
  BY DEF InOrder, ext
<1>2. i \in DOMAIN list /\ ext[i] = list[i]
  BY <1>1
<1>3. CASE j \in DOMAIN list
  BY <1>1, <1>2, <1>3 DEF InOrder
<1>4. CASE j = Len(list) + 1
  BY <1>1, <1>2, <1>4 DEF Elems
<1> QED BY <1>1, <1>3, <1>4

LEMMA WalkOrderStep ==
  ASSUME TypeOK, LocsInv, PositionInv, RowsInv, WalkOrder, [Next]_vars
  PROVE  WalkOrder'
<1>0. rebases \in Seq(Row) /\ binds \in Seq(Row)
  BY DEF TypeOK
<1>n. PICK new : new = RowAt(image, Seg, page, off)
  OBVIOUS
<1>1. ASSUME InChain, Readable(image, Seg, page, off)
      PROVE  /\ \A row \in Elems(rebases) : RowBefore(row, new)
             /\ \A row \in Elems(binds) : RowBefore(row, new)
             /\ <<new.seg, new.page, new.off>> \notin Slots(Elems(rebases))
             /\ <<new.seg, new.page, new.off>> \notin Slots(Elems(binds))
  <2>1. new.seg = Seg /\ new.page = page /\ new.off = off
    BY <1>1, <1>n, VisitedRow
  <2>2. \A row \in Rows : /\ RowBefore(row, new)
                          /\ <<row.seg, row.page, row.off>> # <<Seg, page, off>>
    BY <1>1, <1>n, NewRowIsLast
  <2> QED BY <2>1, <2>2 DEF Slots, Rows
<1>2. \A list : Slots(list \cup {new}) = Slots(list) \cup {<<new.seg, new.page, new.off>>}
  BY DEF Slots
<1>p. WalkOrder' = /\ InOrder(rebases') /\ InOrder(binds')
                   /\ Slots(Elems(rebases')) \cap Slots(Elems(binds')) = {}
  BY DEF WalkOrder, InOrder, Elems, Slots
<1>3. CASE VisitRebase
  <2>1. rebases' = Append(rebases, new) /\ binds' = binds
    BY <1>3, <1>n DEF VisitRebase
  <2>2. InOrder(rebases')
    BY <1>0, <1>1, <1>3, <2>1, AppendInOrder DEF WalkOrder, VisitRebase
  <2>3. Slots(Elems(rebases')) \cap Slots(Elems(binds)) = {}
    <3>1. Elems(rebases') = Elems(rebases) \cup {new}
      BY <1>0, <2>1, ElemsAppend
    <3>2. Slots(Elems(rebases')) = Slots(Elems(rebases)) \cup {<<new.seg, new.page, new.off>>}
      BY <1>2, <3>1
    <3>3. <<new.seg, new.page, new.off>> \notin Slots(Elems(binds))
      BY <1>1, <1>3 DEF VisitRebase
    <3>4. Slots(Elems(rebases)) \cap Slots(Elems(binds)) = {}
      BY DEF WalkOrder
    <3> QED BY <3>2, <3>3, <3>4
  <2> QED BY <1>p, <2>1, <2>2, <2>3 DEF WalkOrder
<1>4. CASE VisitBind
  <2>1. binds' = Append(binds, new) /\ rebases' = rebases
    BY <1>4, <1>n DEF VisitBind
  <2>2. InOrder(binds')
    BY <1>0, <1>1, <1>4, <2>1, AppendInOrder DEF WalkOrder, VisitBind
  <2>3. Slots(Elems(rebases)) \cap Slots(Elems(binds')) = {}
    <3>1. Elems(binds') = Elems(binds) \cup {new}
      BY <1>0, <2>1, ElemsAppend
    <3>2. Slots(Elems(binds')) = Slots(Elems(binds)) \cup {<<new.seg, new.page, new.off>>}
      BY <1>2, <3>1
    <3>3. <<new.seg, new.page, new.off>> \notin Slots(Elems(rebases))
      BY <1>1, <1>4 DEF VisitBind
    <3>4. Slots(Elems(rebases)) \cap Slots(Elems(binds)) = {}
      BY DEF WalkOrder
    <3> QED BY <3>2, <3>3, <3>4
  <2> QED BY <1>p, <2>1, <2>2, <2>3 DEF WalkOrder
<1>5. CASE ~VisitRebase /\ ~VisitBind
  <2>1. UNCHANGED <<rebases, binds>>
    BY <1>5 DEF Next, Collect, Walk, SkipEntry, TakeEntry, OrphanEntry,
                BrokenEntry, EndOfEntries, SkipSegment, EndSegment, SkipPage,
                StartChain, LeaveExtent, EndWalk, Returned, vars
  <2> QED BY <1>p, <2>1 DEF WalkOrder
<1> QED BY <1>3, <1>4, <1>5

(* The safety invariant holds of every reachable state. *)
THEOREM SafetyCorrect == Spec => []SafetyInv
<1>1. SafetyInv /\ [Next]_vars => SafetyInv'
  BY TypeStep, LocsStep, PositionStep, RowsStep, WalkOrderStep DEF SafetyInv
<1> QED BY SafetyInit, <1>1, PTL DEF Spec
-----------------------------------------------------------------------------
(* The properties *)

(* What the invariant says of a row, spelt out. *)
LEMMA RowMeaning ==
  ASSUME SafetyInv, NEW row \in Rows
  PROVE  /\ row.seg \in DOMAIN image.records \cap DOMAIN image.segs
         /\ image.records[row.seg].kind = "starts"
         /\ image.records[row.seg].format \in Supported
         /\ row.page \in Nat /\ row.off \in Nat
         /\ row = RowAt(image, row.seg, row.page, row.off)
         /\ row.at = ByteOff(image, row.seg, row.page, row.off)
         /\ row.at \in Nat
         /\ row.va = SatAdd(image.segs[row.seg].vmaddr, row.at)
         /\ row.at < image.segs[row.seg].filesize
         /\ image.segs[row.seg].fileoff + row.at + SlotSize <= DataLen
<1> USE DEF SafetyInv
<1>1. RowInv(row) /\ image \in Image /\ row \in Row
  BY RowsTyped DEF RowsInv, TypeOK
<1>2. PICK i \in DOMAIN locs : locs[i] = row.seg
  BY <1>1 DEF RowInv
<1>3. /\ row.seg \in DOMAIN image.records \cap DOMAIN image.segs
      /\ image.records[row.seg].kind = "starts"
  BY <1>2 DEF TypeOK, LocsInv
<1>4. /\ row.page \in Nat /\ row.off \in Nat
      /\ Readable(image, row.seg, row.page, row.off)
      /\ row = RowAt(image, row.seg, row.page, row.off)
      /\ image.records[row.seg].format \in Supported
  BY <1>1 DEF RowInv, Row
<1>5. /\ row.at = ByteOff(image, row.seg, row.page, row.off)
      /\ row.va = SatAdd(image.segs[row.seg].vmaddr,
                         ByteOff(image, row.seg, row.page, row.off))
  BY <1>1, <1>3, <1>4, RowType
<1>6. row.at \in Nat
  BY <1>1 DEF Row
<1> QED BY <1>3, <1>4, <1>5, <1>6 DEF Readable

(* Rows only come from slots inside a segment's on-disk extent and inside  *)
(* the file, for every file.                                               *)
THEOREM RowsOnDiskHolds == Spec => []RowsOnDisk
<1>1. SafetyInv => RowsOnDisk
  BY RowMeaning DEF RowsOnDisk
<1> QED BY <1>1, SafetyCorrect, PTL

(* Both lists are in walk order and share no slot, for every file. *)
THEOREM WalkOrderHolds == Spec => []WalkOrder
<1>1. SafetyInv => WalkOrder
  BY DEF SafetyInv
<1> QED BY <1>1, SafetyCorrect, PTL

(* Offsets that stay inside their page do not mix pages up. *)
LEMMA PagesApart ==
  ASSUME NEW size \in Nat, NEW p \in Nat, NEW q \in Nat, p < q,
         NEW o \in Nat, o < size, NEW u \in Nat
  PROVE  p * size + o < q * size + u
<1>1. PICK d \in Nat : q = p + 1 + d
  <2>1. q - p - 1 \in Nat /\ q = p + 1 + (q - p - 1)
    OBVIOUS
  <2> QED BY <2>1
<1>2. q * size = p * size + size + d * size
  BY <1>1
<1>3. p * size \in Nat /\ d * size \in Nat
  BY <1>1
<1> QED BY <1>2, <1>3

(* Offset o of page p, pages being "size" long. *)
Place(size, p, o) == p * size + o

(* Offsets below the page size split an address one way only. *)
LEMMA OneSplit ==
  ASSUME NEW size \in Nat, NEW p \in Nat, NEW q \in Nat,
         NEW o \in Nat, o < size, NEW u \in Nat, u < size,
         Place(size, p, o) = Place(size, q, u)
  PROVE  p = q /\ o = u
<1> USE DEF Place
<1>0. p * size \in Nat /\ q * size \in Nat
  OBVIOUS
<1>1. ~(p < q)
  <2> SUFFICES ASSUME p < q PROVE FALSE
    OBVIOUS
  <2>1. p * size + o < q * size + u
    BY PagesApart
  <2> QED BY <1>0, <2>1
<1>2. ~(q < p)
  <2> SUFFICES ASSUME q < p PROVE FALSE
    OBVIOUS
  <2>1. q * size + u < p * size + o
    BY PagesApart
  <2> QED BY <1>0, <2>1
<1>3. p = q
  BY <1>1, <1>2
<1> QED BY <1>0, <1>3

(* Below the top of the address space nothing saturates. *)
LEMMA SatAddExact ==
  ASSUME NEW a \in Nat, NEW b \in Nat, NEW size \in Nat,
         b < size, a + size <= MaxU
  PROVE  SatAdd(a, b) = a + b
BY FixupAssumption DEF SatAdd

(* Addresses inside disjoint ranges differ. *)
LEMMA RangesApart ==
  ASSUME NEW v \in Nat, NEW f \in Nat, NEW o \in Nat, o < f,
         NEW w \in Nat, NEW g \in Nat, NEW u \in Nat, u < g,
         v + f <= w \/ w + g <= v
  PROVE  v + o # w + u
OBVIOUS

(* No two rows share an address when segments are disjoint and no chain    *)
(* has left its page: whatever else is in the file, the address indexes    *)
(* built from the rows then lose nothing.                                  *)
THEOREM OneRowPerAddressHolds == Spec => []OneRowPerAddress
<1>1. SafetyInv => OneRowPerAddress
  <2> SUFFICES ASSUME SafetyInv, DisjointSegments, ChainsStayInPage,
                      NEW a \in Rows, NEW b \in Rows, a.va = b.va
               PROVE  a = b
    BY DEF OneRowPerAddress
  <2>0. image \in Image
    BY DEF SafetyInv, TypeOK
  <2>1. PICK va, fa, vb, fb \in Nat :
          /\ va = image.segs[a.seg].vmaddr /\ fa = image.segs[a.seg].filesize
          /\ vb = image.segs[b.seg].vmaddr /\ fb = image.segs[b.seg].filesize
    BY <2>0, ImageFacts, RowMeaning
  <2>2. PICK oa, ob \in Nat : /\ oa = a.at /\ oa < fa /\ a.va = SatAdd(va, oa)
                            /\ ob = b.at /\ ob < fb /\ b.va = SatAdd(vb, ob)
    BY <2>1, RowMeaning
  <2>3. va + fa <= MaxU /\ vb + fb <= MaxU
    BY <2>1, RowMeaning DEF DisjointSegments
  <2>4. va + oa = vb + ob
    <3>1. SatAdd(va, oa) = va + oa
      BY <2>2, <2>3, SatAddExact
    <3>2. SatAdd(vb, ob) = vb + ob
      BY <2>2, <2>3, SatAddExact
    <3> QED BY <2>2, <3>1, <3>2
  <2>5. a.seg = b.seg
    <3> SUFFICES ASSUME a.seg # b.seg PROVE FALSE
      OBVIOUS
    <3>1. PICK ra, rb \in DOMAIN image.segs : ra = a.seg /\ rb = b.seg
      BY RowMeaning
    <3>2. ra \in Nat /\ rb \in Nat
      BY <2>0, ImageFacts
    <3>3. ra < rb \/ rb < ra
      BY <3>1, <3>2
    <3>4. va + fa <= vb \/ vb + fb <= va
      BY <2>1, <3>1, <3>3 DEF DisjointSegments
    <3> QED BY <2>2, <2>4, <3>4, RangesApart
  <2>6. oa = ob
    BY <2>1, <2>4, <2>5
  <2>7. PICK size, pa, pb, xa, xb \in Nat :
          /\ size = image.records[a.seg].pageSize
          /\ pa = a.page /\ xa = a.off /\ pb = b.page /\ xb = b.off
    BY <2>0, ImageFacts, RowMeaning
  <2>8. oa = Place(size, pa, xa) /\ ob = Place(size, pb, xb)
    BY <2>2, <2>5, <2>7, RowMeaning DEF ByteOff, Place
  <2>9. xa < size /\ xb < size
    BY <2>5, <2>7 DEF ChainsStayInPage
  <2>10. pa = pb /\ xa = xb
    <3>1. Place(size, pa, xa) = Place(size, pb, xb)
      BY <2>6, <2>8
    <3> QED BY <2>9, <3>1, OneSplit
  <2>12. /\ a = RowAt(image, a.seg, a.page, a.off)
         /\ b = RowAt(image, b.seg, b.page, b.off)
    BY RowMeaning
  <2> QED BY <2>5, <2>7, <2>10, <2>12
<1> QED BY <1>1, SafetyCorrect, PTL
-----------------------------------------------------------------------------
(* The refinement: every step of the walk reports a slot that is due in    *)
(* FixupSlots or reports nothing, and the walk ends only when none is due. *)

(* The slot decode_segment_chains is about to look at. *)
Current == <<Seg, page, off>>

StartOff(im, r, p) == im.records[r].starts[p + 1]

(* Page p of the i-th collected segment has been entered. *)
Entered(i, p) ==
  \/ i < loc
  \/ i = loc /\ (p < page \/ (p = page /\ off # NoChain))

(* Where the current slot comes from: the page's start, or the link of a   *)
(* row already found.                                                      *)
SourceInv ==
  off # NoChain =>
    \/ off = StartOff(image, Seg, page)
    \/ \E row \in Rows : /\ row.seg = Seg /\ row.page = page
                         /\ SlotAt(image, Seg, page, row.off).next # 0
                         /\ NextOff(image, Seg, page, row.off) = off

(* The chain start of every page entered has been reported, unless it is   *)
(* the current slot.                                                       *)
StartsInv ==
  \A i \in DOMAIN locs :
    image.records[locs[i]].format \in Supported =>
      \A p \in Pages(image, locs[i]) :
        /\ Entered(i, p)
        /\ HasChain(image, locs[i], p)
        /\ Readable(image, locs[i], p, StartOff(image, locs[i], p))
        => \/ <<locs[i], p, StartOff(image, locs[i], p)>> \in Slots(Rows)
           \/ i = loc /\ p = page /\ off = StartOff(image, locs[i], p)

(* So has the link target of every slot reported. *)
LinksInv ==
  \A s \in Slots(Rows) : \A t \in Link(image, s) :
    t \in Slots(Rows) \/ (off # NoChain /\ t = Current)

ExploreInv == SafetyInv /\ SourceInv /\ StartsInv /\ LinksInv
-----------------------------------------------------------------------------
(* Steps that add no row *)

(* A page that decode_segment_chains reads, and the chain start it has. *)
LEMMA PageFacts ==
  ASSUME NEW im \in Image, NEW r \in DOMAIN im.records, NEW p \in Pages(im, r)
  PROVE  /\ p \in Nat /\ p < im.records[r].pageCount
         /\ p < Len(im.records[r].starts)
         /\ StartOff(im, r, p) \in Nat
<1>1. im.records[r].pageCount \in Nat /\ im.records[r].starts \in Seq(PageStart)
  BY ImageFacts
<1>2. /\ p \in Nat /\ p < im.records[r].pageCount
      /\ p < Len(im.records[r].starts)
  BY <1>1 DEF Pages
<1>3. StartOff(im, r, p) \in PageStart
  <2>1. p + 1 \in DOMAIN im.records[r].starts
    BY <1>1, <1>2
  <2> QED BY <1>1, <2>1 DEF StartOff
<1> QED BY <1>2, <1>3, FixupAssumption DEF PageStart

(* The segments that were collected. *)
LEMMA LocsTyped ==
  ASSUME TypeOK
  PROVE  /\ image \in Image /\ DOMAIN locs \subseteq Nat
         /\ \A i \in DOMAIN locs :
              locs[i] \in DOMAIN image.records \cap DOMAIN image.segs
BY DEF TypeOK

LEMMA ExploreInit == Init => ExploreInv
<1> SUFFICES ASSUME Init PROVE ExploreInv
  OBVIOUS
<1>1. SafetyInv /\ Rows = {} /\ off = NoChain /\ locs = <<>>
  BY SafetyInit DEF Init, Rows, Elems
<1> QED BY <1>1 DEF ExploreInv, SourceInv, StartsInv, LinksInv, Slots

(* While entries are collected there is nothing to explore. *)
LEMMA ExploreCollect ==
  ASSUME ExploreInv, SafetyInv', Collect
  PROVE  ExploreInv'
<1>1. /\ loc' = 1 /\ page' = 0 /\ off' = NoChain
      /\ rebases' = <<>> /\ binds' = <<>>
  BY DEF ExploreInv, SafetyInv, PositionInv, Collect, SkipEntry, TakeEntry,
         OrphanEntry, BrokenEntry, EndOfEntries, HasEntry
<1>2. Rows' = {}
  BY <1>1 DEF Rows, Elems
<1>3. SourceInv' /\ LinksInv'
  BY <1>1, <1>2 DEF SourceInv, LinksInv, Slots
<1>4. StartsInv'
  <2> SUFFICES ASSUME NEW i \in DOMAIN locs', NEW p \in Pages(image', locs'[i]),
                      Entered(i, p)'
               PROVE  FALSE
    BY DEF StartsInv
  <2>1. i \in Nat /\ i >= 1 /\ p \in Nat
    <3>1. /\ image' \in Image
          /\ locs' \in Seq(DOMAIN image'.records \cap DOMAIN image'.segs)
      BY DEF SafetyInv, TypeOK
    <3>2. locs'[i] \in DOMAIN image'.records
      BY <3>1
    <3> QED BY <3>1, <3>2, PageFacts
  <2> QED BY <1>1, <2>1 DEF Entered
<1> QED BY <1>3, <1>4 DEF ExploreInv

(* Steps between chains: no row is added, and what has been entered since  *)
(* has no chain or is the chain just started.                              *)
LEMMA ExploreBetween ==
  ASSUME ExploreInv, SafetyInv', SkipSegment \/ EndSegment \/ SkipPage \/ StartChain
  PROVE  ExploreInv'
<1> USE DEF ExploreInv, SafetyInv
<1>1. /\ image' = image /\ locs' = locs /\ Rows' = Rows /\ off = NoChain
      /\ loc \in DOMAIN locs /\ loc \in Nat /\ page \in Nat
  <2>1. UNCHANGED <<image, locs, rebases, binds>> /\ off = NoChain
        /\ loc \in DOMAIN locs
    BY DEF SkipSegment, EndSegment, SkipPage, StartChain, BetweenChains, Walking
  <2> QED BY <2>1 DEF Rows, Elems, TypeOK
<1>2. SourceInv'
  <2>1. CASE StartChain
    BY <1>1, <2>1 DEF StartChain, SourceInv, StartOff, Seg
  <2>2. CASE SkipSegment \/ EndSegment \/ SkipPage
    BY <1>1, <2>2 DEF SkipSegment, EndSegment, SkipPage, NextPage, SourceInv
  <2> QED BY <2>1, <2>2
<1>3. LinksInv'
  BY <1>1 DEF LinksInv
<1>4. StartsInv'
  <2> SUFFICES ASSUME NEW i \in DOMAIN locs,
                      image.records[locs[i]].format \in Supported,
                      NEW p \in Pages(image, locs[i]),
                      Entered(i, p)', ~Entered(i, p),
                      HasChain(image, locs[i], p)
               PROVE  i = loc' /\ p = page' /\ off' = StartOff(image, locs[i], p)
    BY <1>1 DEF StartsInv, Entered
  <2>1. i \in Nat /\ p \in Nat
    BY LocsTyped, PageFacts
  <2>2. CASE SkipSegment
    <3>1. image.records[locs[loc]].format \notin Supported /\ loc' = loc + 1
          /\ page' = 0 /\ off' = NoChain
      BY <1>1, <2>2 DEF SkipSegment, NextSegment, Seg
    <3> QED BY <1>1, <2>1, <3>1 DEF Entered
  <2>3. CASE EndSegment
    <3>1. page \notin Pages(image, locs[loc]) /\ loc' = loc + 1
          /\ page' = 0 /\ off' = NoChain
      BY <1>1, <2>3 DEF EndSegment, NextSegment, Seg
    <3>2. i = loc
      BY <1>1, <2>1, <3>1 DEF Entered
    <3>3. locs[loc] \in DOMAIN image.records /\ image \in Image
      BY <1>1, LocsTyped
    <3>4. /\ image.records[locs[loc]].pageCount \in Nat
          /\ Len(image.records[locs[loc]].starts) \in Nat
      <4>1. image.records[locs[loc]].starts \in Seq(PageStart)
        BY <3>3, ImageFacts
      <4> QED BY <3>3, <4>1, ImageFacts
    <3>5. p < page
      BY <1>1, <2>1, <3>1, <3>2, <3>4 DEF Pages
    <3> QED BY <3>2, <3>5 DEF Entered
  <2>4. CASE SkipPage
    <3>1. ~HasChain(image, locs[loc], page) /\ loc' = loc
          /\ page' = page + 1 /\ off' = NoChain
      BY <1>1, <2>4 DEF SkipPage, NextPage, Seg
    <3> QED BY <1>1, <2>1, <3>1 DEF Entered
  <2>5. CASE StartChain
    <3>1. off' = StartOff(image, locs[loc], page) /\ loc' = loc /\ page' = page
      BY <1>1, <2>5 DEF StartChain, Seg, StartOff
    <3> QED BY <1>1, <2>1, <3>1 DEF Entered
  <2> QED BY <2>2, <2>3, <2>4, <2>5
<1> QED BY <1>2, <1>3, <1>4

(* A chain that leaves the extent leaves nothing readable behind. *)
LEMMA ExploreLeave ==
  ASSUME ExploreInv, SafetyInv', LeaveExtent
  PROVE  ExploreInv'
<1> USE DEF ExploreInv, SafetyInv
<1>1. /\ image' = image /\ locs' = locs /\ Rows' = Rows /\ loc' = loc
      /\ off # NoChain /\ off' = NoChain /\ page' = page + 1
      /\ loc \in DOMAIN locs /\ loc \in Nat /\ page \in Nat
      /\ ~Readable(image, Seg, page, off)
  BY DEF LeaveExtent, NextPage, InChain, Walking, Rows, Elems, Slots, TypeOK
<1>2. SourceInv'
  BY <1>1 DEF SourceInv
<1>3. LinksInv'
  <2> SUFFICES ASSUME NEW s \in Slots(Rows), NEW t \in Link(image, s)
               PROVE  t \in Slots(Rows)
    BY <1>1 DEF LinksInv
  <2>1. Readable(image, t[1], t[2], t[3])
    BY DEF Link
  <2>2. t # Current
    BY <1>1, <2>1 DEF Current
  <2> QED BY <2>2 DEF LinksInv
<1>4. StartsInv'
  <2> SUFFICES ASSUME NEW i \in DOMAIN locs,
                      image.records[locs[i]].format \in Supported,
                      NEW p \in Pages(image, locs[i]),
                      Entered(i, p)',
                      HasChain(image, locs[i], p),
                      Readable(image, locs[i], p, StartOff(image, locs[i], p))
               PROVE  <<locs[i], p, StartOff(image, locs[i], p)>> \in Slots(Rows)
    BY <1>1 DEF StartsInv, Entered
  <2>1. i \in Nat /\ p \in Nat
    BY LocsTyped, PageFacts
  <2>2. Entered(i, p)
    BY <1>1, <2>1 DEF Entered
  <2>3. ~(i = loc /\ p = page /\ off = StartOff(image, locs[i], p))
    BY <1>1 DEF Seg
  <2> QED BY <2>2, <2>3 DEF StartsInv
<1> QED BY <1>2, <1>3, <1>4

-----------------------------------------------------------------------------
(* Visiting a slot *)

(* What VisitRebase and VisitBind do to the slots reported and to the      *)
(* position: the current slot is added, and the position moves to its link *)
(* or off the page.                                                        *)
LEMMA VisitEffect ==
  ASSUME SafetyInv, VisitRebase \/ VisitBind
  PROVE  /\ image' = image /\ locs' = locs /\ loc' = loc
         /\ phase = "walk" /\ phase' = "walk"
         /\ off # NoChain /\ Readable(image, Seg, page, off)
         /\ Rows' = Rows \cup {RowAt(image, Seg, page, off)}
         /\ Slots(Rows') = Slots(Rows) \cup {Current}
         /\ Current \notin Slots(Rows)
         /\ \/ /\ SlotAt(image, Seg, page, off).next = 0
               /\ page' = page + 1 /\ off' = NoChain
            \/ /\ SlotAt(image, Seg, page, off).next # 0
               /\ page' = page /\ off' = NextOff(image, Seg, page, off)
<1> USE DEF SafetyInv
<1>n. PICK new : new = RowAt(image, Seg, page, off)
  OBVIOUS
<1>1. /\ UNCHANGED <<image, phase, locs, loc>> /\ InChain /\ Advance
      /\ Readable(image, Seg, page, off)
  BY DEF VisitRebase, VisitBind
<1>2. Rows' = Rows \cup {new}
  <2>1. \/ rebases' = Append(rebases, new) /\ binds' = binds
        \/ binds' = Append(binds, new) /\ rebases' = rebases
    BY <1>n DEF VisitRebase, VisitBind
  <2> QED BY <2>1, RowsAppend
<1>3. new.seg = Seg /\ new.page = page /\ new.off = off
  BY <1>1, <1>n, VisitedRow
<1>4. Slots(Rows') = Slots(Rows) \cup {Current}
  <2>1. Slots(Rows \cup {new}) = Slots(Rows) \cup {<<new.seg, new.page, new.off>>}
    BY DEF Slots
  <2> QED BY <1>2, <1>3, <2>1 DEF Current
<1>5. Current \notin Slots(Rows)
  BY <1>1, NewRowIsLast DEF Slots, Current
<1> QED BY <1>1, <1>2, <1>4, <1>5, <1>n DEF InChain, Walking, Advance, NextPage

LEMMA ExploreVisit ==
  ASSUME ExploreInv, SafetyInv', VisitRebase \/ VisitBind
  PROVE  ExploreInv'
<1> USE DEF ExploreInv
<1>1. /\ image' = image /\ locs' = locs /\ loc' = loc /\ Seg' = Seg
      /\ off # NoChain /\ Slots(Rows') = Slots(Rows) \cup {Current}
      /\ page \in Nat /\ loc \in DOMAIN locs
      /\ Seg \in DOMAIN image.records \cap DOMAIN image.segs
      /\ off \in Nat /\ image \in Image /\ Readable(image, Seg, page, off)
  BY VisitEffect, LocsTyped DEF SafetyInv, TypeOK, PositionInv, Seg
<1>n. PICK new : new = RowAt(image, Seg, page, off)
  OBVIOUS
<1>2. new.seg = Seg /\ new.page = page /\ new.off = off /\ Rows' = Rows \cup {new}
  BY <1>1, <1>n, VisitEffect, RowType
<1>3. /\ NextOff(image, Seg, page, off) \in Nat /\ NoChain \notin Nat
  BY <1>1, LinkAscends DEF NoChain
<1>4. SourceInv'
  <2> SUFFICES ASSUME off' # NoChain
               PROVE  /\ SlotAt(image, Seg, page', off).next # 0
                      /\ NextOff(image, Seg, page', off) = off'
                      /\ page' = page
    BY <1>1, <1>2 DEF SourceInv
  <2> QED BY VisitEffect
<1>5. LinksInv'
  <2> SUFFICES ASSUME NEW s \in Slots(Rows'), NEW t \in Link(image, s)
               PROVE  t \in Slots(Rows') \/ (off' # NoChain /\ t = <<Seg, page', off'>>)
    BY <1>1 DEF LinksInv, Current
  <2>1. CASE s \in Slots(Rows)
    BY <1>1, <2>1 DEF LinksInv
  <2>2. CASE s = Current
    <3>1. /\ SlotAt(image, Seg, page, off).next # 0
          /\ t = <<Seg, page, NextOff(image, Seg, page, off)>>
      BY <2>2 DEF Link, Current
    <3> QED BY <1>3, <3>1, VisitEffect
  <2> QED BY <1>1, <2>1, <2>2
<1>6. StartsInv'
  <2> SUFFICES ASSUME NEW i \in DOMAIN locs,
                      image.records[locs[i]].format \in Supported,
                      NEW p \in Pages(image, locs[i]),
                      Entered(i, p)',
                      HasChain(image, locs[i], p),
                      Readable(image, locs[i], p, StartOff(image, locs[i], p))
               PROVE  <<locs[i], p, StartOff(image, locs[i], p)>> \in Slots(Rows')
    BY <1>1 DEF StartsInv
  <2>1. i \in Nat /\ p \in Nat
    BY <1>1, LocsTyped, PageFacts DEF SafetyInv
  <2>2. Entered(i, p)
    BY <1>1, <2>1, VisitEffect DEF Entered
  <2>3. \/ <<locs[i], p, StartOff(image, locs[i], p)>> \in Slots(Rows)
        \/ <<locs[i], p, StartOff(image, locs[i], p)>> = Current
    BY <2>2 DEF StartsInv, Current, Seg
  <2> QED BY <1>1, <2>3
<1> QED BY <1>4, <1>5, <1>6

(* The walk has reported everything it has passed, in every state. *)
LEMMA ExploreCorrect == Spec => []ExploreInv
<1>1. ExploreInv /\ SafetyInv' /\ [Next]_vars => ExploreInv'
  <2> SUFFICES ASSUME ExploreInv, SafetyInv', [Next]_vars PROVE ExploreInv'
    OBVIOUS
  <2>1. CASE EndWalk \/ Returned \/ UNCHANGED vars
    <3>1. UNCHANGED <<image, locs, loc, page, off, rebases, binds>>
      BY <2>1 DEF EndWalk, Returned, vars
    <3>2. Rows' = Rows /\ Seg' = Seg
      BY <3>1 DEF Rows, Elems, Seg
    <3> QED BY <3>1, <3>2 DEF ExploreInv, SourceInv, StartsInv, LinksInv,
                              Entered, Current
  <2> QED BY <2>1, ExploreCollect, ExploreBetween, ExploreLeave, ExploreVisit
          DEF Next, Walk
<1> QED BY <1>1, ExploreInit, SafetyCorrect, PTL DEF Spec
-----------------------------------------------------------------------------
(* The simulation of FixupSlots *)

(* A slot the walk is about to report is due. *)
LEMMA VisitedIsDue ==
  ASSUME ExploreInv, VisitRebase \/ VisitBind
  PROVE  Current \in Promise!Due(image, Slots(Rows))
<1> USE DEF ExploreInv
<1>1. /\ off # NoChain /\ Current \notin Slots(Rows) /\ image \in Image
      /\ Readable(image, Seg, page, off)
      /\ loc \in DOMAIN locs /\ Seg \in DOMAIN image.records \cap DOMAIN image.segs
      /\ page \in Pages(image, Seg) /\ HasChain(image, Seg, page)
      /\ image.records[Seg].format \in Supported
  BY VisitEffect, LocsTyped DEF SafetyInv, PositionInv, Seg
<1>2. CASE off = StartOff(image, Seg, page)
  <2>1. Seg \in Usable(image)
    BY <1>1 DEF SafetyInv, LocsInv, Clean, Usable, Seg
  <2>2. Current \in StartSlots(image)
    BY <1>1, <1>2, <2>1 DEF StartSlots, StartOff, Current
  <2> QED BY <1>1, <2>2 DEF Promise!Due
<1>3. ASSUME NEW row \in Rows, row.seg = Seg, row.page = page,
             SlotAt(image, Seg, page, row.off).next # 0,
             NextOff(image, Seg, page, row.off) = off
      PROVE  Current \in Promise!Due(image, Slots(Rows))
  <2>1. Current \in Link(image, <<row.seg, row.page, row.off>>)
    BY <1>1, <1>3 DEF Link, Current
  <2>2. <<row.seg, row.page, row.off>> \in Slots(Rows)
    BY DEF Slots
  <2> QED BY <1>1, <2>1, <2>2 DEF Promise!Due
<1> QED BY <1>1, <1>2, <1>3 DEF SourceInv

(* When the walk is over nothing is due. *)
LEMMA NothingLeft ==
  ASSUME ExploreInv, phase # "collect", loc \notin DOMAIN locs
  PROVE  Promise!Due(image, Slots(Rows)) = {}
<1> USE DEF ExploreInv, SafetyInv
<1>1. /\ image \in Image /\ off = NoChain
      /\ \A i \in DOMAIN locs : i < loc
      /\ DOMAIN image.records = 1 .. Len(image.records)
      /\ Len(image.records) \in Nat /\ cursor \in Nat
  BY LocsTyped, ImageFacts DEF PositionInv, TypeOK
<1>2. ASSUME NEW s \in StartSlots(image) PROVE s \in Slots(Rows)
  <2>0. PICK r \in Usable(image) : \E p \in Pages(image, r) :
          /\ HasChain(image, r, p)
          /\ Readable(image, r, p, StartOff(image, r, p))
          /\ s = <<r, p, StartOff(image, r, p)>>
    BY <1>2 DEF StartSlots, StartOff
  <2>1. PICK p \in Pages(image, r) :
          /\ HasChain(image, r, p)
          /\ Readable(image, r, p, StartOff(image, r, p))
          /\ s = <<r, p, StartOff(image, r, p)>>
    BY <2>0
  <2>2. r \in 1 .. cursor
    BY <1>1 DEF Usable, LocsInv
  <2>3. PICK i \in DOMAIN locs : locs[i] = r
    BY <2>2 DEF Usable, LocsInv
  <2>4. Entered(i, p)
    BY <1>1, <2>3 DEF Entered
  <2> QED BY <1>1, <2>1, <2>3, <2>4 DEF StartsInv, Usable
<1>3. ASSUME NEW s \in Slots(Rows), NEW t \in Link(image, s)
      PROVE  t \in Slots(Rows)
  BY <1>1, <1>3 DEF LinksInv
<1> QED BY <1>2, <1>3 DEF Promise!Due

(* Every step of the walk is a step of FixupSlots or leaves it alone. *)
LEMMA PromiseStep ==
  ASSUME ExploreInv, [Next]_vars
  PROVE  [Promise!Next]_Promise!vars
<1> USE DEF Promise!vars
<1>1. CASE VisitRebase \/ VisitBind
  <2>1. /\ image' = image /\ phase = "walk" /\ phase' = "walk"
        /\ Slots(Rows') = Slots(Rows) \cup {Current}
    BY <1>1, VisitEffect DEF ExploreInv
  <2>2. Promise!Report
    BY <1>1, <2>1, VisitedIsDue DEF Promise!Report
  <2> QED BY <2>2 DEF Promise!Next
<1>2. CASE EndWalk
  <2>1. /\ image' = image /\ phase = "walk" /\ phase' = "done"
        /\ loc \notin DOMAIN locs /\ Rows' = Rows
    BY <1>2 DEF EndWalk, Rows, Elems
  <2>2. Promise!Finish
    BY <2>1, NothingLeft DEF Promise!Finish
  <2> QED BY <2>2 DEF Promise!Next
<1>3. CASE Collect \/ SkipSegment \/ EndSegment \/ SkipPage \/ StartChain
           \/ LeaveExtent \/ Returned \/ UNCHANGED vars
  <2>1. /\ UNCHANGED <<image, rebases, binds>>
        /\ (phase' = "done") = (phase = "done")
    BY <1>3 DEF Collect, SkipEntry, TakeEntry, OrphanEntry, BrokenEntry,
         EndOfEntries, HasEntry, SkipSegment, EndSegment, SkipPage, StartChain,
         LeaveExtent, Returned, vars
  <2>2. Rows' = Rows
    BY <2>1 DEF Rows, Elems
  <2> QED BY <2>1, <2>2
<1> QED BY <1>1, <1>2, <1>3 DEF Next, Walk

(* The walk implements FixupSlots: on every file it reports only slots that *)
(* are due, each once, and it returns only when every pointer slot of every *)
(* chain of every usable segment is in one of its two lists.                *)
THEOREM Implements == Spec => ReportsOnlyDueSlots
<1>1. Init => Promise!Init
  BY DEF Init, Promise!Init, Slots, Rows, Elems
<1> QED BY <1>1, PromiseStep, ExploreCorrect, PTL DEF Spec, ReportsOnlyDueSlots
------------------------------------------------------------------------------
(* The imports table *)

Import == [lib: -LongHalf .. (LongHalf - 1), weak: BOOLEAN,
           name: Names \cup {Blank}, addend: Addends]

(* imports() has read the entries up to its end, and at the end all that   *)
(* the count and the file allow.                                           *)
ImportsInv ==
  /\ stage = "legacy" => imports = <<>>
  /\ stage = "imports" => Len(imports) = taken
  /\ \A k \in 1 .. Len(imports) :
       k \in DOMAIN file.entries /\ imports[k] = Decode(file.format, file.entries[k])
  /\ stage \in {"dylibs", "binds", "done"} =>
       \A k \in DOMAIN file.entries :
         file.format # "Other" /\ k <= file.count => k \in 1 .. Len(imports)

(* The number of dependencies among the first n commands. *)
Prior(cmds, n) == {j \in 1 .. n : cmds[j].kind \in LoadKinds}

Rank(cmds, n) == Cardinality(Prior(cmds, n))

(* The list is in step with the first n commands. *)
InStep(cmds, n, list) ==
  (\A i \in Prior(cmds, n) : cmds[i].name # Unreadable) =>
    /\ Len(list) = Rank(cmds, n)
    /\ \A i \in Prior(cmds, n) :
         Rank(cmds, i) \in 1 .. Len(list) /\ list[Rank(cmds, i)] = cmds[i].name

DylibsInv ==
  /\ stage \in {"legacy", "imports"} => dylibs = <<>>
  /\ stage = "dylibs" =>
       taken <= Len(file.commands) /\ InStep(file.commands, taken, dylibs)
  /\ stage \in {"binds", "done"} =>
       InStep(file.commands, Len(file.commands), dylibs)

(* The rows taken in each stage, and what they are. *)
ImportRowsInv ==
  /\ stage = "legacy" => Len(rows) = taken /\ taken <= Len(file.legacy)
  /\ stage \in {"imports", "dylibs"} => Len(rows) = Len(file.legacy)
  /\ stage = "binds" => /\ Len(rows) = Len(file.legacy) + taken
                        /\ taken <= Len(file.slots)
  /\ stage = "done" => Len(rows) = Len(file.legacy) + Len(file.slots)
  /\ \A k \in 1 .. Len(rows) :
       IF k <= Len(file.legacy) THEN rows[k] = file.legacy[k]
       ELSE rows[k] = Resolve(file.slots[k - Len(file.legacy)])

BindInv == ImportTypeOK /\ ImportsInv /\ DylibsInv /\ ImportRowsInv
-----------------------------------------------------------------------------
(* The lists of a file. *)
LEMMA FileFacts ==
  ASSUME NEW f \in File
  PROVE  /\ f.commands \in Seq(Command) /\ f.entries \in Seq(Raw)
         /\ f.slots \in Seq(BindSlot) /\ f.legacy \in Seq(ImportRow)
         /\ f.format \in ImportsFormat /\ f.count \in Nat
         /\ Len(f.commands) \in Nat /\ Len(f.entries) \in Nat
         /\ Len(f.slots) \in Nat /\ Len(f.legacy) \in Nat
         /\ DOMAIN f.commands = 1 .. Len(f.commands)
         /\ DOMAIN f.entries = 1 .. Len(f.entries)
         /\ DOMAIN f.slots = 1 .. Len(f.slots)
         /\ DOMAIN f.legacy = 1 .. Len(f.legacy)
<1>1. /\ f.commands \in Seq(Command) /\ f.entries \in Seq(Raw)
      /\ f.slots \in Seq(BindSlot) /\ f.legacy \in Seq(ImportRow)
      /\ f.format \in ImportsFormat /\ f.count \in Nat
  BY DEF File
<1> QED BY <1>1

(* A saturated sum is an i64. *)
LEMMA ClampType ==
  ASSUME NEW n \in Int
  PROVE  Clamp(n) \in Addends
BY BindAssumption DEF Clamp, Addends

(* The two's complement number of a field is the one of its signed range   *)
(* that is congruent to the bits.                                          *)
LEMMA SignExtendFacts ==
  ASSUME NEW half \in Nat \ {0}, NEW raw \in 0 .. (2 * half - 1)
  PROVE  /\ SignExtend(raw, half) \in -half .. (half - 1)
         /\ SignExtend(raw, half) = raw \/ SignExtend(raw, half) = raw - 2 * half
BY DEF SignExtend

LEMMA RemainderFacts ==
  ASSUME NEW v \in Int, NEW m \in Nat \ {0}
  PROVE  /\ v % m \in 0 .. (m - 1) /\ v \div m \in Int
         /\ v = m * (v \div m) + (v % m)
<1>1. v % m \in 0 .. (m - 1) /\ v \div m \in Int
  OBVIOUS
<1>2. v = m * (v \div m) + (v % m)
  BY Z3
<1> QED BY <1>1, <1>2

(* A multiple of m has no remainder, and conversely. *)
LEMMA NoRemainder ==
  ASSUME NEW m \in Nat \ {0}, NEW d \in Int, NEW q \in Int, d = m * q
  PROVE  d % m = 0
<1>1. PICK p \in Int, r \in 0 .. (m - 1) : d = m * p + r /\ r = d % m
  BY RemainderFacts
<1>2. PICK e \in Int : e = q - p
  OBVIOUS
<1>3. m * e = r
  <2>1. m * q = m * p + r
    BY <1>1
  <2>2. m * (q - p) = r
    BY <2>1, <1>1, Z3
  <2> QED BY <1>2, <2>2
<1>4. r = 0
  BY <1>3, <1>1, Z3
<1> QED BY <1>1, <1>4

(* Only one number of a range of length m is congruent to raw. *)
LEMMA OneResidue ==
  ASSUME NEW half \in Nat \ {0}, NEW raw \in Int,
         NEW a \in -half .. (half - 1), NEW b \in -half .. (half - 1),
         (a - raw) % (2 * half) = 0, (b - raw) % (2 * half) = 0
  PROVE  a = b
<1>1. PICK m \in Nat \ {0} : m = 2 * half
  OBVIOUS
<1>2. PICK p \in Int : a - raw = m * p
  <2>1. a - raw \in Int /\ (a - raw) % m = 0
    BY <1>1
  <2>2. (a - raw) \div m \in Int /\ a - raw = m * ((a - raw) \div m) + ((a - raw) % m)
    BY <2>1, RemainderFacts
  <2>3. PICK q \in Int : a - raw = m * q + 0
    BY <2>1, <2>2
  <2> QED BY <2>3
<1>3. PICK q \in Int : b - raw = m * q
  <2>1. b - raw \in Int /\ (b - raw) % m = 0
    BY <1>1
  <2>2. (b - raw) \div m \in Int /\ b - raw = m * ((b - raw) \div m) + ((b - raw) % m)
    BY <2>1, RemainderFacts
  <2>3. PICK p1 \in Int : b - raw = m * p1 + 0
    BY <2>1, <2>2
  <2> QED BY <2>3
<1>4. PICK e \in Int : e = p - q
  OBVIOUS
<1>5. m * e = a - b
  <2>1. m * (p - q) = a - b
    BY <1>2, <1>3, Z3
  <2> QED BY <1>4, <2>1
<1>6. a - b < m /\ b - a < m
  BY <1>1
<1>7. a - b = 0
  BY <1>5, <1>6, Z3
<1> QED BY <1>7

(* The lib_ordinal the decoder keeps is the number the field holds. *)
LEMMA OrdinalIsDyld ==
  ASSUME ImportTypeOK, NEW raw \in 0 .. (2 * LongHalf - 1)
  PROVE  /\ LibOrdinal(file.format, raw) = DyldOrdinal(raw)
         /\ LibOrdinal(file.format, raw) \in -LongHalf .. (LongHalf - 1)
<1>1. PICK half \in Nat \ {0} :
        half = IF file.format = "Addend64" THEN LongHalf ELSE ShortHalf
  BY BindAssumption
<1>2. half <= LongHalf
  BY <1>1, BindAssumption
<1>3. PICK n \in Int : n = LibOrdinal(file.format, raw)
  <2>1. CASE file.format = "Addend64"
    <3>1. raw \in Int /\ half \in Int /\ half = LongHalf
      BY <1>1, <2>1, BindAssumption
    <3>2. LibOrdinal(file.format, raw) = SignExtend(raw, half)
      BY <2>1, <3>1 DEF LibOrdinal
    <3>3. SignExtend(raw, half) \in Int
      BY <3>1 DEF SignExtend
    <3> QED BY <3>2, <3>3
  <2>2. CASE file.format # "Addend64"
    <3>1. raw % (2 * ShortHalf) \in Int
      BY BindAssumption
    <3> QED BY <1>1, <2>2, <3>1 DEF LibOrdinal, SignExtend
  <2> QED BY <2>1, <2>2
<1>4. n \in -half .. (half - 1) /\ (n - raw) % (2 * half) = 0
  <2>1. CASE file.format = "Addend64"
    <3>1. /\ n \in -half .. (half - 1)
          /\ n = raw \/ n = raw - 2 * half
      <4>1. n = SignExtend(raw, half) /\ raw \in 0 .. (2 * half - 1)
        BY <1>1, <1>3, <2>1 DEF LibOrdinal
      <4> QED BY <4>1, SignExtendFacts
    <3>2. n - raw = (2 * half) * 0 \/ n - raw = (2 * half) * (-1)
      BY <3>1
    <3>3. 2 * half \in Nat \ {0} /\ n - raw \in Int /\ 0 \in Int /\ -1 \in Int
      OBVIOUS
    <3> QED BY <3>1, <3>2, <3>3, NoRemainder
  <2>2. CASE file.format # "Addend64"
    <3>1. PICK m \in Nat \ {0} : m = 2 * half
      OBVIOUS
    <3>2. PICK q \in Int, r \in 0 .. (m - 1) : raw = m * q + r /\ r = raw % m
      <4>1. raw \in Int
        BY BindAssumption
      <4>2. /\ raw % m \in 0 .. (m - 1) /\ raw \div m \in Int
            /\ raw = m * (raw \div m) + (raw % m)
        BY <4>1, RemainderFacts
      <4> QED BY <4>2
    <3>3. n = SignExtend(r, half)
      BY <1>1, <1>3, <2>2, <3>1, <3>2 DEF LibOrdinal
    <3>4. /\ n \in -half .. (half - 1)
          /\ n = r \/ n = r - m
      BY <3>1, <3>2, <3>3, SignExtendFacts
    <3>5. n - raw = m * (-q) \/ n - raw = m * (-q - 1)
      <4>1. m * (-q) = -(m * q) /\ m * (-q - 1) = -(m * q) - m /\ m * q \in Int
        BY Z3
      <4>2. PICK z \in Int : z = m * q
        BY <4>1
      <4>3. raw = z + r /\ (n = r \/ n = r - m)
        BY <3>2, <3>4, <4>2
      <4>4. n - raw = -z \/ n - raw = -z - m
        BY <4>3
      <4> QED BY <4>1, <4>2, <4>4
    <3>6. n - raw \in Int /\ -q \in Int /\ -q - 1 \in Int
      OBVIOUS
    <3>7. (n - raw) % m = 0
      BY <3>5, <3>6, NoRemainder
    <3> QED BY <3>1, <3>4, <3>7
  <2> QED BY <2>1, <2>2
<1>5. /\ DyldOrdinal(raw) \in -half .. (half - 1)
      /\ (DyldOrdinal(raw) - raw) % (2 * half) = 0
  BY <1>1, <1>4 DEF DyldOrdinal
<1>6. PICK d \in -half .. (half - 1) : d = DyldOrdinal(raw) /\ (d - raw) % (2 * half) = 0
  BY <1>5
<1>7. raw \in Int
  BY BindAssumption
<1>8. n = d
  BY <1>4, <1>6, <1>7, OneResidue
<1>9. n \in -LongHalf .. (LongHalf - 1)
  BY <1>2, <1>4, BindAssumption
<1> QED BY <1>3, <1>6, <1>8, <1>9
-----------------------------------------------------------------------------
(* Ranks *)

LEMMA RankFacts ==
  ASSUME NEW cmds, NEW n \in Nat
  PROVE  /\ Rank(cmds, 0) = 0
         /\ Rank(cmds, n) \in Nat
         /\ Rank(cmds, n + 1) = IF cmds[n + 1].kind \in LoadKinds
                                THEN Rank(cmds, n) + 1 ELSE Rank(cmds, n)
<1>1. Prior(cmds, 0) = {}
  BY DEF Prior
<1>2. IsFiniteSet(Prior(cmds, n))
  <2>1. IsFiniteSet(1 .. n)
    BY FS_Interval
  <2> QED BY <2>1, FS_Subset DEF Prior
<1>3. Prior(cmds, n + 1) = IF cmds[n + 1].kind \in LoadKinds
                           THEN Prior(cmds, n) \cup {n + 1} ELSE Prior(cmds, n)
  <2>1. 1 .. (n + 1) = (1 .. n) \cup {n + 1}
    OBVIOUS
  <2> QED BY <2>1 DEF Prior
<1>4. n + 1 \notin Prior(cmds, n)
  BY DEF Prior
<1>5. Cardinality(Prior(cmds, n) \cup {n + 1}) = Cardinality(Prior(cmds, n)) + 1
  BY <1>2, <1>4, FS_AddElement
<1>6. Cardinality(Prior(cmds, n)) \in Nat
  BY <1>2, FS_CardinalityType
<1>7. Cardinality({}) = 0
  BY FS_EmptySet
<1> QED BY <1>1, <1>3, <1>5, <1>6, <1>7 DEF Rank

(* Nothing read is in step with no command. *)
LEMMA InStepFirst ==
  ASSUME NEW cmds
  PROVE  InStep(cmds, 0, <<>>)
BY RankFacts DEF InStep, Prior

(* A command that is no dependency leaves the list in step, and so does    *)
(* one without a name, as then nothing is claimed.                         *)
LEMMA InStepSkip ==
  ASSUME NEW cmds, NEW n \in Nat, NEW list, InStep(cmds, n, list),
         cmds[n + 1].kind \in LoadKinds => cmds[n + 1].name = Unreadable
  PROVE  InStep(cmds, n + 1, list)
<1>1. CASE cmds[n + 1].kind \in LoadKinds
  BY <1>1 DEF InStep, Prior
<1>2. CASE cmds[n + 1].kind \notin LoadKinds
  <2>1. Prior(cmds, n + 1) = Prior(cmds, n)
    BY <1>2 DEF Prior
  <2>2. Rank(cmds, n + 1) = Rank(cmds, n)
    BY <2>1 DEF Rank
  <2> QED BY <2>1, <2>2 DEF InStep
<1> QED BY <1>1, <1>2

LEMMA AppendFacts ==
  ASSUME NEW S, NEW list \in Seq(S), NEW e \in S
  PROVE  /\ Append(list, e) \in Seq(S) /\ Len(list) \in Nat
         /\ Len(Append(list, e)) = Len(list) + 1
         /\ \A k \in 1 .. Len(list) : Append(list, e)[k] = list[k]
         /\ Append(list, e)[Len(list) + 1] = e
OBVIOUS

LEMMA InStepTake ==
  ASSUME NEW cmds, NEW n \in Nat, NEW S, NEW list \in Seq(S), NEW name \in S,
         InStep(cmds, n, list),
         cmds[n + 1].kind \in LoadKinds, cmds[n + 1].name = name
  PROVE  InStep(cmds, n + 1, Append(list, name))
<1> SUFFICES ASSUME \A i \in Prior(cmds, n + 1) : cmds[i].name # Unreadable
             PROVE  /\ Len(Append(list, name)) = Rank(cmds, n + 1)
                    /\ \A i \in Prior(cmds, n + 1) :
                         /\ Rank(cmds, i) \in 1 .. Len(Append(list, name))
                         /\ Append(list, name)[Rank(cmds, i)] = cmds[i].name
  BY DEF InStep
<1>1. Prior(cmds, n + 1) = Prior(cmds, n) \cup {n + 1}
  <2>1. 1 .. (n + 1) = (1 .. n) \cup {n + 1}
    OBVIOUS
  <2> QED BY <2>1 DEF Prior
<1>2. PICK m \in Nat : /\ m = Len(list) /\ m = Rank(cmds, n)
                       /\ Rank(cmds, n + 1) = m + 1
  <2>1. Len(list) = Rank(cmds, n)
    BY <1>1 DEF InStep
  <2> QED BY <2>1, RankFacts
<1>3. /\ Len(Append(list, name)) = m + 1 /\ Append(list, name)[m + 1] = name
      /\ \A r \in 1 .. m : Append(list, name)[r] = list[r]
  <2>1. /\ Len(Append(list, name)) = Len(list) + 1
        /\ \A k \in 1 .. Len(list) : Append(list, name)[k] = list[k]
        /\ Append(list, name)[Len(list) + 1] = name
    BY AppendFacts, SMT
  <2>2. Len(list) = m
    BY <1>2
  <2> QED BY <2>1, <2>2, Zenon
<1>4. ASSUME NEW i \in Prior(cmds, n)
      PROVE  /\ Rank(cmds, i) \in 1 .. (m + 1)
             /\ Append(list, name)[Rank(cmds, i)] = cmds[i].name
  <2>1. PICK r \in 1 .. m : r = Rank(cmds, i) /\ list[r] = cmds[i].name
    BY <1>1, <1>2 DEF InStep
  <2>2. Append(list, name)[r] = list[r]
    BY <1>3
  <2> QED BY <2>1, <2>2
<1> QED BY <1>1, <1>2, <1>3, <1>4
-----------------------------------------------------------------------------
(* Rows *)

LEMMA LibType ==
  ASSUME NEW lib \in Int, NEW names \in Seq(Dylibs \cup {Blank})
  PROVE  /\ ResolveLib(lib, names) \in Dylibs \cup Specials \cup {Blank}
         /\ lib <= 0 => ResolveLib(lib, names) \in Specials \cup {Blank}
         /\ lib \in 1 .. Len(names) => ResolveLib(lib, names) = names[lib]
<1>1. DOMAIN names = 1 .. Len(names) /\ \A k \in DOMAIN names : names[k] \in Dylibs \cup {Blank}
  OBVIOUS
<1>2. CASE lib > 0
  BY <1>1, <1>2 DEF ResolveLib
<1>3. CASE lib = 0
  BY <1>3 DEF ResolveLib, Specials
<1>4. CASE lib = -1
  BY <1>4 DEF ResolveLib, Specials
<1>5. CASE lib = -2
  BY <1>5 DEF ResolveLib, Specials
<1>6. CASE lib = -3
  BY <1>6 DEF ResolveLib, Specials
<1>7. CASE lib < -3
  <2>1. ~(lib > 0) /\ lib # 0 /\ lib # -1 /\ lib # -2 /\ lib # -3
    BY <1>7
  <2>2. ResolveLib(lib, names) = Blank
    BY <2>1 DEF ResolveLib
  <2> QED BY <1>7, <2>2
<1> QED BY <1>2, <1>3, <1>4, <1>5, <1>6, <1>7

LEMMA DecodeType ==
  ASSUME ImportTypeOK, NEW raw \in Raw
  PROVE  Decode(file.format, raw) \in Import
<1>1. /\ raw.lib \in 0 .. (2 * LongHalf - 1) /\ raw.weak \in BOOLEAN
      /\ raw.name \in Names \cup {Blank, Unreadable} /\ raw.addend \in Addends
  BY DEF Raw
<1>2. 0 \in Addends
  BY BindAssumption DEF Addends
<1>3. LibOrdinal(file.format, raw.lib) \in -LongHalf .. (LongHalf - 1)
  BY <1>1, OrdinalIsDyld
<1> QED BY <1>1, <1>2, <1>3 DEF Decode, Import

(* A chained row is a row. *)
LEMMA ResolveType ==
  ASSUME ImportTypeOK, NEW slot \in BindSlot
  PROVE  Resolve(slot) \in ImportRow
<1>1. /\ slot.ordinal \in Nat /\ slot.addend \in Addends /\ slot.va \in Nat
      /\ slot.file \in Nat
  BY DEF BindSlot
<1>2. imports \in Seq(Import) /\ dylibs \in Seq(Dylibs \cup {Blank})
  BY DEF ImportTypeOK, Import
<1>3. slot.addend \in Int /\ \A a \in Addends : a \in Int
  BY <1>1, BindAssumption DEF Addends
<1>4. CASE slot.ordinal + 1 \in DOMAIN imports
  <2>1. PICK imp \in Import : imp = imports[slot.ordinal + 1]
    BY <1>2, <1>4
  <2>2. /\ imp.lib \in Int /\ imp.weak \in BOOLEAN /\ imp.name \in Names \cup {Blank}
        /\ imp.addend \in Int
    BY <1>3, BindAssumption DEF Import
  <2>3. Clamp(slot.addend + imp.addend) \in Addends
    BY <1>3, <2>2, ClampType
  <2>4. ResolveLib(imp.lib, dylibs) \in Dylibs \cup Specials \cup {Blank}
    BY <1>2, <2>2, LibType
  <2>5. Resolve(slot) = [name |-> imp.name, dylib |-> ResolveLib(imp.lib, dylibs),
                         weak |-> imp.weak, lazy |-> FALSE,
                         addend |-> Clamp(slot.addend + imp.addend),
                         va |-> slot.va, file |-> slot.file]
    BY <1>4, <2>1, <2>2 DEF Resolve
  <2> QED BY <1>1, <2>2, <2>3, <2>4, <2>5 DEF ImportRow
<1>5. CASE slot.ordinal + 1 \notin DOMAIN imports
  <2>1. Clamp(slot.addend + 0) \in Addends
    BY <1>3, ClampType
  <2>2. Resolve(slot) = [name |-> Blank, dylib |-> Blank, weak |-> FALSE, lazy |-> FALSE,
                         addend |-> Clamp(slot.addend + 0),
                         va |-> slot.va, file |-> slot.file]
    BY <1>5 DEF Resolve
  <2> QED BY <1>1, <2>1, <2>2 DEF ImportRow
<1> QED BY <1>4, <1>5
-----------------------------------------------------------------------------
(* The steps. *)

LEMMA InitInv == ImportInit => BindInv
<1> SUFFICES ASSUME ImportInit PROVE BindInv
  OBVIOUS
<1>1. /\ file \in File /\ stage = "legacy" /\ taken = 0
      /\ imports = <<>> /\ dylibs = <<>> /\ rows = <<>>
  BY BindAssumption DEF ImportInit
<1>2. /\ Len(file.legacy) \in Nat /\ Len(imports) = 0 /\ Len(rows) = 0
  BY <1>1, FileFacts
<1>3. ImportTypeOK
  BY <1>1 DEF ImportTypeOK
<1>4. ImportsInv /\ DylibsInv /\ ImportRowsInv
  BY <1>1, <1>2 DEF ImportsInv, DylibsInv, ImportRowsInv
<1> QED BY <1>3, <1>4 DEF BindInv

(* What stays as it is while rows, imports and dylibs do. *)
LEMMA LegacyStep == BindInv /\ (TakeLegacy \/ EndLegacy) => BindInv'
<1> SUFFICES ASSUME BindInv, TakeLegacy \/ EndLegacy PROVE BindInv'
  OBVIOUS
<1>1. /\ ImportTypeOK /\ ImportsInv /\ DylibsInv /\ ImportRowsInv /\ stage = "legacy"
      /\ UNCHANGED <<file, imports, dylibs>>
  BY DEF BindInv, TakeLegacy, EndLegacy, Turn
<1>2. /\ file \in File /\ taken \in Nat /\ rows \in Seq(ImportRow)
      /\ imports = <<>> /\ dylibs = <<>> /\ Len(rows) = taken
      /\ taken <= Len(file.legacy)
      /\ Len(file.legacy) \in Nat /\ file.legacy \in Seq(ImportRow)
      /\ \A k \in 1 .. Len(rows) : rows[k] = file.legacy[k]
  BY <1>1, FileFacts DEF ImportTypeOK, ImportsInv, DylibsInv, ImportRowsInv
<1>3. CASE TakeLegacy
  <2>1. /\ taken < Len(file.legacy) /\ taken' = taken + 1 /\ stage' = "legacy"
        /\ rows' = Append(rows, file.legacy[taken + 1])
    BY <1>1, <1>3 DEF TakeLegacy
  <2>2. file.legacy[taken + 1] \in ImportRow
    BY <1>2, <2>1
  <2>3. /\ rows' \in Seq(ImportRow) /\ Len(rows') = taken + 1
        /\ \A k \in 1 .. (taken + 1) : rows'[k] = file.legacy[k]
    BY <1>2, <2>1, <2>2
  <2>4. ImportTypeOK'
    BY <1>1, <1>2, <2>1, <2>3 DEF ImportTypeOK
  <2>5. ImportsInv' /\ DylibsInv'
    BY <1>1, <1>2, <2>1 DEF ImportsInv, DylibsInv
  <2>6. ImportRowsInv'
    BY <1>1, <1>2, <2>1, <2>3 DEF ImportRowsInv
  <2> QED BY <2>4, <2>5, <2>6 DEF BindInv
<1>4. CASE EndLegacy
  <2>1. taken = Len(file.legacy) /\ taken' = 0 /\ stage' = "imports" /\ rows' = rows
    BY <1>4 DEF EndLegacy, Turn
  <2>2. ImportTypeOK'
    BY <1>1, <2>1 DEF ImportTypeOK
  <2>3. ImportsInv' /\ DylibsInv'
    BY <1>1, <1>2, <2>1 DEF ImportsInv, DylibsInv
  <2>4. ImportRowsInv'
    BY <1>1, <1>2, <2>1 DEF ImportRowsInv
  <2> QED BY <2>2, <2>3, <2>4 DEF BindInv
<1> QED BY <1>3, <1>4

LEMMA ImportsStep == BindInv /\ (TakeImport \/ EndImports) => BindInv'
<1> SUFFICES ASSUME BindInv, TakeImport \/ EndImports PROVE BindInv'
  OBVIOUS
<1>1. /\ ImportTypeOK /\ ImportsInv /\ DylibsInv /\ ImportRowsInv /\ stage = "imports"
      /\ UNCHANGED <<file, rows, dylibs>>
  BY DEF BindInv, TakeImport, EndImports, Turn
<1>2. /\ file \in File /\ taken \in Nat /\ rows \in Seq(ImportRow)
      /\ imports \in Seq(Import) /\ dylibs = <<>>
      /\ Len(imports) = taken /\ Len(rows) = Len(file.legacy)
      /\ Len(file.legacy) \in Nat /\ file.count \in Nat
      /\ Len(file.entries) \in Nat /\ file.entries \in Seq(Raw)
      /\ DOMAIN file.entries = 1 .. Len(file.entries)
  BY <1>1, FileFacts DEF ImportTypeOK, ImportsInv, DylibsInv, ImportRowsInv, Import
<1>3. \A k \in 1 .. Len(rows) : rows[k] = file.legacy[k]
  BY <1>1, <1>2 DEF ImportRowsInv
<1>4. CASE TakeImport
  <2>1. /\ taken < Len(file.entries) /\ taken' = taken + 1 /\ stage' = "imports"
        /\ imports' = Append(imports, Decode(file.format, file.entries[taken + 1]))
    BY <1>1, <1>4 DEF TakeImport, HasImport
  <2>2. file.entries[taken + 1] \in Raw
    BY <1>2, <2>1
  <2>3. PICK i \in Import : i = Decode(file.format, file.entries[taken + 1])
    BY <1>1, <2>2, DecodeType
  <2>4. /\ imports' \in Seq(Import) /\ Len(imports') = taken + 1
        /\ \A k \in 1 .. taken : imports'[k] = imports[k]
        /\ imports'[taken + 1] = i
    BY <1>2, <2>1, <2>3
  <2>5. ImportTypeOK'
    BY <1>1, <1>2, <2>1, <2>4 DEF ImportTypeOK, Import
  <2>6. \A k \in 1 .. (taken + 1) :
          k \in DOMAIN file.entries /\ imports'[k] = Decode(file.format, file.entries[k])
    <3>1. \A k \in 1 .. (taken + 1) : k \in 1 .. taken \/ k = taken + 1
      BY <1>2
    <3>2. \A k \in 1 .. taken :
            k \in DOMAIN file.entries /\ imports[k] = Decode(file.format, file.entries[k])
      BY <1>1, <1>2 DEF ImportsInv
    <3>3. taken + 1 \in DOMAIN file.entries
      BY <1>2, <2>1
    <3> QED BY <2>3, <2>4, <3>1, <3>2, <3>3
  <2>7. ImportsInv'
    BY <1>1, <2>1, <2>4, <2>6 DEF ImportsInv
  <2>8. DylibsInv'
    BY <1>1, <1>2, <2>1 DEF DylibsInv
  <2>9. ImportRowsInv'
    BY <1>1, <1>2, <1>3, <2>1 DEF ImportRowsInv
  <2> QED BY <2>5, <2>7, <2>8, <2>9 DEF BindInv
<1>5. CASE EndImports
  <2>1. /\ ~HasImport /\ taken' = 0 /\ stage' = "dylibs" /\ imports' = imports
    BY <1>5 DEF EndImports, Turn
  <2>2. ImportTypeOK'
    BY <1>1, <2>1 DEF ImportTypeOK
  <2>3. \A k \in DOMAIN file.entries :
          file.format # "Other" /\ k <= file.count => k \in 1 .. Len(imports)
    BY <1>2, <2>1 DEF HasImport
  <2>4. ImportsInv'
    BY <1>1, <2>1, <2>3 DEF ImportsInv
  <2>5. DylibsInv'
    <3>1. 0 <= Len(file.commands)
      BY <1>2, FileFacts
    <3> QED BY <1>1, <1>2, <2>1, <3>1, InStepFirst DEF DylibsInv
  <2>6. ImportRowsInv'
    BY <1>1, <1>2, <1>3, <2>1 DEF ImportRowsInv
  <2> QED BY <2>2, <2>4, <2>5, <2>6 DEF BindInv
<1> QED BY <1>4, <1>5

LEMMA DylibsStep ==
  BindInv /\ (TakeDylib \/ SkipNameless \/ SkipOther \/ EndDylibs) => BindInv'
<1> SUFFICES ASSUME BindInv, TakeDylib \/ SkipNameless \/ SkipOther \/ EndDylibs
             PROVE  BindInv'
  OBVIOUS
<1>1. /\ ImportTypeOK /\ ImportsInv /\ DylibsInv /\ ImportRowsInv /\ stage = "dylibs"
      /\ UNCHANGED <<file, imports, rows>>
  BY DEF BindInv, TakeDylib, SkipNameless, SkipOther, EndDylibs, Turn, Scanning
<1>2. /\ file \in File /\ taken \in Nat /\ rows \in Seq(ImportRow)
      /\ dylibs \in Seq(Dylibs \cup {Blank})
      /\ Len(rows) = Len(file.legacy)
      /\ taken <= Len(file.commands) /\ InStep(file.commands, taken, dylibs)
      /\ Len(file.legacy) \in Nat /\ Len(file.commands) \in Nat /\ Len(file.slots) \in Nat
      /\ file.commands \in Seq(Command)
  BY <1>1, FileFacts DEF ImportTypeOK, DylibsInv, ImportRowsInv
<1>3. \A k \in 1 .. Len(rows) : rows[k] = file.legacy[k]
  BY <1>1, <1>2 DEF ImportRowsInv
<1>4. CASE EndDylibs
  <2>1. taken = Len(file.commands) /\ taken' = 0 /\ stage' = "binds" /\ dylibs' = dylibs
    BY <1>4 DEF EndDylibs, Turn
  <2>2. ImportTypeOK' /\ ImportsInv'
    BY <1>1, <2>1 DEF ImportTypeOK, ImportsInv
  <2>3. DylibsInv'
    BY <1>1, <1>2, <2>1 DEF DylibsInv
  <2>4. ImportRowsInv'
    BY <1>1, <1>2, <1>3, <2>1 DEF ImportRowsInv
  <2> QED BY <2>2, <2>3, <2>4 DEF BindInv
<1>5. CASE TakeDylib \/ SkipNameless \/ SkipOther
  <2>1. taken < Len(file.commands) /\ taken' = taken + 1 /\ stage' = "dylibs"
    BY <1>1, <1>5 DEF TakeDylib, SkipNameless, SkipOther, Scanning
  <2>2. PICK lc \in Command : lc = file.commands[taken + 1] /\ lc = LC
    BY <1>2, <2>1 DEF LC
  <2>3. ImportsInv'
    BY <1>1, <2>1 DEF ImportsInv
  <2>4. ImportRowsInv'
    BY <1>1, <1>2, <1>3, <2>1 DEF ImportRowsInv
  <2>5. /\ dylibs' \in Seq(Dylibs \cup {Blank})
        /\ InStep(file.commands, taken + 1, dylibs')
    <3>1. CASE TakeDylib
      <4>1. lc.kind \in LoadKinds /\ lc.name # Unreadable
            /\ dylibs' = Append(dylibs, lc.name)
        BY <2>2, <3>1 DEF TakeDylib
      <4>2. PICK name \in Dylibs \cup {Blank} : name = lc.name
        BY <4>1 DEF Command
      <4>3. Append(dylibs, name) \in Seq(Dylibs \cup {Blank})
        BY <1>2, AppendFacts
      <4>4. InStep(file.commands, taken + 1, Append(dylibs, name))
        BY <1>2, <2>2, <4>1, <4>2, InStepTake
      <4> QED BY <4>1, <4>2, <4>3, <4>4
    <3>2. CASE SkipNameless \/ SkipOther
      <4>1. dylibs' = dylibs /\ (lc.kind \in LoadKinds => lc.name = Unreadable)
        BY <2>2, <3>2 DEF SkipNameless, SkipOther
      <4>2. InStep(file.commands, taken + 1, dylibs)
        BY <1>2, <2>2, <4>1, InStepSkip
      <4> QED BY <1>2, <4>1, <4>2
    <3> QED BY <1>5, <3>1, <3>2
  <2>6. DylibsInv'
    BY <1>1, <1>2, <2>1, <2>5 DEF DylibsInv
  <2>7. ImportTypeOK'
    BY <1>1, <1>2, <2>1, <2>5 DEF ImportTypeOK
  <2> QED BY <2>3, <2>4, <2>6, <2>7 DEF BindInv
<1> QED BY <1>4, <1>5

LEMMA BindsStep == BindInv /\ (TakeBind \/ EndBinds) => BindInv'
<1> SUFFICES ASSUME BindInv, TakeBind \/ EndBinds PROVE BindInv'
  OBVIOUS
<1>1. /\ ImportTypeOK /\ ImportsInv /\ DylibsInv /\ ImportRowsInv /\ stage = "binds"
      /\ UNCHANGED <<file, imports, dylibs>>
  BY DEF BindInv, TakeBind, EndBinds, Turn
<1>2. /\ file \in File /\ taken \in Nat /\ rows \in Seq(ImportRow)
      /\ Len(rows) = Len(file.legacy) + taken /\ taken <= Len(file.slots)
      /\ Len(file.legacy) \in Nat /\ Len(file.slots) \in Nat
      /\ file.slots \in Seq(BindSlot)
  BY <1>1, FileFacts DEF ImportTypeOK, ImportRowsInv
<1>3. \A s : Resolve(s)' = Resolve(s)
  BY <1>1 DEF Resolve
<1>4. CASE TakeBind
  <2>1. /\ taken < Len(file.slots) /\ taken' = taken + 1 /\ stage' = "binds"
        /\ rows' = Append(rows, Resolve(file.slots[taken + 1]))
    BY <1>1, <1>4 DEF TakeBind
  <2>2. file.slots[taken + 1] \in BindSlot
    BY <1>2, <2>1
  <2>3. PICK row \in ImportRow : row = Resolve(file.slots[taken + 1])
    BY <1>1, <2>2, ResolveType
  <2>4. PICK n \in Nat : n = Len(file.legacy)
    BY <1>2
  <2>5. /\ rows' \in Seq(ImportRow) /\ Len(rows') = n + (taken + 1)
        /\ \A k \in 1 .. (n + taken) : rows'[k] = rows[k]
        /\ rows'[n + taken + 1] = row
    <3>1. /\ Append(rows, row) \in Seq(ImportRow) /\ Len(Append(rows, row)) = Len(rows) + 1
          /\ \A k \in 1 .. Len(rows) : Append(rows, row)[k] = rows[k]
          /\ Append(rows, row)[Len(rows) + 1] = row
      BY <1>2, AppendFacts
    <3>2. rows' = Append(rows, row) /\ Len(rows) = n + taken
      BY <1>2, <2>1, <2>3, <2>4
    <3>3. Len(rows) + 1 = n + (taken + 1) /\ Len(rows) + 1 = n + taken + 1
      <4>1. taken \in Nat
        BY <1>2
      <4> QED BY <3>2, <4>1
    <3> QED BY <3>1, <3>2, <3>3
  <2>6. ImportTypeOK'
    BY <1>1, <1>2, <2>1, <2>5 DEF ImportTypeOK
  <2>7. ImportsInv' /\ DylibsInv'
    BY <1>1, <2>1 DEF ImportsInv, DylibsInv
  <2>8. ASSUME NEW k \in 1 .. (n + (taken + 1))
        PROVE  IF k <= n THEN rows'[k] = file.legacy[k]
               ELSE rows'[k] = Resolve(file.slots[k - n])
    <3>1. CASE k \in 1 .. (n + taken)
      BY <1>1, <1>2, <2>4, <2>5, <3>1 DEF ImportRowsInv
    <3>2. CASE k = n + taken + 1
      <4>1. k - n = taken + 1 /\ ~(k <= n)
        BY <1>2, <3>2
      <4> QED BY <2>3, <2>5, <3>2, <4>1
    <3>3. n \in Nat /\ taken \in Nat
      BY <1>2
    <3>4. k \in 1 .. (n + taken) \/ k = n + taken + 1
      BY <3>3
    <3> QED BY <3>1, <3>2, <3>4
  <2>9. ImportRowsInv'
    <3>1. \A k \in 1 .. Len(rows') :
            IF k <= Len(file'.legacy) THEN rows'[k] = file'.legacy[k]
            ELSE rows'[k] = Resolve(file.slots[k - Len(file.legacy)])'
      BY <1>1, <1>3, <2>4, <2>5, <2>8
    <3>2. /\ stage' = "binds" /\ Len(rows') = Len(file'.legacy) + taken'
          /\ taken' <= Len(file'.slots)
      BY <1>1, <1>2, <2>1, <2>4, <2>5
    <3> QED BY <3>1, <3>2 DEF ImportRowsInv
  <2> QED BY <2>6, <2>7, <2>9 DEF BindInv
<1>5. CASE EndBinds
  <2>1. taken = Len(file.slots) /\ taken' = 0 /\ stage' = "done" /\ rows' = rows
    BY <1>5 DEF EndBinds, Turn
  <2>2. ImportTypeOK' /\ ImportsInv' /\ DylibsInv'
    BY <1>1, <2>1 DEF ImportTypeOK, ImportsInv, DylibsInv
  <2>3. ImportRowsInv'
    <3>1. \A k \in 1 .. Len(rows') :
            IF k <= Len(file'.legacy) THEN rows'[k] = file'.legacy[k]
            ELSE rows'[k] = Resolve(file.slots[k - Len(file.legacy)])'
      BY <1>1, <1>3, <2>1 DEF ImportRowsInv
    <3> QED BY <1>1, <1>2, <2>1, <3>1 DEF ImportRowsInv
  <2> QED BY <2>2, <2>3 DEF BindInv
<1> QED BY <1>4, <1>5

LEMMA IdleStep == BindInv /\ UNCHANGED importVars => BindInv'
<1> SUFFICES ASSUME BindInv, UNCHANGED importVars PROVE BindInv'
  OBVIOUS
<1>1. UNCHANGED <<file, stage, taken, imports, dylibs, rows>>
  BY DEF importVars
<1>2. \A s : Resolve(s)' = Resolve(s)
  BY <1>1 DEF Resolve
<1>3. ImportTypeOK' /\ ImportsInv' /\ DylibsInv'
  BY <1>1 DEF BindInv, ImportTypeOK, ImportsInv, DylibsInv
<1>4. ImportRowsInv'
  BY <1>1, <1>2 DEF BindInv, ImportRowsInv
<1> QED BY <1>3, <1>4 DEF BindInv

LEMMA BindCorrect == ImportSpec => []BindInv
<1>1. BindInv /\ [ImportNext]_importVars => BindInv'
  BY LegacyStep, ImportsStep, DylibsStep, BindsStep, IdleStep DEF ImportNext, Imported
<1> QED BY InitInv, <1>1, PTL DEF ImportSpec
-----------------------------------------------------------------------------
(* No ordinal leaves the width of its field, and no addend that of an i64. *)
THEOREM ImportTypeCorrect == ImportSpec => []ImportTypeOK
<1>1. BindInv => ImportTypeOK
  BY DEF BindInv
<1> QED BY <1>1, BindCorrect, PTL

(* imports() returns the legacy rows and then a row for each chained slot, *)
(* none lost and none twice.                                               *)
THEOREM LegacyFirst == ImportSpec => []LegacyThenChained
<1>1. BindInv => LegacyThenChained
  <2> SUFFICES ASSUME BindInv PROVE LegacyThenChained
    OBVIOUS
  <2>1. /\ ImportRowsInv /\ rows \in Seq(ImportRow) /\ DOMAIN rows = 1 .. Len(rows)
        /\ stage = "done" => Len(rows) = Len(file.legacy) + Len(file.slots)
    <3>1. ImportRowsInv /\ rows \in Seq(ImportRow)
      BY DEF BindInv, ImportTypeOK
    <3>2. DOMAIN rows = 1 .. Len(rows)
      BY <3>1
    <3> QED BY <3>1, <3>2 DEF ImportRowsInv
  <2>2. \A slot : Resolve(slot).va = slot.va /\ Resolve(slot).file = slot.file
    BY DEF Resolve
  <2> QED BY <2>1, <2>2 DEF LegacyThenChained, ImportRowsInv
<1> QED BY <1>1, BindCorrect, PTL

(* A chained row has the symbol of the entry its slot names and the dylib  *)
(* that entry's ordinal counts to, whichever formats the file uses.        *)
THEOREM ResolvesRight == ImportSpec => []ResolvesAsDyld
<1>1. BindInv => ResolvesAsDyld
  <2> SUFFICES ASSUME BindInv,
                      NEW k \in DOMAIN file.slots, Len(file.legacy) + k \in DOMAIN rows,
                      NEW i \in EntryOf(file.slots[k])
               PROVE  LET row == rows[Len(file.legacy) + k]
                          entry == file.entries[i]
                      IN  /\ entry.name # Unreadable => row.name = entry.name
                          /\ row.weak = entry.weak
                          /\ AllNamed => \A dylib \in SearchedDylibs(entry) : row.dylib = dylib
                          /\ DyldOrdinal(entry.lib) <= 0 => row.dylib \in Specials \cup {Blank}
    BY DEF ResolvesAsDyld, ChainedRows
  <2> DEFINE slot == file.slots[k]
  <2>1. ImportTypeOK /\ ImportsInv /\ DylibsInv /\ ImportRowsInv /\ file \in File
    BY DEF BindInv, ImportTypeOK
  <2>2. PICK n \in Nat : n = Len(file.legacy)
    BY <2>1, FileFacts
  <2>3. /\ rows \in Seq(ImportRow) /\ imports \in Seq(Import)
        /\ dylibs \in Seq(Dylibs \cup {Blank})
    BY <2>1 DEF ImportTypeOK, Import
  <2>4. k \in Nat /\ k > 0 /\ n + k \in 1 .. Len(rows) /\ k \in 1 .. Len(file.slots)
    <3>1. DOMAIN file.slots = 1 .. Len(file.slots)
      BY <2>1, FileFacts
    <3>2. DOMAIN rows = 1 .. Len(rows)
      BY <2>3
    <3> QED BY <2>2, <3>1, <3>2
  <2>5. rows[n + k] = Resolve(slot)
    <3>1. ~(n + k <= n) /\ (n + k) - n = k
      BY <2>4
    <3> QED BY <2>1, <2>2, <2>4, <3>1 DEF ImportRowsInv
  <2>6. stage \in {"binds", "done"}
    <3>1. Len(rows) > n
      BY <2>3, <2>4
    <3> QED BY <2>1, <2>2, <2>3, <3>1 DEF ImportRowsInv, ImportTypeOK
  <2>7. /\ file.format # "Other" /\ slot.ordinal < file.count
        /\ i \in DOMAIN file.entries /\ i = slot.ordinal + 1
    BY DEF EntryOf
  <2>8. slot.ordinal \in Nat /\ file.count \in Nat
    <3>1. slot \in BindSlot
      BY <2>1, <2>4, FileFacts
    <3> QED BY <2>1, <3>1, FileFacts DEF BindSlot
  <2>9. i \in 1 .. Len(imports) /\ imports[i] = Decode(file.format, file.entries[i])
    BY <2>1, <2>6, <2>7, <2>8 DEF ImportsInv
  <2>10. PICK entry \in Raw : entry = file.entries[i]
    BY <2>1, <2>7, FileFacts
  <2>11. PICK lib \in Int : /\ lib = LibOrdinal(file.format, entry.lib)
                            /\ lib = DyldOrdinal(entry.lib)
    <3>1. entry.lib \in 0 .. (2 * LongHalf - 1)
      BY DEF Raw
    <3>2. LibOrdinal(file.format, entry.lib) \in Int
      BY <2>1, <3>1, OrdinalIsDyld, BindAssumption
    <3> QED BY <2>1, <3>1, <3>2, OrdinalIsDyld
  <2>12. /\ slot.ordinal + 1 \in DOMAIN imports
         /\ imports[slot.ordinal + 1].name
              = (IF entry.name = Unreadable THEN Blank ELSE entry.name)
         /\ imports[slot.ordinal + 1].weak = entry.weak
         /\ imports[slot.ordinal + 1].lib = lib
    <3>1. DOMAIN imports = 1 .. Len(imports)
      BY <2>3
    <3>2. imports[slot.ordinal + 1] = Decode(file.format, entry)
      BY <2>7, <2>9, <2>10
    <3>3. /\ Decode(file.format, entry).name
               = (IF entry.name = Unreadable THEN Blank ELSE entry.name)
          /\ Decode(file.format, entry).weak = entry.weak
          /\ Decode(file.format, entry).lib = LibOrdinal(file.format, entry.lib)
      BY DEF Decode
    <3> QED BY <2>7, <2>9, <2>11, <3>1, <3>2, <3>3
  <2> HIDE DEF slot
  <2>13. /\ rows[n + k].name = (IF entry.name = Unreadable THEN Blank ELSE entry.name)
         /\ rows[n + k].dylib = ResolveLib(lib, dylibs)
    BY <2>5, <2>12 DEF Resolve
  <2>14. rows[n + k].weak = entry.weak
    <3>1. entry.weak \in BOOLEAN
      BY DEF Raw
    <3>2. rows[n + k].weak = (slot.ordinal + 1 \in DOMAIN imports
                                /\ imports[slot.ordinal + 1].weak)
      BY <2>5 DEF Resolve
    <3> QED BY <2>12, <3>1, <3>2
  <2>15. lib <= 0 => rows[n + k].dylib \in Specials \cup {Blank}
    BY <2>3, <2>13, LibType
  <2>16. ASSUME AllNamed, NEW dylib \in SearchedDylibs(entry)
         PROVE  rows[n + k].dylib = dylib
    <3>1. PICK j \in Dependency(lib) : dylib = file.commands[j].name
      BY <2>11 DEF SearchedDylibs
    <3>2. /\ j \in 1 .. Len(file.commands) /\ file.commands[j].kind \in LoadKinds
          /\ Rank(file.commands, j) = lib
      BY <2>1, FileFacts DEF Dependency, Rank, Prior
    <3>3. InStep(file.commands, Len(file.commands), dylibs)
      BY <2>1, <2>6 DEF DylibsInv
    <3>4. \A h \in Prior(file.commands, Len(file.commands)) :
            file.commands[h].name # Unreadable
      BY <2>1, <2>16, FileFacts DEF AllNamed, Prior
    <3>5. j \in Prior(file.commands, Len(file.commands))
      BY <3>2 DEF Prior
    <3>6. lib \in 1 .. Len(dylibs) /\ dylibs[lib] = file.commands[j].name
      BY <3>2, <3>3, <3>4, <3>5 DEF InStep
    <3> QED BY <2>3, <2>13, <3>1, <3>6, LibType
  <2> QED BY <2>2, <2>10, <2>11, <2>13, <2>14, <2>15, <2>16
<1> QED BY <1>1, BindCorrect, PTL
=============================================================================
