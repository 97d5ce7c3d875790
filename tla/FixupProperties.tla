--------------------------- MODULE FixupProperties ---------------------------
(***************************************************************************)
(* What FixupChains is meant to guarantee.                                 *)
(***************************************************************************)
EXTENDS FixupChains

Elems(list) == {list[i] : i \in DOMAIN list}

Rows == Elems(rebases) \cup Elems(binds)

Slots(rows) == {<<row.seg, row.page, row.off>> : row \in rows}

Row == [seg: Nat, page: Nat, off: Nat, at: Nat, va: 0..MaxU, value: Nat]

(* Type invariant: the iterator never runs past its table, the walk never  *)
(* past its segments, and every row holds natural numbers, the VA a u64.   *)
TypeOK ==
  /\ image \in Image
  /\ phase \in {"collect", "walk", "done"}
  /\ cursor \in 0 .. Len(image.records)
  /\ locs \in Seq(DOMAIN image.records \cap DOMAIN image.segs)
  /\ loc \in 1 .. (Len(locs) + 1)
  /\ page \in Nat
  /\ off \in Nat \cup {NoChain}
  /\ rebases \in Seq(Row)
  /\ binds \in Seq(Row)

(* Every row is a slot the bounds check of decode_segment_chains admits:   *)
(* it starts inside the segment's on-disk extent, its eight bytes are      *)
(* inside the file, its address is the segment's plus its offset, and it   *)
(* belongs to a segment whose record says it takes part in fixups.         *)
RowsOnDisk ==
  \A row \in Rows :
    /\ row.seg \in DOMAIN image.segs
    /\ image.records[row.seg].kind = "starts"
    /\ image.records[row.seg].format \in Supported
    /\ row.at < image.segs[row.seg].filesize
    /\ image.segs[row.seg].fileoff + row.at + SlotSize <= DataLen
    /\ row.va = SatAdd(image.segs[row.seg].vmaddr, row.at)

(* The position of a row, or of the walk, as the order the code visits. *)
Before(r1, p1, o1, r2, p2, o2) ==
  \/ r1 < r2
  \/ r1 = r2 /\ p1 < p2
  \/ r1 = r2 /\ p1 = p2 /\ o1 < o2

RowBefore(a, b) == Before(a.seg, a.page, a.off, b.seg, b.page, b.off)

InOrder(list) ==
  \A i, j \in DOMAIN list : i < j => RowBefore(list[i], list[j])

(* Both lists are in strict walk order: segment by segment, page by page,  *)
(* and strictly up the addresses along a chain.  A chain can therefore not *)
(* loop, whatever its "next" fields hold, and no slot of a page is         *)
(* reported twice, as a rebase, as a bind, or as both.                     *)
WalkOrder ==
  /\ InOrder(rebases) /\ InOrder(binds)
  /\ Slots(Elems(rebases)) \cap Slots(Elems(binds)) = {}

(* The file lays out its segments properly: their address ranges do not    *)
(* overlap and end at or below the top of the address space.               *)
DisjointSegments ==
  /\ \A r \in DOMAIN image.segs :
       image.segs[r].vmaddr + image.segs[r].filesize <= MaxU
  /\ \A r, q \in DOMAIN image.segs :
       r < q => \/ image.segs[r].vmaddr + image.segs[r].filesize
                     <= image.segs[q].vmaddr
                \/ image.segs[q].vmaddr + image.segs[q].filesize
                     <= image.segs[r].vmaddr

ChainsStayInPage ==
  \A row \in Rows : row.off < image.records[row.seg].pageSize

(* The consumers index rows by address (binds_by_va, rebases_by_va in the  *)
(* ObjC, Swift, block and CFString runtimes), so one address must not get  *)
(* two rows.  That holds as long as the segments are disjoint and no chain *)
(* has run past the end of its page into the next one.                     *)
OneRowPerAddress ==
  DisjointSegments /\ ChainsStayInPage =>
    \A a, b \in Rows : a # b => a.va # b.va

(* A step of the walk never goes back to a position it has left: this is   *)
(* what makes the loop of decode_segment_chains terminate on any file.     *)
Forward ==
  [][phase = "walk" /\ phase' = "walk" =>
       Before(loc, page, off, loc', page', off')]_vars

-----------------------------------------------------------------------------
(* The abstract specification, read off the image alone. *)

(* The records the walk uses: those with page starts, of a segment that    *)
(* exists and in a supported format, as long as no unreadable entry comes  *)
(* before them.                                                            *)
Usable(im) ==
  {r \in DOMAIN im.records \cap DOMAIN im.segs :
     /\ im.records[r].kind = "starts"
     /\ im.records[r].format \in Supported
     /\ \A q \in DOMAIN im.records : q < r => im.records[q].kind # "unreadable"}

StartSlots(im) ==
  UNION {{<<r, p, im.records[r].starts[p + 1]>> :
            p \in {q \in Pages(im, r) :
                     /\ HasChain(im, r, q)
                     /\ Readable(im, r, q, im.records[r].starts[q + 1])}} :
         r \in Usable(im)}

(* The slot after s, as a set of at most one. *)
Link(im, s) ==
  LET o == NextOff(im, s[1], s[2], s[3])
  IN  IF /\ SlotAt(im, s[1], s[2], s[3]).next # 0
         /\ Readable(im, s[1], s[2], o)
      THEN {<<s[1], s[2], o>>}
      ELSE {}

Promise == INSTANCE FixupSlots
             WITH reported <- Slots(Rows), finished <- phase = "done"

(* The walk implements FixupSlots: it reports only slots that are due, and *)
(* returns only when none is left, so that every pointer of every chain of *)
(* every usable segment is in exactly one of the two lists.                *)
ReportsEverySlot == Promise!Spec

(* The safety half, [][Next] without fairness. *)
ReportsOnlyDueSlots == Promise!Init /\ [][Promise!Next]_Promise!vars
=============================================================================
