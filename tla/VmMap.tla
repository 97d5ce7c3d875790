------------------------------- MODULE VmMap -------------------------------
(***************************************************************************)
(* vm_to_file_offset_in: from an address to the place of its byte in the   *)
(* file.  Every walker reads through it.  The loop takes one segment a     *)
(* step, in the order of the load commands, and sums have to fit in Limit  *)
(* (2^64).                                                                 *)
(***************************************************************************)
EXTENDS Integers, Sequences

CONSTANTS
  Limit,        \* 2^64
  Tables,       \* the segment tables it may be given
  NoOffset      \* the Option that holds nothing

ASSUME MapAssumption ==
  /\ Limit \in Nat \ {0}
  /\ NoOffset \notin Nat

Address == 0 .. Limit - 1

Segment == [vmaddr: Address, vmsize: Address, fileoff: Address, filesize: Address]

ASSUME TableAssumption == Tables \subseteq Seq(Segment)

VARIABLES
  segments,     \* the table, never written
  vmaddr,       \* the address asked for
  passed,       \* segments the loop has left behind
  status,       \* "searching" or "returned"
  answer        \* what it returned

mapVars == <<segments, vmaddr, passed, status, answer>>

MapInit ==
  /\ segments \in Tables
  /\ vmaddr \in Address
  /\ passed = 0
  /\ status = "searching"
  /\ answer = NoOffset

Seg == segments[passed + 1]

Searching == status = "searching" /\ passed < Len(segments)

(* vmaddr + vmsize is no address. *)
Overflows(seg) == seg.vmaddr + seg.vmsize >= Limit

(* The segment has the address, and something in the file. *)
Covers(seg, va) ==
  seg.vmaddr <= va /\ va < seg.vmaddr + seg.vmsize /\ seg.filesize > 0

Delta == vmaddr - Seg.vmaddr

Return(value) ==
  /\ answer' = value
  /\ status' = "returned"
  /\ UNCHANGED <<segments, vmaddr, passed>>

(* Mutant: the first segment that is not it ends the search. *)
PassAll ==
  /\ Searching
  /\ ~Overflows(Seg) /\ ~Covers(Seg, vmaddr)
  /\ passed' = Len(segments)
  /\ UNCHANGED <<segments, vmaddr, status, answer>>

Pass ==
  /\ Searching
  /\ ~Overflows(Seg) /\ ~Covers(Seg, vmaddr)
  /\ passed' = passed + 1
  /\ UNCHANGED <<segments, vmaddr, status, answer>>

(* The `?` of checked_add leaves the function. *)
Abort == Searching /\ Overflows(Seg) /\ Return(NoOffset)

(* Mutant: the size in memory bounds the address, not the size on disk. *)
HitTail ==
  /\ Searching
  /\ ~Overflows(Seg) /\ Covers(Seg, vmaddr)
  /\ Return(IF Seg.fileoff + Delta < Limit THEN Seg.fileoff + Delta ELSE NoOffset)

(* The byte is on disk. *)
Hit ==
  /\ Searching
  /\ ~Overflows(Seg) /\ Covers(Seg, vmaddr)
  /\ Delta < Seg.filesize
  /\ Return(IF Seg.fileoff + Delta < Limit THEN Seg.fileoff + Delta ELSE NoOffset)

(* The byte is in the part that exists in memory only. *)
Bss ==
  /\ Searching
  /\ ~Overflows(Seg) /\ Covers(Seg, vmaddr)
  /\ Delta >= Seg.filesize
  /\ Return(NoOffset)

Exhausted ==
  /\ status = "searching" /\ passed = Len(segments)
  /\ Return(NoOffset)

Answered == status = "returned" /\ UNCHANGED mapVars

Work == Pass \/ Abort \/ Hit \/ Bss \/ Exhausted

MapNext == Work \/ Answered

MapSpec == MapInit /\ [][MapNext]_mapVars /\ WF_mapVars(Work)
-----------------------------------------------------------------------------
(* Type invariant; an offset is a word. *)
MapTypeOK ==
  /\ segments \in Seq(Segment)
  /\ vmaddr \in Address
  /\ passed \in 0 .. Len(segments)
  /\ status \in {"searching", "returned"}
  /\ answer \in Address \cup {NoOffset}

(* seg holds the byte of va, in memory and on disk. *)
Backs(seg, va) == /\ seg.vmaddr <= va /\ va < seg.vmaddr + seg.vmsize
                  /\ va - seg.vmaddr < seg.filesize

(* An offset that is returned is the place of the address in a segment     *)
(* that holds it on disk: no walker reads a byte of some other segment.    *)
OffsetIsBacked ==
  answer # NoOffset =>
    \E k \in DOMAIN segments :
      /\ Backs(segments[k], vmaddr)
      /\ answer - segments[k].fileoff = vmaddr - segments[k].vmaddr

Disjoint ==
  \A j, k \in DOMAIN segments :
    j # k => \/ segments[j].vmaddr + segments[j].vmsize <= segments[k].vmaddr
             \/ segments[k].vmaddr + segments[k].vmsize <= segments[j].vmaddr

(* No segment up to the k-th leaves the address space. *)
SoundUpTo(k) == \A j \in 1 .. k : ~Overflows(segments[j])

(* In a table of disjoint segments, an address that some segment holds on  *)
(* disk is found, whatever stands behind that segment: a malformed segment *)
(* costs the addresses of later ones, and no others.                       *)
BackedIsFound ==
  status = "returned" /\ Disjoint =>
    \A k \in DOMAIN segments :
      /\ Backs(segments[k], vmaddr) /\ SoundUpTo(k)
      /\ segments[k].fileoff + segments[k].filesize < Limit
      => answer = segments[k].fileoff + (vmaddr - segments[k].vmaddr)
=============================================================================
