------------------------------- MODULE MCVmMap -------------------------------
(***************************************************************************)
(* Every table of up to two segments on an address space of eight, with    *)
(* sizes in memory below, at and above the size on disk, empty segments,   *)
(* overlaps, and sums of addresses and of offsets that overflow; and three *)
(* segments of which the middle one is any.                                *)
(***************************************************************************)
EXTENDS VmMap

Some_ == [vmaddr: {0, 2, 4, 6}, vmsize: {0, 2, 3}, fileoff: {0, 3, 6}, filesize: {0, 1, 3}]

SegmentTables ==
  UNION {[1..n -> Some_] : n \in 0..2}
    \cup {<<[vmaddr |-> 0, vmsize |-> 2, fileoff |-> 0, filesize |-> 0], s,
            [vmaddr |-> 5, vmsize |-> 2, fileoff |-> 1, filesize |-> 2]>> : s \in Some_}
==============================================================================
