---------------------------- MODULE MCFixupChains ----------------------------
(***************************************************************************)
(* Small images for FixupProperties.  One unit is four bytes: a slot is    *)
(* two units, the strides are two and one, a page is two or three units.   *)
(***************************************************************************)
EXTENDS FixupProperties

(* ---- slots: the end of a chain, and links of one and of two strides ---- *)
Rebase0 == [bind |-> FALSE, auth |-> FALSE, value |-> 1, next |-> 0]
Rebase2 == [bind |-> FALSE, auth |-> TRUE,  value |-> 1, next |-> 2]
Bind1   == [bind |-> TRUE,  auth |-> FALSE, value |-> 0, next |-> 1]

AllSlots(kinds) == [0..(DataLen - SlotSize) -> kinds]

Starts(format, size, starts, count) ==
  [kind |-> "starts", format |-> format, pageSize |-> size,
   pageCount |-> count, starts |-> starts]

Hole(kind) == [kind |-> kind, format |-> "Other", pageSize |-> 0,
               pageCount |-> 0, starts |-> <<>>]

Seg3(vmaddr, fileoff, filesize) ==
  [vmaddr |-> vmaddr, fileoff |-> fileoff, filesize |-> filesize]

(* ---- chains: every content of the slots, every pair of page starts ----- *)

(* Two segments side by side; two that overlap in the file and at the top  *)
(* of the address space; one that claims more file than there is.          *)
ChainLayouts == {<<Seg3(4, 0, 3), Seg3(7, 3, 3)>>,
                 <<Seg3(MaxU, 0, 4), Seg3(2, 2, 4)>>,
                 <<Seg3(0, 0, 9), Seg3(9, 4, 0)>>}

FirstStarts == {<<a, b>> : a, b \in {0, 1, MultiBit, StartNone}}

ChainImages ==
  {[segs |-> layout,
    records |-> <<Starts(format, 2, starts, 3),
                  Starts("Ptr64Offset", 3, <<0>>, 1)>>,
    slots |-> slots] :
     layout \in ChainLayouts,
     format \in {"Arm64e", "Ptr64"},
     starts \in FirstStarts,
     slots \in AllSlots({Rebase0, Rebase2, Bind1})}

(* ---- records: every table of three entries, over one and two segments -- *)
RecordLayouts == {<<Seg3(0, 0, 0), Seg3(4, 0, 3)>>,
                  <<Seg3(4, 0, 3), Seg3(7, 3, 3), Seg3(10, 0, 0)>>}

Entries == {Hole("absent"), Hole("short"), Hole("unreadable"),
            Starts("Arm64e", 2, <<0>>, 2), Starts("Arm64eKernel", 3, <<0, 1>>, 2),
            Starts("Other", 2, <<0>>, 1)}

RecordImages ==
  {[segs |-> layout, records |-> <<a, b, c>>, slots |-> slots] :
     layout \in RecordLayouts, a, b, c \in Entries,
     slots \in {s \in AllSlots({Rebase0, Bind1}) : s[0] = Bind1}}

AllImages == ChainImages \cup RecordImages
=============================================================================
