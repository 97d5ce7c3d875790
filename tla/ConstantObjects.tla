--------------------------- MODULE ConstantObjects ---------------------------
(***************************************************************************)
(* blocks() and cfstrings() of one image.  Each returns a runtime that     *)
(* owns what it needs, and the caller may drain the iterators of both in   *)
(* any order.                                                              *)
(***************************************************************************)
EXTENDS BlockRuntime, CfStrings

CONSTANTS
  Images        \* the images they are called on

SegmentRow == [vmaddr: Nat, vmsize: Nat, fileoff: Nat, filesize: Nat]

SectionRow == [malformed: {TRUE}]
                \cup [malformed: {FALSE}, name: STRING, address: Nat, offset: Nat, size: Nat]

(* Offsets, addresses and words are unsigned, and every table is a list. *)
IsImage(im) ==
  /\ im.is64 \in BOOLEAN /\ im.size \in Nat
  /\ im.segments \in Seq(SegmentRow) /\ im.tables \in Seq(Seq(SectionRow))
  /\ im.words \in [DOMAIN im.words -> Nat] /\ im.text \in [DOMAIN im.text -> Nat]
  /\ im.rebases \in Seq([va: Nat, target: Nat])
  /\ im.imports \in Seq([va: Nat, anchor: STRING, inFile: BOOLEAN])

ASSUME ImagesAssumption == \A im \in Images : IsImage(im)

vars == <<blockVars, cfVars>>

Init == image \in Images /\ BlockInit /\ CfInit

Blocks ==
  /\ BlockStep
  /\ UNCHANGED <<cfPhase, taken, current, section, cfRebases, cursor, strings>>

Strings ==
  /\ CfStep
  /\ UNCHANGED <<blockPhase, row, globalSites, stackSites, blockRebases,
                 references, literals>>

Ended == blockPhase \in {"none", "done"} /\ cfPhase \in {"none", "done"}

Returned == Ended /\ UNCHANGED vars

Next == Blocks \/ Strings \/ Returned

Spec == Init /\ [][Next]_vars /\ WF_vars(Blocks \/ Strings)
-----------------------------------------------------------------------------
(* The binds of an anchor, by their places in imports(), and those of them *)
(* whose symbol and library are named by strings of the file.              *)
Anchored(anchor) == {k \in DOMAIN image.imports : image.imports[k].anchor = anchor}

Kept(anchor) == {k \in Anchored(anchor) : image.imports[k].inFile}

Bind(anchor, k) == [kind |-> anchor, slot |-> image.imports[k].va]

(* block.rs promises "every Blocks-anchor bind", "Global then Stack, in    *)
(* bind order", and no runtime at all only of an image without such a bind *)
(* (lines 316-317 and 67-69).  Of every bind that is true only where the   *)
(* library is an ordinary one: dyld's special ordinals get their names     *)
(* from the program (fixup.rs:1107-1112), which are no strings of the      *)
(* file, and the bind is dropped (block.rs:260-265).  What holds is that   *)
(* those binds are lost and no others: the references are the kept binds,  *)
(* each once and in that order, and there is no runtime only if none of    *)
(* either anchor is kept, although some may be bound.                      *)
ReferencesInOrder ==
  /\ blockPhase \in {"literals", "done"} =>
       \E n \in 0 .. Len(references) :
         \E global \in Listings(Kept("Global"), n),
            stack \in Listings(Kept("Stack"), Len(references) - n) :
           \A i \in DOMAIN references :
             references[i] = IF i <= n THEN Bind("Global", global[i])
                                       ELSE Bind("Stack", stack[i - n])
  /\ blockPhase = "none" /\ image.is64 => Kept("Global") = {} /\ Kept("Stack") = {}

(* The kept global binds whose literal can be read up to its descriptor. *)
ReadableSites ==
  {k \in Kept("Global") :
     LET va == image.imports[k].va
     IN  /\ ReadBytes(image, va + WordSize, HalfSize)
         /\ ReadBytes(image, va + WordSize + HalfSize, HalfSize)
         /\ Readable(image, va + 2 * WordSize) /\ Readable(image, va + 3 * WordSize)}

(* block.rs: "Per-literal decode failures ... yield descriptor = None      *)
(* rather than dropping the row": there is a row for each global site that *)
(* is kept and whose flags, reserved, invoke and descriptor slots can be   *)
(* read, in bind order, whatever the bytes there say.                      *)
EverySiteHasRow ==
  blockPhase = "done" =>
    \E at \in Listings(ReadableSites, Len(literals)) :
      \A i \in DOMAIN literals : literals[i].address = image.imports[at[i]].va

(* What the compiler wrote is what comes out: invoke, flags, and a         *)
(* descriptor whose optional parts are where the flags put them, with      *)
(* chained fixups and without, and no literal is missing in the end.       *)
(* image.blocks has what was written.                                      *)
LiteralsAsWritten ==
  /\ \A i \in DOMAIN literals :
       literals[i].address \in DOMAIN image.blocks =>
         literals[i] = image.blocks[literals[i].address]
  /\ EverySiteHasRow

(* binary.rs: the order of sections() is "segment-major, section-minor".   *)
(* The section that is decoded is the first of that name in this order,    *)
(* whatever tables without rows and malformed rows stand around it, and    *)
(* there is none only if no table has one.                                 *)
FirstSectionTaken ==
  LET named(t) == {r \in DOMAIN image.tables[t] :
                     /\ ~image.tables[t][r].malformed
                     /\ image.tables[t][r].name = "cfstring"}
      with == {t \in DOMAIN image.tables : named(t) # {}}
  IN  /\ cfPhase \in {"walk", "done"} =>
           with # {} /\ section = image.tables[Min(with)][Min(named(Min(with)))]
      /\ cfPhase = "none" => with = {} \/ ~image.is64

(* cfstring.rs: "the row count stays in sync with the on-disk quadruple    *)
(* count", one row for each, at its address.                               *)
RowsMatchQuadruples ==
  cfPhase = "done" =>
    [i \in DOMAIN strings |-> strings[i].address]
      = [i \in 1 .. section.size \div Stride |-> section.address + (i - 1) * Stride]

(* The text of a row is the one its quadruple was written for, in both     *)
(* encodings and pointer formats, and in the end no quadruple lacks its    *)
(* row.  image.cfstrings has what was written.                             *)
StringsAsWritten ==
  /\ \A i \in DOMAIN strings :
       strings[i].address \in DOMAIN image.cfstrings =>
         strings[i].body = image.cfstrings[strings[i].address]
  /\ RowsMatchQuadruples
=============================================================================
