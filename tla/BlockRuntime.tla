---------------------------- MODULE BlockRuntime ----------------------------
(***************************************************************************)
(* BlockRuntime: build sorts the binds of the two anchor symbols into two  *)
(* lists, ReferenceIter yields both, LiteralIter follows the first one to  *)
(* the block literals and their descriptors.                               *)
(***************************************************************************)
EXTENDS DataImage

CONSTANTS
  Copies,       \* the bit BLOCK_HAS_COPY_DISPOSE of the flags, as a number
  Signed,       \* the bit BLOCK_HAS_SIGNATURE
  LayoutSize    \* BLOCK_LAYOUT_SIZE

ASSUME BlockAssumption == {Copies, Signed, LayoutSize} \subseteq Nat \ {0}

(* imports are rows of imports(), each with its slot, the anchor it names, *)
(* if any, and whether name and dylib are strings of the file.             *)
VARIABLES
  blockPhase,   \* "imports", "build", "references", "stack", "literals",
                \* "none" or "done"
  row,          \* cursor of the loop or the iterator at work
  globalSites,  \* global_sites
  stackSites,   \* stack_sites
  blockRebases, \* rebases_by_va
  references,   \* what ReferenceIter has yielded
  literals      \* what LiteralIter has yielded

blockVars == <<image, blockPhase, row, globalSites, stackSites, blockRebases,
               references, literals>>

Empty == [va \in {} |-> 0]

BlockInit ==
  /\ blockPhase = "imports" /\ row = 0
  /\ globalSites = <<>> /\ stackSites = <<>> /\ blockRebases = Empty
  /\ references = <<>> /\ literals = <<>>

Goto(phase) == blockPhase' = phase /\ row' = 0
Step == row' = row + 1 /\ UNCHANGED blockPhase
-----------------------------------------------------------------------------
(* BlockRuntime::build *)

Narrow ==
  /\ blockPhase = "imports" /\ row = 0 /\ ~image.is64
  /\ Goto("none")
  /\ UNCHANGED <<image, globalSites, stackSites, blockRebases, references, literals>>

HasImport == blockPhase = "imports" /\ image.is64 /\ row < Len(image.imports)

Imp == image.imports[row + 1]

AddGlobal ==
  /\ HasImport /\ Imp.inFile /\ Imp.anchor = "Global"
  /\ globalSites' = Append(globalSites, Imp.va)
  /\ Step
  /\ UNCHANGED <<image, stackSites, blockRebases, references, literals>>

AddStack ==
  /\ HasImport /\ Imp.inFile /\ Imp.anchor = "Stack"
  /\ stackSites' = Append(stackSites, Imp.va)
  /\ Step
  /\ UNCHANGED <<image, globalSites, blockRebases, references, literals>>

(* Another symbol, or a string that is not part of the file. *)
SkipImport ==
  /\ HasImport
  /\ ~Imp.inFile \/ Imp.anchor \notin {"Global", "Stack"}
  /\ Step
  /\ UNCHANGED <<image, globalSites, stackSites, blockRebases, references, literals>>

EndImports ==
  /\ blockPhase = "imports" /\ image.is64 /\ row = Len(image.imports)
  /\ Goto(IF globalSites = <<>> /\ stackSites = <<>> THEN "none" ELSE "build")
  /\ UNCHANGED <<image, globalSites, stackSites, blockRebases, references, literals>>

IndexRebases ==
  /\ blockPhase = "build"
  /\ blockRebases' = RebasesByVa(image)
  /\ Goto("references")
  /\ UNCHANGED <<image, globalSites, stackSites, references, literals>>
-----------------------------------------------------------------------------
(* ReferenceIter: phase 0 and, with the cursor back at 0, phase 1. *)
YieldGlobal ==
  /\ blockPhase = "references" /\ row < Len(globalSites)
  /\ references' = Append(references, [kind |-> "Global", slot |-> globalSites[row + 1]])
  /\ Step
  /\ UNCHANGED <<image, globalSites, stackSites, blockRebases, literals>>

(* Mutant: the cursor is not set back. *)
TurnToStackLate ==
  /\ blockPhase = "references" /\ row = Len(globalSites)
  /\ blockPhase' = "stack"
  /\ UNCHANGED <<image, row, globalSites, stackSites, blockRebases, references, literals>>

TurnToStack ==
  /\ blockPhase = "references" /\ row = Len(globalSites)
  /\ Goto("stack")
  /\ UNCHANGED <<image, globalSites, stackSites, blockRebases, references, literals>>

YieldStack ==
  /\ blockPhase = "stack" /\ row < Len(stackSites)
  /\ references' = Append(references, [kind |-> "Stack", slot |-> stackSites[row + 1]])
  /\ Step
  /\ UNCHANGED <<image, globalSites, stackSites, blockRebases, literals>>

EndReferences ==
  /\ blockPhase = "stack" /\ row >= Len(stackSites)
  /\ Goto("literals")
  /\ UNCHANGED <<image, globalSites, stackSites, blockRebases, references, literals>>
-----------------------------------------------------------------------------
(* LiteralIter *)

Has(flags, bit) == (flags \div bit) % 2 = 1

(* The optional parts of a descriptor stand one behind the other. *)
CopyAt(address) == address + 2 * WordSize

(* Mutant: the signature is looked for where it is without helpers. *)
SignatureAtFixed(address, flags) == address + 2 * WordSize

SignatureAt(address, flags) ==
  address + (IF Has(flags, Copies) THEN 4 ELSE 2) * WordSize

Words(address, flags) ==
  {address, address + WordSize}
    \cup (IF Has(flags, Copies)
          THEN {CopyAt(address), CopyAt(address) + WordSize} ELSE {})
    \cup (IF Has(flags, Signed)
          THEN {SignatureAt(address, flags), SignatureAt(address, flags) + WordSize}
          ELSE {})

(* decode_descriptor: any slot that cannot be read, or a size no block     *)
(* has, loses the whole descriptor.                                        *)
Descriptor(address, flags) ==
  LET pointer(slot) == Pointer(image, blockRebases, slot)
      text(slot) == ReadCStr(image, pointer(slot))
      helper(slot) == IF Has(flags, Copies) THEN pointer(slot) ELSE None
      string(slot) == IF Has(flags, Signed) THEN text(slot) ELSE None
      copy == CopyAt(address)
      signature == SignatureAt(address, flags)
  IN  IF /\ address # 0
         /\ \A slot \in Words(address, flags) : Readable(image, slot)
         /\ Word(image, address + WordSize) >= LayoutSize
      THEN [size |-> Word(image, address + WordSize),
            copy |-> helper(copy), dispose |-> helper(copy + WordSize),
            signature |-> string(signature), layout |-> string(signature + WordSize)]
      ELSE None

Site == globalSites[row + 1]

ReservedAt(address) == address + WordSize + HalfSize

(* Flags, reserved, invoke and the descriptor, each read through the       *)
(* segment table on its own: where it is and how many bytes it has.        *)
Prefix ==
  {<<Site + WordSize, HalfSize>>, <<ReservedAt(Site), HalfSize>>,
   <<Site + 2 * WordSize, WordSize>>, <<Site + 3 * WordSize, WordSize>>}

HasSite == blockPhase = "literals" /\ row < Len(globalSites)

Literal(address, flags, target) ==
  [address |-> address, flags |-> flags, reserved |-> Low(image, ReservedAt(address)),
   invoke |-> Pointer(image, blockRebases, address + 2 * WordSize),
   target |-> target, descriptor |-> Descriptor(target, flags)]

DecodeLiteral ==
  /\ HasSite
  /\ \A part \in Prefix : ReadBytes(image, part[1], part[2])
  /\ \E flags \in {Low(image, Site + WordSize)},
        target \in {Pointer(image, blockRebases, Site + 3 * WordSize)} :
       literals' = Append(literals, Literal(Site, flags, target))
  /\ Step
  /\ UNCHANGED <<image, globalSites, stackSites, blockRebases, references>>

SkipLiteral ==
  /\ HasSite
  /\ \E part \in Prefix : ~ReadBytes(image, part[1], part[2])
  /\ Step
  /\ UNCHANGED <<image, globalSites, stackSites, blockRebases, references, literals>>

EndLiterals ==
  /\ blockPhase = "literals" /\ row = Len(globalSites)
  /\ Goto("done")
  /\ UNCHANGED <<image, globalSites, stackSites, blockRebases, references, literals>>

BlockStep ==
  \/ Narrow \/ AddGlobal \/ AddStack \/ SkipImport \/ EndImports \/ IndexRebases
  \/ YieldGlobal \/ TurnToStack \/ YieldStack \/ EndReferences
  \/ DecodeLiteral \/ SkipLiteral \/ EndLiterals
=============================================================================
