----------------------------- MODULE ObjcRuntime -----------------------------
(***************************************************************************)
(* ObjcRuntime::build and the iterators over classes and references.       *)
(*                                                                         *)
(* build turns the rows of imports() and chained_rebases() into two maps   *)
(* from slot address to meaning.  Then ClassIter::new drains the two class *)
(* lists into a queue without duplicates, ClassIter::next hands out every  *)
(* class followed by its metaclass, and next_ref_target explains the slots *)
(* of a reference section one by one.                                      *)
(***************************************************************************)
EXTENDS ObjcImage

CONSTANTS
  Images,       \* the images build may be called on
  Static        \* a string that is no part of the image's bytes

(* lo, end, raw, strings: see ObjcImage.  imports and rebaseRows are what  *)
(* MachoBinary hands over; a symbol or dylib may be a string of the        *)
(* program instead of the file ("", "self", "flat-namespace", ...).        *)
(* classList, nlclslist and refSlots are the addresses of the slots of     *)
(* __objc_classlist, __objc_nlclslist and a reference section.             *)
Import == [va: Nat, sym: Names \cup {Static}, inFile: BOOLEAN]

RebaseRow == [va: Nat, target: Nat]

ASSUME ImagesAssumption ==
  \A im \in Images :
    /\ im.lo \in Nat /\ im.end \in Nat
    /\ \A va \in im.lo .. (im.end - WordSize) : im.raw[va] \in Nat
    /\ \A va \in DOMAIN im.strings : im.strings[va] \in Names
    /\ im.imports \in Seq(Import) /\ im.rebaseRows \in Seq(RebaseRow)
    /\ im.classList \in Seq(Nat) /\ im.nlclslist \in Seq(Nat)
    /\ im.refSlots \in Seq(Nat)

VARIABLES
  image,        \* the image, never written
  phase,        \* "binds", "rebases", "collect", "emit", "refs" or "done"
  cursor,       \* rows or slots taken in this phase
  bindsByVa,    \* binds_by_va, without the dylib
  rebasesByVa,  \* rebases_by_va
  classAddrs,   \* "ordered", then what is left of class_addrs
  pendingMeta,  \* pending_meta
  classes,      \* the rows ClassIter has yielded
  refs          \* the RefTargets yielded

vars == <<image, phase, cursor, bindsByVa, rebasesByVa, classAddrs,
          pendingMeta, classes, refs>>

Empty == [va \in {} |-> 0]

Insert(map, key, value) ==
  [va \in DOMAIN map \cup {key} |-> IF va = key THEN value ELSE map[va]]

Elems(list) == {list[i] : i \in DOMAIN list}
-----------------------------------------------------------------------------
Init ==
  /\ image \in Images
  /\ phase = "binds"
  /\ cursor = 0
  /\ bindsByVa = Empty /\ rebasesByVa = Empty
  /\ classAddrs = <<>> /\ pendingMeta = None
  /\ classes = <<>> /\ refs = <<>>

Turn(from, to) == phase = from /\ phase' = to /\ cursor' = 0

Advance == cursor' = cursor + 1 /\ UNCHANGED <<image, phase>>

(* reborrow_into_data finds both strings inside the file. *)
Imp == image.imports[cursor + 1]

IndexBind ==
  /\ phase = "binds"
  /\ cursor < Len(image.imports)
  /\ Imp.sym # Static /\ Imp.inFile
  /\ bindsByVa' = Insert(bindsByVa, Imp.va, Imp.sym)
  /\ Advance
  /\ UNCHANGED <<rebasesByVa, classAddrs, pendingMeta, classes, refs>>

DropBind ==
  /\ phase = "binds"
  /\ cursor < Len(image.imports)
  /\ Imp.sym = Static \/ ~Imp.inFile
  /\ Advance
  /\ UNCHANGED <<bindsByVa, rebasesByVa, classAddrs, pendingMeta, classes, refs>>

EndBinds ==
  /\ Turn("binds", "rebases")
  /\ cursor = Len(image.imports)
  /\ UNCHANGED <<image, bindsByVa, rebasesByVa, classAddrs, pendingMeta,
                 classes, refs>>

IndexRebase ==
  /\ phase = "rebases"
  /\ cursor < Len(image.rebaseRows)
  /\ LET row == image.rebaseRows[cursor + 1]
     IN  rebasesByVa' = Insert(rebasesByVa, row.va, row.target)
  /\ Advance
  /\ UNCHANGED <<bindsByVa, classAddrs, pendingMeta, classes, refs>>

EndRebases ==
  /\ Turn("rebases", "collect")
  /\ cursor = Len(image.rebaseRows)
  /\ UNCHANGED <<image, bindsByVa, rebasesByVa, classAddrs, pendingMeta,
                 classes, refs>>
-----------------------------------------------------------------------------
(* ClassIter::new: the slots of the lazy list, then of the non-lazy one. *)
Slots(im) == im.classList \o im.nlclslist

Listed == OrZero(ResolvePointer(image, rebasesByVa, Slots(image)[cursor + 1]))

CollectClass ==
  /\ phase = "collect"
  /\ cursor < Len(Slots(image))
  /\ Listed # 0
  /\ Listed \notin Elems(classAddrs)
  /\ classAddrs' = Append(classAddrs, Listed)
  /\ Advance
  /\ UNCHANGED <<bindsByVa, rebasesByVa, pendingMeta, classes, refs>>

(* Mutant: an empty slot ends the list. *)
SkipSlotAndRest ==
  /\ phase = "collect"
  /\ cursor < Len(Slots(image))
  /\ Listed = 0 \/ Listed \in Elems(classAddrs)
  /\ cursor' = Len(Slots(image))
  /\ UNCHANGED <<image, phase, bindsByVa, rebasesByVa, classAddrs,
                 pendingMeta, classes, refs>>

(* A null or unreadable slot, or a class already listed. *)
SkipSlot ==
  /\ phase = "collect"
  /\ cursor < Len(Slots(image))
  /\ Listed = 0 \/ Listed \in Elems(classAddrs)
  /\ Advance
  /\ UNCHANGED <<bindsByVa, rebasesByVa, classAddrs, pendingMeta, classes, refs>>

EndCollect ==
  /\ Turn("collect", "emit")
  /\ cursor = Len(Slots(image))
  /\ UNCHANGED <<image, bindsByVa, rebasesByVa, classAddrs, pendingMeta,
                 classes, refs>>

(* ClassIter::next with a metaclass pending. *)
Meta == DecodeClass(image, rebasesByVa, pendingMeta, TRUE)

(* Mutant: the metaclass's own isa is followed in turn. *)
EmitMetaChain ==
  /\ phase = "emit" /\ pendingMeta # None
  /\ \E class \in Meta :
       /\ classes' = Append(classes, class)
       /\ pendingMeta' = IF class.isa # 0 /\ class.isa # pendingMeta
                         THEN class.isa ELSE None
  /\ UNCHANGED <<image, phase, cursor, bindsByVa, rebasesByVa, classAddrs, refs>>

EmitMeta ==
  /\ phase = "emit" /\ pendingMeta # None
  /\ \E class \in Meta : classes' = Append(classes, class)
  /\ pendingMeta' = None
  /\ UNCHANGED <<image, phase, cursor, bindsByVa, rebasesByVa, classAddrs, refs>>

DropMeta ==
  /\ phase = "emit" /\ pendingMeta # None
  /\ Meta = {}
  /\ pendingMeta' = None
  /\ UNCHANGED <<image, phase, cursor, bindsByVa, rebasesByVa, classAddrs,
                 classes, refs>>

(* ClassIter::next without one: the next address that decodes. *)
Class == DecodeClass(image, rebasesByVa, Head(classAddrs), FALSE)

EmitClass ==
  /\ phase = "emit" /\ pendingMeta = None
  /\ classAddrs # <<>>
  /\ \E class \in Class :
       /\ classes' = Append(classes, class)
       /\ pendingMeta' = IF class.isa # 0 /\ class.isa # class.address
                         THEN class.isa ELSE None
  /\ classAddrs' = Tail(classAddrs)
  /\ UNCHANGED <<image, phase, cursor, bindsByVa, rebasesByVa, refs>>

(* Mutant: a class that does not decode is tried again. *)
SkipClassStuck ==
  /\ phase = "emit" /\ pendingMeta = None
  /\ classAddrs # <<>>
  /\ Class = {}
  /\ UNCHANGED vars

SkipClass ==
  /\ phase = "emit" /\ pendingMeta = None
  /\ classAddrs # <<>>
  /\ Class = {}
  /\ classAddrs' = Tail(classAddrs)
  /\ UNCHANGED <<image, phase, cursor, bindsByVa, rebasesByVa, pendingMeta,
                 classes, refs>>

EndClasses ==
  /\ Turn("emit", "refs")
  /\ pendingMeta = None
  /\ classAddrs = <<>>
  /\ UNCHANGED <<image, bindsByVa, rebasesByVa, classAddrs, pendingMeta,
                 classes, refs>>
-----------------------------------------------------------------------------
(* next_ref_target for a slot of __objc_classrefs or __objc_superrefs. *)

(* Mutant: a bind is looked up only for a slot that reads as null. *)
RefTargetZeroBinds(slot) ==
  LET target == OrZero(ResolvePointer(image, rebasesByVa, slot))
      name   == DecodeClassName(image, rebasesByVa, target)
  IN  IF target # 0
      THEN [kind |-> IF name # None THEN "Local" ELSE "Unresolved",
            address |-> target, name |-> name]
      ELSE [kind |-> IF slot \in DOMAIN bindsByVa THEN "External" ELSE "Unresolved",
            address |-> slot,
            name |-> IF slot \in DOMAIN bindsByVa THEN bindsByVa[slot] ELSE None]

RefTarget(slot) ==
  LET target == OrZero(ResolvePointer(image, rebasesByVa, slot))
      name   == DecodeClassName(image, rebasesByVa, target)
      bound  == slot \in DOMAIN bindsByVa
  IN  IF target # 0 /\ (name # None \/ (~bound /\ Mapped(image, target)))
      THEN [kind |-> "Local", address |-> target, name |-> name]
      ELSE IF bound
      THEN [kind |-> "External", address |-> slot, name |-> bindsByVa[slot]]
      ELSE [kind |-> "Unresolved", address |-> slot, name |-> None]

TakeRef ==
  /\ phase = "refs"
  /\ cursor < Len(image.refSlots)
  /\ refs' = Append(refs, RefTarget(image.refSlots[cursor + 1]))
  /\ Advance
  /\ UNCHANGED <<bindsByVa, rebasesByVa, classAddrs, pendingMeta, classes>>

EndRefs ==
  /\ Turn("refs", "done")
  /\ cursor = Len(image.refSlots)
  /\ UNCHANGED <<image, bindsByVa, rebasesByVa, classAddrs, pendingMeta,
                 classes, refs>>

Returned == phase = "done" /\ UNCHANGED vars

Build == IndexBind \/ DropBind \/ EndBinds \/ IndexRebase \/ EndRebases

Iterate == \/ CollectClass \/ SkipSlot \/ EndCollect
           \/ EmitMeta \/ DropMeta \/ EmitClass \/ SkipClass \/ EndClasses
           \/ TakeRef \/ EndRefs

Next == Build \/ Iterate \/ Returned

Spec == Init /\ [][Next]_vars /\ WF_vars(Build \/ Iterate)
=============================================================================
