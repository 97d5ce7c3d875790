--------------------------- MODULE ObjcProperties ---------------------------
(***************************************************************************)
(* What ObjcRuntime is meant to guarantee, said of the image itself and    *)
(* not of the maps the code builds from it.                                *)
(***************************************************************************)
EXTENDS ObjcRuntime

(* What the slot points to: the target of the last rebase row that names   *)
(* the slot, or the address its bytes hold, or None.                       *)
Pointee(im, slot) ==
  LET hits == {k \in DOMAIN im.rebaseRows : im.rebaseRows[k].va = slot}
  IN  IF hits = {}
      THEN IF ReadU64(im, slot) = None THEN None
           ELSE StripSignature(ReadU64(im, slot))
      ELSE im.rebaseRows[CHOOSE k \in hits : \A h \in hits : h <= k].target

(* The positions at which a class is listed. *)
ListedAt(im, va) == {k \in DOMAIN Slots(im) : Pointee(im, Slots(im)[k]) = va}

(* Class a is listed before class b ever is. *)
ListedBefore(im, a, b) ==
  \E k \in ListedAt(im, a) : \A h \in ListedAt(im, b) : k < h

Decodable(im, va) ==
  ReadBytes(im, va, ClassSize) /\ ReadBytes(im, va + BitsAt, WordSize)

Instances == {i \in DOMAIN classes : ~classes[i].meta}

(* mod.rs: classes() walks __objc_classlist and __objc_nlclslist,          *)
(* "de-duplicating by class_t VM address": an instance row stands for a    *)
(* listed class, none is there twice, they come in the order in which the  *)
(* classes are first listed, and in the end none is missing.               *)
EveryClassOnce ==
  /\ \A i \in Instances :
       classes[i].address # 0 /\ ListedAt(image, classes[i].address) # {}
  /\ \A i, j \in Instances :
       i < j => ListedBefore(image, classes[i].address, classes[j].address)
  /\ phase \in {"refs", "done"} =>
       \A k \in DOMAIN Slots(image) :
         LET va == Pointee(image, Slots(image)[k])
         IN  va \notin {None, 0} /\ Decodable(image, va)
               => \E i \in Instances : classes[i].address = va

(* class.rs: "the iterator yields two consecutive rows: the instance       *)
(* class, then its metaclass".  A metaclass row comes right after the      *)
(* instance whose isa it is, and no metaclass is followed further, so the  *)
(* self-loop of a root metaclass cannot keep the iterator going.           *)
MetaFollowsInstance ==
  \A i \in DOMAIN classes :
    classes[i].meta =>
      /\ i > 1 /\ ~classes[i - 1].meta
      /\ classes[i].address = classes[i - 1].isa
      /\ classes[i].address # classes[i - 1].address

(* A bits slot that is a rebase with fast flags (a Swift class on an image *)
(* with chained fixups).                                                   *)
FlaggedRebase(class) ==
  class.flags # 0 /\ \E k \in DOMAIN image.rebaseRows :
                       image.rebaseRows[k].va = class.address + BitsAt

NameOf(class) == RoName(image, rebasesByVa, class)

SuperNameOf(class) == SuperName(image, rebasesByVa, bindsByVa, class)

(* Two decoders walk from a class to its name: class.ro().name() and       *)
(* decode_class_name.  For a superclass that is a row itself, as for a     *)
(* class reference, both say the same.                                     *)
NamesAgree ==
  \A i \in DOMAIN classes :
    NameOf(classes[i]) # None /\ ~FlaggedRebase(classes[i]) =>
      /\ \A j \in DOMAIN classes :
           classes[j].superclass = classes[i].address
             => SuperNameOf(classes[j]) = NameOf(classes[i])
      /\ \A k \in DOMAIN refs :
           Pointee(image, image.refSlots[k]) = classes[i].address =>
             refs[k] = [kind |-> "Local", address |-> classes[i].address,
                        name |-> NameOf(classes[i])]

(* The last import row for a slot whose strings lie in the file. *)
BoundTo(im, slot) ==
  LET hits == {k \in DOMAIN im.imports :
                 /\ im.imports[k].va = slot
                 /\ im.imports[k].sym # Static /\ im.imports[k].inFile}
  IN  {im.imports[k].sym : k \in {h \in hits : \A g \in hits : g <= h}}

(* refs.rs: a reference slot that is a bind comes out as External with the *)
(* symbol bound there, as long as the bytes of the chain entry do not      *)
(* happen to be a mapped address; and every slot gets a row of its own.    *)
ForeignRefsAreExternal ==
  /\ \A k \in DOMAIN refs : \A sym \in BoundTo(image, image.refSlots[k]) :
       ~Mapped(image, OrZero(Pointee(image, image.refSlots[k]))) =>
         refs[k] = [kind |-> "External", address |-> image.refSlots[k], name |-> sym]
  /\ phase = "done" => Len(refs) = Len(image.refSlots)

(* The iterators come to an end on every image. *)
Terminates == <>(phase = "done")
-----------------------------------------------------------------------------
(* A comment the code does not live up to. *)

(* class.rs: superclass_name is "Some(name) when the superclass pointer    *)
(* resolves in this image (a class with a matching class_t VA)".           *)
SuperclassIsNamed ==
  \A i, j \in DOMAIN classes :
    classes[j].superclass = classes[i].address /\ NameOf(classes[i]) # None
      => SuperNameOf(classes[j]) # None
=============================================================================
