--------------------------- MODULE SwiftContexts ---------------------------
(***************************************************************************)
(* TypeIter over __swift5_types, and for every type it yields the walk of  *)
(* ParentChain from which qualified_name is built.                         *)
(*                                                                         *)
(* A context descriptor opens with flags, a parent and a name, the last    *)
(* two 32-bit offsets relative to their own slots (at +4 and +8).  Both    *)
(* come from the file: a parent may lead anywhere, also back down.         *)
(***************************************************************************)
EXTENDS Integers, Sequences

CONSTANTS
  Images,       \* the images types() may be called on
  Limit,        \* 2^64
  MaxHops,      \* names a walk keeps at most (a cycle has no last one)
  Names,        \* what strings can say
  None          \* the Option that holds nothing

Context == [parent: Int, named: BOOLEAN, name: Int]

(* slots[i] is a slot of the section, va its address and rel its content;  *)
(* readable[va] the number of bytes read_bytes can return from va on;      *)
(* contexts[va] what the descriptor there says; strings[va] the text at va.*)
IsImage(im) ==
  /\ im.slots \in Seq([va: Nat, rel: Int])
  /\ DOMAIN im.contexts \subseteq Nat
  /\ im.contexts \in [DOMAIN im.contexts -> Context]
  /\ im.readable \in [DOMAIN im.contexts -> Nat]
  /\ im.strings \in [DOMAIN im.strings -> Names]

ASSUME ContextAssumption ==
  /\ Limit \in Nat \ {0}
  /\ MaxHops \in Nat
  /\ None \notin Names
  /\ \A im \in Images : IsImage(im)

VARIABLES
  image,        \* the image, never written
  phase,        \* "types", "parents" or "done"
  cursor,       \* slots taken
  types,        \* the TypeDescriptors yielded
  next,         \* next_descriptor_va
  hops,         \* the names the chain has yielded, the first MaxHops
  qualified     \* the names qualified_name has returned, outermost part first

vars == <<image, phase, cursor, types, next, hops, qualified>>

(* relative_pointer: wrapping_add of the sign-extended offset. *)
RelativePointer(base, rel) == (base + rel) % Limit

(* read_bytes(va, len) is Some, and the sum the code checks fits. *)
Readable(va, len) ==
  va \in DOMAIN image.readable /\ len <= image.readable[va] /\ va + 8 < Limit

ReadCStr(va) ==
  IF va # 0 /\ va \in DOMAIN image.strings THEN image.strings[va] ELSE None

(* A null offset is a null parent. *)
ParentOf(va) ==
  IF image.contexts[va].parent = 0 THEN 0
  ELSE RelativePointer(va + 4, image.contexts[va].parent)

(* read_context_name *)
ContextName(va) ==
  LET rel == image.contexts[va].name
  IN  IF image.contexts[va].named /\ Readable(va, 12) /\ rel # 0
      THEN ReadCStr(RelativePointer(va + 8, rel)) ELSE None

(* The name decode_type_descriptor cannot do without. *)
TypeName(va) == ReadCStr(RelativePointer(va + 8, image.contexts[va].name))
-----------------------------------------------------------------------------
Init ==
  /\ image \in Images
  /\ phase = "types"
  /\ cursor = 0
  /\ types = <<>>
  /\ next = 0 /\ hops = <<>>
  /\ qualified = <<>>

(* The slot under the cursor, and the descriptor it points to. *)
Slot == image.slots[cursor + 1]

Pointee == RelativePointer(Slot.va, Slot.rel)

HasSlot == phase = "types" /\ cursor < Len(image.slots)

IsType == Slot.rel # 0 /\ Readable(Pointee, 20) /\ TypeName(Pointee) # None

(* Mutant: the first row that does not decode ends the table. *)
SkipRowAndRest ==
  /\ HasSlot
  /\ ~IsType
  /\ cursor' = Len(image.slots)
  /\ UNCHANGED <<image, phase, types, next, hops, qualified>>

(* Null, or a descriptor whose header or name cannot be read. *)
SkipRow ==
  /\ HasSlot
  /\ ~IsType
  /\ cursor' = cursor + 1
  /\ UNCHANGED <<image, phase, types, next, hops, qualified>>

(* A type is yielded, and parent() starts its chain. *)
TakeRow ==
  /\ HasSlot
  /\ IsType
  /\ types' = Append(types, [address |-> Pointee, parent |-> ParentOf(Pointee),
                             name |-> TypeName(Pointee)])
  /\ next' = ParentOf(Pointee)
  /\ hops' = <<>>
  /\ cursor' = cursor + 1
  /\ phase' = "parents"
  /\ UNCHANGED <<image, qualified>>

EndTypes ==
  /\ phase = "types"
  /\ cursor = Len(image.slots)
  /\ phase' = "done"
  /\ UNCHANGED <<image, cursor, types, next, hops, qualified>>

InChain == phase = "parents" /\ next # 0 /\ Readable(next, 8)

(* A hop with no name is elided. *)
Push == IF ContextName(next) # None /\ Len(hops) < MaxHops
        THEN Append(hops, ContextName(next)) ELSE hops

(* Mutant: a context without a name is not left. *)
HopStuck ==
  /\ InChain
  /\ hops' = Push
  /\ next' = IF ContextName(next) = None THEN next ELSE ParentOf(next)
  /\ UNCHANGED <<image, phase, cursor, types, qualified>>

(* One hop up, whether the context has a name or not. *)
Hop ==
  /\ InChain
  /\ hops' = Push
  /\ next' = ParentOf(next)
  /\ UNCHANGED <<image, phase, cursor, types, qualified>>

(* Mutant: the hops are not reversed. *)
QualifyInsideOut == Append(hops, types[Len(types)].name)

(* qualified_name: the named hops from the outermost to the innermost, then *)
(* the type itself.                                                         *)
Qualify == Append([k \in 1 .. Len(hops) |-> hops[Len(hops) + 1 - k]],
                  types[Len(types)].name)

(* The chain ends at a null parent or at a descriptor that cannot be read. *)
EndChain ==
  /\ phase = "parents" /\ ~InChain
  /\ qualified' = Append(qualified, Qualify)
  /\ phase' = "types"
  /\ UNCHANGED <<image, cursor, types, next, hops>>

Returned == phase = "done" /\ UNCHANGED vars

Work == SkipRow \/ TakeRow \/ EndTypes \/ Hop \/ EndChain

Next == Work \/ Returned

Spec == Init /\ [][Next]_vars /\ WF_vars(Work)
-----------------------------------------------------------------------------
(* Where the parent field of va leads: nothing when it is null, when it    *)
(* adds up to address 0, or when nothing can be read there.                *)
Up(va) ==
  IF image.contexts[va].parent = 0 THEN {}
  ELSE {p \in DOMAIN image.contexts \ {0} :
          /\ Readable(p, 8)
          /\ (p - va - 4 - image.contexts[va].parent) % Limit = 0}

IsPathFrom(path, va) ==
  /\ \A i \in DOMAIN path : path[i] \in Up(IF i = 1 THEN va ELSE path[i - 1])
  /\ Up(IF path = <<>> THEN va ELSE path[Len(path)]) = {}

(* The way up from va: the only such path, if there is one. *)
PathsFrom(va) ==
  {path \in UNION {[1..n -> DOMAIN image.contexts] : n \in 0..MaxHops} :
     IsPathFrom(path, va)}

(* No descriptor is its own ancestor. *)
Acyclic == \A va \in DOMAIN image.contexts : PathsFrom(va) # {}

(* The first n of a set of positions in ascending order are all of it. *)
Listings(positions, n) ==
  {at \in [1..n -> positions] :
     /\ \A i, j \in 1..n : i < j => at[i] < at[j]
     /\ \A k \in positions : \E i \in 1..n : at[i] = k}

(* Where the first j contexts of a path have a name. *)
NamedOf(path, j) == {k \in 1..j : ContextName(path[k]) # None}

(* qualified_name: "Module.Outer.Inner.Self", elided where a hop has no    *)
(* name.  Each name returned is the one the file's own parent relation     *)
(* spells, with nothing left over from the chain of an earlier type.       *)
QualifiedByAncestors ==
  \A i \in DOMAIN qualified :
    \E path \in PathsFrom(types[i].address) :
      LET n == Len(qualified[i]) - 1
      IN  /\ qualified[i][n + 1] = types[i].name
          /\ \E at \in Listings(NamedOf(path, Len(path)), n) :
               \A k \in 1..n : qualified[i][n + 1 - k] = ContextName(path[at[k]])

(* The slots among the first n that lead to a readable, named descriptor. *)
Good(n) ==
  {k \in 1..n :
     /\ image.slots[k].rel # 0
     /\ \E va \in DOMAIN image.contexts :
          /\ (va - image.slots[k].va - image.slots[k].rel) % Limit = 0
          /\ Readable(va, 20) /\ TypeName(va) # None}

(* A slot of the table that leads to a readable, named descriptor has its  *)
(* row, in order, whatever stands before it; no other slot has one.        *)
EveryTypeListed ==
  /\ \E at \in Listings(Good(cursor), Len(types)) :
       \A i \in DOMAIN types :
         (types[i].address - image.slots[at[i]].va - image.slots[at[i]].rel) % Limit = 0
  /\ Len(qualified) = Len(types) - (IF phase = "parents" THEN 1 ELSE 0)
  /\ phase = "done" => cursor = Len(image.slots)

(* As long as no descriptor is its own ancestor, every walk ends. *)
AcyclicTerminates == Acyclic => <>(phase = "done")
=============================================================================
