---------------------------- MODULE MCObjcRuntime ----------------------------
(***************************************************************************)
(* Small images for ObjcRuntime.  A word is two addresses, so that a       *)
(* pointer has one flag bit; a class_t is isa, superclass and bits, a      *)
(* class_ro_t its name.                                                    *)
(*                                                                         *)
(*   4 class A   10 class B   16 ro of A   18 ro of B                      *)
(*   20, 22 classlist   24 nlclslist   26, 28 classrefs   30, 32 strings   *)
(***************************************************************************)
EXTENDS ObjcProperties, SequencesExt

CONSTANTS nameA, nameB, symbol

A == 4      B == 10     RoA == 16     RoB == 18     StrA == 30     StrB == 32

SlotVas == <<4, 6, 8, 10, 12, 14, 16, 18, 20, 22, 24, 26, 28>>

(* What a slot can be: a plain word; a chain entry that is a rebase, whose *)
(* low bits are those of its target; one that is a bind of ordinal 1, with *)
(* strings from the file or from the program.                              *)
Plain(v)  == [raw |-> v, target |-> None, bind |-> "no"]
Rebase(t) == [raw |-> 2 * PacUnit + (t % WordSize), target |-> t, bind |-> "no"]
Bind      == [raw |-> 2 * PacUnit + 1, target |-> None, bind |-> "file"]
Special   == [raw |-> 2 * PacUnit + 1, target |-> None, bind |-> "program"]

ImageOf(slots) ==
  [lo |-> 4, end |-> 34,
   raw |-> [va \in 4..32 |-> IF va \in DOMAIN slots THEN slots[va].raw ELSE 0],
   strings |-> [va \in {StrA, StrB} |-> IF va = StrA THEN nameA ELSE nameB],
   rebaseRows |->
     LET here == SelectSeq(SlotVas, LAMBDA va : slots[va].target # None)
     IN  [k \in DOMAIN here |-> [va |-> here[k], target |-> slots[here[k]].target]],
   imports |->
     LET here == SelectSeq(SlotVas, LAMBDA va : slots[va].bind # "no")
     IN  [k \in DOMAIN here |->
            [va |-> here[k], sym |-> symbol,
             inFile |-> slots[here[k]].bind = "file"]],
   classList |-> <<20, 22>>, nlclslist |-> <<24>>, refSlots |-> <<26, 28>>]

Fill(isaA, superA, bitsA, isaB, superB, bitsB, list, ref) ==
  ImageOf([va \in Elems(SlotVas) |->
    CASE va = 4  -> isaA [] va = 6  -> superA [] va = 8  -> bitsA
      [] va = 10 -> isaB [] va = 12 -> superB [] va = 14 -> bitsB
      [] va = 16 -> Rebase(StrA)
      [] va = 18 -> Rebase(StrB)
      [] va = 20 -> list[1] [] va = 22 -> list[2] [] va = 24 -> list[3]
      [] va = 26 -> ref
      [] va = 28 -> Rebase(B)])

(* Every content of the three list slots, one of them a pointer to what is *)
(* no class, under every shape of isa: null, to itself, to each other.     *)
ListImages ==
  {Fill(isaA, Rebase(B), Rebase(RoA), isaB, Bind, bitsB, list, Rebase(A)) :
     isaA \in {Plain(0), Rebase(A), Rebase(B), Rebase(StrB)},
     isaB \in {Plain(0), Rebase(A), Rebase(B)},
     bitsB \in {Rebase(RoB), Rebase(RoB + 1)},
     list \in [1..3 -> {Plain(0), Plain(A), Rebase(A), Rebase(B), Rebase(StrB)}]}

(* Every kind of superclass, bits and reference slot: rebases with and     *)
(* without flags, plain pointers with a signature the wide mask keeps or   *)
(* drops, binds.                                                           *)
NameImages ==
  {Fill(Rebase(B), superA, bitsA, Plain(0), superB, bitsB,
        <<Rebase(A), Rebase(B), Plain(0)>>, ref) :
     superA \in {Plain(0), Rebase(B), Plain(3 * PacUnit + B), Bind, Special},
     bitsA \in {Rebase(RoA), Rebase(RoA + 1), Plain(2 * PacUnit + RoA + 1),
                Plain(PacUnit + RoA)},
     superB \in {Rebase(A), Bind},
     bitsB \in {Rebase(RoB), Plain(RoB + 1), Plain(0)},
     ref \in {Rebase(A), Plain(A), Rebase(20), Bind, Special, Plain(0)}}

ObjcImages == ListImages \cup NameImages
==============================================================================
