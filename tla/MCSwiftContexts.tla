--------------------------- MODULE MCSwiftContexts ---------------------------
(***************************************************************************)
(* Three descriptors at 16, 40 and 64, whose strings are at 80, 81 and 82. *)
(* Each one's parent is any of the three, null, the null address reached   *)
(* by a non-null offset, or an address where nothing can be read; each one *)
(* is of a kind with or without a name.  The last descriptor is complete,  *)
(* ends after its name, or after its parent.                               *)
(***************************************************************************)
EXTENDS SwiftContexts

CONSTANTS outer, inner, self

At == <<16, 40, 64>>

(* -1 is the null offset. *)
Null == -1

Parents == {Null, 0, 16, 40, 64, 100}

(* The offset that leads from slot to target, over the end of the address  *)
(* space when the target is far.                                           *)
Offset(target, slot) == IF target = Null THEN 0
                        ELSE IF target = 0 THEN Limit - slot ELSE target - slot

ImageOf(parents, named, last, texts, order) ==
  [readable |-> [va \in {16, 40, 64} |-> IF va = 64 THEN last ELSE 20],
   contexts |->
     [va \in {16, 40, 64} |->
        LET i == CHOOSE k \in 1..3 : At[k] = va
        IN  [parent |-> Offset(parents[i], va + 4), named |-> named[i],
             name |-> (79 + i) - (va + 8)]],
   strings |-> [va \in texts |-> CASE va = 80 -> outer [] va = 81 -> inner
                                   [] va = 82 -> self],
   slots |-> [k \in DOMAIN order |->
                [va |-> 110 + 4 * k,
                 rel |-> IF order[k] = Null THEN 0 ELSE order[k] - (110 + 4 * k)]]]

ContextImages ==
  {ImageOf(<<p, q, r>>, named, end[1], end[2], order) :
     p, q, r \in Parents, named \in [1..3 -> BOOLEAN],
     end \in {<<8, {80, 81, 82}>>, <<12, {80, 81, 82}>>, <<20, {80, 81, 82}>>,
              <<20, {80, 82}>>},
     order \in {<<16, Null, 64>>, <<40, 64, 100, 16>>}}
==============================================================================
