------------------------------ MODULE FixupSlots ------------------------------
(***************************************************************************)
(* What a chained-fixup walk promises, with no order and no cursor: it     *)
(* reports pointer slots of the image one by one, a slot being due when it *)
(* starts a page's chain or is the link target of a slot already reported, *)
(* never the same one twice, and it stops only when no slot is due.        *)
(*                                                                         *)
(* A slot is named <<r, p, o>>: record (and segment) r, page p, offset o   *)
(* counted from the start of the page.  StartSlots(im) and Link(im, s) say *)
(* which slots start a chain and which one, if any, follows slot s.        *)
(***************************************************************************)
CONSTANTS StartSlots(_), Link(_, _)

VARIABLES image, reported, finished

vars == <<image, reported, finished>>

Due(im, seen) ==
  (StartSlots(im) \cup UNION {Link(im, s) : s \in seen}) \ seen

(* Any image will do: the promise is made for all of them. *)
Init == reported = {} /\ finished = FALSE

Report ==
  /\ ~finished
  /\ \E s \in Due(image, reported) : reported' = reported \cup {s}
  /\ UNCHANGED <<image, finished>>

Finish ==
  /\ ~finished
  /\ Due(image, reported) = {}
  /\ finished' = TRUE
  /\ UNCHANGED <<image, reported>>

Next == Report \/ Finish

Spec == Init /\ [][Next]_vars /\ WF_vars(Next)
===============================================================================
