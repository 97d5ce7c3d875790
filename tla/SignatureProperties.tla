------------------------ MODULE SignatureProperties ------------------------
(***************************************************************************)
(* What CodeSignature makes of what was signed.  The inputs carry what they *)
(* encode: a requirement its expression tree ("tree"), entitlements their  *)
(* pairs ("pairs"), each with "intact" where nothing is cut off or         *)
(* overwritten.  Only the properties look at those fields.                 *)
(***************************************************************************)
EXTENDS CodeSignature, FiniteSets

(* Requirements *)

RECURSIVE Height(_)
Height(tree) ==
  IF tree.args = <<>> THEN 0
  ELSE LET heights == {Height(tree.args[i]) : i \in DOMAIN tree.args}
       IN  1 + (CHOOSE h \in heights : \A g \in heights : g <= h)

(* The truth of a tree when the leaves in yes hold. *)
RECURSIVE Holds(_, _)
Holds(tree, yes) ==
  CASE tree.op = Not -> ~Holds(tree.args[1], yes)
    [] tree.op = And -> Holds(tree.args[1], yes) /\ Holds(tree.args[2], yes)
    [] tree.op = Or  -> Holds(tree.args[1], yes) \/ Holds(tree.args[2], yes)
    [] OTHER         -> <<"leaf", tree.op, tree.values>> \in yes

RECURSIVE Leaves(_)
Leaves(tree) ==
  IF tree.args = <<>> THEN {<<"leaf", tree.op, tree.values>>}
  ELSE UNION {Leaves(tree.args[i]) : i \in DOMAIN tree.args}

(* The truth of a text, read as csreq reads it: "!" binds most, then "and" *)
(* and then "or".                                                          *)
RECURSIVE Reads(_, _)
Reads(text, yes) ==
  LET open(k) == Cardinality({i \in 1..k : text[i] = Left})
                   - Cardinality({i \in 1..k : text[i] = Right})
      outer(token) == {k \in DOMAIN text : text[k] = token /\ open(k) = 0}
      before(k) == Reads(SubSeq(text, 1, k - 1), yes)
      after(k) == Reads(SubSeq(text, k + 1, Len(text)), yes)
      some(set) == CHOOSE k \in set : TRUE
  IN  CASE outer(<<"or">>) # {} ->
             before(some(outer(<<"or">>))) \/ after(some(outer(<<"or">>)))
        [] outer(<<"or">>) = {} /\ outer(<<"and">>) # {} ->
             before(some(outer(<<"and">>))) /\ after(some(outer(<<"and">>)))
        [] outer(<<"or">>) = {} /\ outer(<<"and">>) = {} /\ text[1] = <<"not">> ->
             ~after(1)
        [] text[1] = Left /\ Len(text) > 1 /\ outer(<<"and">>) \cup outer(<<"or">>) = {} ->
             Reads(SubSeq(text, 2, Len(text) - 1), yes)
        [] Len(text) = 1 -> text[1] \in yes

(* The entries a row is due for. *)
Due ==
  LET reached == SelectSeq([k \in DOMAIN vector.index |-> k],
                           LAMBDA k : k <= vector.count /\ k <= MaxEntries)
  IN  SelectSeq(reached, LAMBDA k : vector.index[k].intact)

Shallow == \A k \in DOMAIN vector.index :
             vector.index[k].intact => Height(vector.index[k].tree) <= MaxDepth

(* "Entries that are truncated or use an unknown blob shape are skipped":  *)
(* there is a row for every other one, in order.                           *)
EachRequirementAlone ==
  reqPhase = "done" =>
    [i \in DOMAIN decoded |-> decoded[i].kind]
      = [i \in DOMAIN Due |-> vector.index[Due[i]].type]

(* codesign.rs: "evaluates the ... expression bytecode into a string such  *)
(* as identifier ... and anchor apple generic".  Read with the usual       *)
(* precedence, the text of a requirement holds for the same code as its    *)
(* expression: no parenthesis and no operand is lost on the way, and a     *)
(* requirement that is skipped moves no text to another kind.              *)
TextMeansExpression ==
  Shallow =>
    /\ \A i \in DOMAIN decoded :
         LET tree == vector.index[Due[i]].tree
         IN  \A yes \in SUBSET Leaves(tree) :
               Holds(tree, yes) = Reads(decoded[i].text, yes)
    /\ EachRequirementAlone
-----------------------------------------------------------------------------
(* Entitlements *)

Source == file.blobs[file.index[looked + 1].offset]

(* The bytes of an integer in DER, its sign included: as few as will do. *)
RECURSIVE Width(_)
Width(v) == IF -128 <= v /\ v < 128 THEN 1 ELSE 1 + Width(v \div 256)

(* What the fold of der_decode_integer leaves of an integer: the low bytes *)
(* without their sign where they are fewer than those of the result; the   *)
(* number itself where they are as many; and else the high bytes, which is *)
(* the number divided.                                                     *)
Folded(v) ==
  IF Width(v) < IntBytes THEN v % 256 ^ Width(v)
  ELSE v \div 256 ^ (Width(v) - IntBytes)

RECURSIVE DecodedValue(_)
DecodedValue(value) ==
  CASE value[1] = "integer" -> Value("integer", Folded(value[2]))
    [] value[1] = "array" ->
         Value("array", [i \in DOMAIN value[2] |-> DecodedValue(value[2][i])])
    [] OTHER -> value

(* codesign.rs: "Decoded top-level entitlement key/value pairs, in on-disk *)
(* order".  From a payload that is whole, with or without the wrapper and  *)
(* whatever form the lengths have, every pair comes out that the signer    *)
(* wrote, in that order and with its value, except for the integers.  Of   *)
(* them only those come out as written that are not negative and fit, and  *)
(* the negative ones of exactly as many bytes as the result: a shorter     *)
(* negative one has lost its sign, and one that is too wide neither        *)
(* saturates (line 976) nor keeps its low bytes (lines 1448-1449), it is   *)
(* what its high bytes say.                                                *)
PairsDecodeEncoding ==
  derPhase = "done" /\ Source.intact =>
    pairs = [i \in DOMAIN Source.pairs |->
               [key |-> Source.pairs[i].key,
                value |-> DecodedValue(Source.pairs[i].value)]]

(* Every call returns. *)
Terminates == <>(phase = "done")

(* codesign.rs: "Some legacy variants drop the outer wrapper. ... otherwise*)
(* treat payload itself as the entries SET."                               *)
LegacySetDecodes ==
  derPhase = "done" /\ Source.legacy => pairs = Source.pairs
=============================================================================
