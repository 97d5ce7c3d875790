-------------------------- MODULE RequirementMeaning --------------------------
(***************************************************************************)
(* What an expression of a requirement means, what a text means, and that  *)
(* the rows of Requirements::decoded are the expressions of the vector.    *)
(* Both meanings are least relations: a tuple is in one if it is in every  *)
(* set that is closed under the rules.                                     *)
(***************************************************************************)
EXTENDS RequirementText

CONSTANT
  Worlds          \* what a requirement can be evaluated against, each the
                  \* set of the atoms that are true of it

Operand == Nat \cup Seq(Nat)

Atom == {<<"deep">>} \cup {<<"leaf", op, values>> : op \in Nat, values \in Seq(Operand)}

Text == Seq(Atom \cup {Left, Right, <<"not">>, <<"and">>, <<"or">>})

Holds(atom) == {w \in Worlds : atom \in w}
-----------------------------------------------------------------------------
(* The words: the expression at depth d that begins at word k ends before  *)
(* word `to` and is true of the worlds in v.                               *)

OpAt(blob, k) == blob.words[k + 1]

Begins(blob, d, k) == d <= MaxDepth /\ HasWord(blob, k)

DeepRule(E) ==
  \A d, k \in Nat : d > MaxDepth => <<d, k, k, Holds(<<"deep">>)>> \in E

LeafRule(blob, E) ==
  \A d, k \in Nat :
    Begins(blob, d, k) /\ OpAt(blob, k) \notin {And, Or, Not} /\ Operands(blob, k).ok =>
      <<d, k, Operands(blob, k).next,
        Holds(<<"leaf", OpAt(blob, k), Operands(blob, k).values>>)>> \in E

NotRule(blob, E) ==
  \A d, k, to \in Nat : \A v \in SUBSET Worlds :
    Begins(blob, d, k) /\ OpAt(blob, k) = Not /\ <<d + 1, k + 1, to, v>> \in E =>
      <<d, k, to, Worlds \ v>> \in E

Combine(op, v, u) == IF op = And THEN v \cap u ELSE v \cup u

NodeRule(blob, E) ==
  \A d, k, mid, to \in Nat : \A v, u \in SUBSET Worlds :
    /\ Begins(blob, d, k) /\ OpAt(blob, k) \in {And, Or}
    /\ <<d + 1, k + 1, mid, v>> \in E /\ <<d + 1, mid, to, u>> \in E
    => <<d, k, to, Combine(OpAt(blob, k), v, u)>> \in E

Means(blob, d, k, to, v) ==
  \A E : DeepRule(E) /\ LeafRule(blob, E) /\ NotRule(blob, E) /\ NodeRule(blob, E)
           => <<d, k, to, v>> \in E
-----------------------------------------------------------------------------
(* The text, as the requirement language reads it: "not" binds tighter     *)
(* than "and" and this tighter than "or", parentheses before all.  Level 0 *)
(* is an operand of "not", level 1 of "and", level 2 of "or".              *)

AtomRule(R) == \A a \in Atom : <<0, <<a>>, Holds(a)>> \in R

NegationRule(R) ==
  \A t \in Text : \A v \in SUBSET Worlds :
    <<0, t, v>> \in R => <<0, <<<<"not">>>> \o t, Worlds \ v>> \in R

ParenthesesRule(R) ==
  \A t \in Text : \A v \in SUBSET Worlds :
    <<2, t, v>> \in R => <<0, <<Left>> \o t \o <<Right>>, v>> \in R

AndRule(R) ==
  \A t, s \in Text : \A v, u \in SUBSET Worlds :
    <<1, t, v>> \in R /\ <<1, s, u>> \in R => <<1, t \o <<<<"and">>>> \o s, v \cap u>> \in R

OrRule(R) ==
  \A t, s \in Text : \A v, u \in SUBSET Worlds :
    <<2, t, v>> \in R /\ <<2, s, u>> \in R => <<2, t \o <<<<"or">>>> \o s, v \cup u>> \in R

LevelRule(R) ==
  \A i, j \in 0 .. 2 : \A t \in Text : \A v \in SUBSET Worlds :
    i <= j /\ <<i, t, v>> \in R => <<j, t, v>> \in R

ReadingRules(R) ==
  /\ AtomRule(R) /\ NegationRule(R) /\ ParenthesesRule(R)
  /\ AndRule(R) /\ OrRule(R) /\ LevelRule(R)

Reads(level, text, v) == \A R : ReadingRules(R) => <<level, text, v>> \in R
-----------------------------------------------------------------------------
(* The text of a row reads as the expression of an entry. *)
Agrees(row, e) ==
  /\ row.kind = e.type
  /\ \E to \in Nat : \E v \in SUBSET Worlds :
       Means(e.blob, 0, 0, to, v) /\ Reads(2, row.text, v)

Meaningful(e) ==
  e.blob.opens /\ \E to \in Nat : \E v \in SUBSET Worlds : Means(e.blob, 0, 0, to, v)

(* The rows are the entries the loop has left behind whose blob opens and  *)
(* has a whole expression, in their order, and each text reads as the      *)
(* expression; the loop leaves all entries behind that it may read.        *)
RowsAgree(rows, v, n, p) ==
  /\ p \in [1 .. Len(rows) -> 1 .. n]
  /\ \A i, j \in 1 .. Len(rows) : i < j => p[i] < p[j]
  /\ \A k \in 1 .. n : Meaningful(v.index[k]) <=> \E i \in 1 .. Len(rows) : p[i] = k
  /\ \A i \in 1 .. Len(rows) : Agrees(rows[i], v.index[p[i]])

Limits == {vector.count, MaxEntries, Len(vector.index)}

TextsAgree ==
  /\ \E p : RowsAgree(decoded, vector, entry, p)
  /\ \A limit \in Limits : entry <= limit
  /\ reqPhase = "done" => entry \in Limits
=============================================================================
