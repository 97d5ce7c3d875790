------------------------- MODULE PropertyAttributes -------------------------
(***************************************************************************)
(* parse_attributes: a property's attribute string is cut at the commas    *)
(* outside of quotes, and each piece into a key and a value.               *)
(*                                                                         *)
(* A text is a record of its bytes, of which "cont" is one that goes on    *)
(* with a character begun before it, so that no string can start there,    *)
(* and of the items it was written with, which no step reads.              *)
(***************************************************************************)
EXTENDS Integers, FiniteSetsExt, Sequences

VARIABLES
  text,         \* the string
  at,           \* i
  items,        \* the items
  typeEncoding  \* type_encoding

attrVars == <<text, at, items, typeEncoding>>

AttrInit == at = 1 /\ items = <<>> /\ typeEncoding = <<>>

(* in_quotes before position j of a value that starts at position i. *)
InQuotes(i, j) == Cardinality({k \in i .. j - 1 : text.bytes[k] = "quote"}) % 2 = 1

(* Mutant: any comma ends a value. *)
IsEndQuoted(i, j) == j > Len(text.bytes) \/ text.bytes[j] = "comma"

IsEnd(i, j) == j > Len(text.bytes) \/ (text.bytes[j] = "comma" /\ ~InQuotes(i, j))

EndOf(i) == Min({j \in i .. Len(text.bytes) + 1 : IsEnd(i, j)})

(* s.get(i..j).unwrap_or("") *)
Slice(i, j) == IF i < j /\ text.bytes[i] = "cont" THEN <<>> ELSE SubSeq(text.bytes, i, j - 1)

PastComma(j) == IF j <= Len(text.bytes) THEN j + 1 ELSE j

TakeItem ==
  /\ at <= Len(text.bytes)
  /\ LET end == EndOf(at + 1)
         value == Slice(at + 1, end)
     IN  /\ items' = Append(items, [key |-> text.bytes[at], value |-> value])
         /\ typeEncoding' = IF text.bytes[at] = "T" /\ typeEncoding = <<>>
                            THEN value ELSE typeEncoding
         /\ at' = PastComma(end)
  /\ UNCHANGED text

Parsed == at > Len(text.bytes)
=============================================================================
