--------------------------- MODULE RequirementText ---------------------------
(***************************************************************************)
(* Requirements::decoded: every entry of the requirements vector is        *)
(* followed to its blob and the expression there, a tree in prefix order,  *)
(* is turned into text by eval_expression.  The recursion is a stack of    *)
(* the operators whose operands are still to come; its height is the       *)
(* depth the code passes on.                                               *)
(*                                                                         *)
(* Text is a sequence of tokens, each a tuple: the connectives, the        *)
(* parentheses, and <<"leaf", operator, operands>>, whose wording is of no *)
(* interest.                                                               *)
(***************************************************************************)
EXTENDS Integers, Sequences, SequencesExt

CONSTANTS
  WordSize,       \* bytes of a word: 4
  MaxEntries,     \* MAX_REQUIREMENT_ENTRIES
  MaxDepth        \* MAX_REQUIREMENT_DEPTH

ASSUME SizesAssumption ==
  WordSize \in Nat \ {0} /\ MaxEntries \in Nat /\ MaxDepth \in Nat

(* count: the field; index: the entries of the index that can be read,     *)
(* each with its type and the blob its offset leads to: whether it opens   *)
(* (magic, extent), the words from its expression on, and how many bytes   *)
(* of them its length takes in.                                            *)
IsVector(v) ==
  /\ v.count \in Nat
  /\ DOMAIN v.index = 1 .. Len(v.index) /\ Len(v.index) \in Nat
  /\ \A i \in 1 .. Len(v.index) :
       /\ v.index[i].type \in Nat
       /\ v.index[i].blob.words \in Seq(Nat)
       /\ v.index[i].blob.bytes \in 0 .. WordSize * Len(v.index[i].blob.words)

VARIABLES
  vector,         \* the blob, written once when it is found
  reqPhase,       \* "idle", "entries", "call", "return" or "done"
  entry,          \* entries the loop has left behind
  pos,            \* position of ReqCursor, in words
  stack,          \* operators under evaluation, the outermost first
  answer,         \* text of the expression that has just been evaluated
  decoded         \* the rows

reqVars == <<vector, reqPhase, entry, pos, stack, answer, decoded>>

(* Operators, by their codes, and what follows each in the stream. *)
And == 6
Or == 7
Not == 9

Shape(op) ==
  CASE op \in {2, 8, 18, 19}  -> <<"data">>
    [] op = 4                 -> <<"slot", "data">>
    [] op = 5                 -> <<"data", "data">>
    [] op \in {10, 16}        -> <<"data", "match">>
    [] op \in {11, 14, 17}    -> <<"slot", "data", "match">>
    [] op = 12                -> <<"slot">>
    [] OTHER                  -> <<>>

(* MatchOperation: all but "exists" and unknown ones have an operand. *)
ComparesWith == 1..8

(* Syntax levels: an operator in a tighter context than its own level gets *)
(* parentheses.                                                            *)
Level(op) == CASE op = Not -> 0 [] op = And -> 1 [] op = Or -> 2

TopLevel == 3

Left == <<"(">>
Right == <<")">>

ReqInit ==
  /\ reqPhase = "idle" /\ entry = 0 /\ pos = 0
  /\ stack = <<>> /\ answer = <<>> /\ decoded = <<>>

BeginRequirements(blob) ==
  /\ reqPhase = "idle"
  /\ vector' = blob /\ reqPhase' = "entries"
  /\ UNCHANGED <<entry, pos, stack, answer, decoded>>
-----------------------------------------------------------------------------
(* ReqCursor, at word k of a blob *)

HasWord(blob, k) == (k + 1) * WordSize <= blob.bytes

Broken == [ok |-> FALSE, values |-> <<>>, next |-> 0]

TakeWord(blob, read) ==
  IF read.ok /\ HasWord(blob, read.next)
  THEN [ok |-> TRUE, values |-> Append(read.values, blob.words[read.next + 1]),
        next |-> read.next + 1]
  ELSE Broken

(* A length, so many bytes, and padding up to a whole word; the padding    *)
(* may lie beyond the blob.                                                *)
TakeData(blob, read) ==
  IF ~read.ok \/ ~HasWord(blob, read.next) THEN Broken
  ELSE LET len == blob.words[read.next + 1]
           from == read.next + 1
           padded == (len + WordSize - 1) \div WordSize
       IN  IF from * WordSize + len > blob.bytes THEN Broken
           ELSE [ok |-> TRUE,
                 values |-> Append(read.values,
                                   SubSeq(blob.words, from + 1, from + padded)),
                 next |-> from + padded]

TakeMatch(blob, read) ==
  LET operation == TakeWord(blob, read)
  IN  IF operation.ok /\ Last(operation.values) \in ComparesWith
      THEN TakeData(blob, operation) ELSE operation

Take(blob, read, kind) ==
  CASE kind = "slot"  -> TakeWord(blob, read)
    [] kind = "data"  -> TakeData(blob, read)
    [] kind = "match" -> TakeMatch(blob, read)

(* The operands of the operator at word k, three at most. *)
Operands(blob, k) ==
  LET shape == Shape(blob.words[k + 1])
      take(read, i) == IF i \in DOMAIN shape THEN Take(blob, read, shape[i]) ELSE read
  IN  take(take(take([ok |-> TRUE, values |-> <<>>, next |-> k + 1], 1), 2), 3)
-----------------------------------------------------------------------------
(* The loop over the entries *)

Blob == vector.index[entry + 1].blob

HasEntry ==
  /\ reqPhase = "entries"
  /\ entry < vector.count /\ entry < MaxEntries
  /\ entry < Len(vector.index)

SkipBlob ==
  /\ HasEntry
  /\ ~Blob.opens
  /\ entry' = entry + 1
  /\ UNCHANGED <<vector, reqPhase, pos, stack, answer, decoded>>

OpenBlob ==
  /\ HasEntry
  /\ Blob.opens
  /\ reqPhase' = "call" /\ pos' = 0 /\ stack' = <<>>
  /\ UNCHANGED <<vector, entry, answer, decoded>>

EndEntries ==
  /\ reqPhase = "entries"
  /\ ~HasEntry
  /\ reqPhase' = "done"
  /\ UNCHANGED <<vector, entry, pos, stack, answer, decoded>>
-----------------------------------------------------------------------------
(* eval_expression *)

Calling == reqPhase = "call"

(* The operator of the call; its first word is read unless it is too deep. *)
Operator == Blob.words[pos + 1]

Operation == Operands(Blob, pos)

Readable == Calling /\ Len(stack) <= MaxDepth /\ HasWord(Blob, pos)

Answer(text) == answer' = text /\ reqPhase' = "return"

(* The placeholder; nothing of the expression is read. *)
TooDeep ==
  /\ Calling
  /\ Len(stack) > MaxDepth
  /\ Answer(<<<<"deep">>>>)
  /\ UNCHANGED <<vector, entry, pos, stack, decoded>>

EvalLeaf ==
  /\ Readable
  /\ Operator \notin {And, Or, Not}
  /\ Operation.ok
  /\ Answer(<<<<"leaf", Operator, Operation.values>>>>)
  /\ pos' = Operation.next
  /\ UNCHANGED <<vector, entry, stack, decoded>>

EvalNode ==
  /\ Readable
  /\ Operator \in {And, Or, Not}
  /\ stack' = Append(stack, [op |-> Operator, left |-> <<>>])
  /\ pos' = pos + 1
  /\ UNCHANGED <<vector, reqPhase, entry, answer, decoded>>

(* `?` in any of the calls leaves them all, and the entry has no row. *)
Fail ==
  /\ Calling /\ Len(stack) <= MaxDepth
  /\ HasWord(Blob, pos) => ~Operation.ok
  /\ reqPhase' = "entries" /\ entry' = entry + 1 /\ stack' = <<>>
  /\ UNCHANGED <<vector, pos, answer, decoded>>

Returning == reqPhase = "return" /\ stack # <<>>

(* The context of the node on top of the stack. *)
Context ==
  IF Len(stack) = 1 THEN TopLevel ELSE Level(stack[Len(stack) - 1].op)

(* Mutant: only a looser operator counts, whatever the context. *)
WrapOr(op, text) ==
  IF op = Or /\ Len(stack) > 1 /\ stack[Len(stack) - 1].op = Not
  THEN <<Left>> \o text \o <<Right>> ELSE text

Wrap(op, text) ==
  IF Context < Level(op) THEN <<Left>> \o text \o <<Right>> ELSE text

Negate ==
  /\ Returning
  /\ Last(stack).op = Not
  /\ answer' = <<<<"not">>>> \o answer
  /\ stack' = Front(stack)
  /\ UNCHANGED <<vector, reqPhase, entry, pos, decoded>>

TakeLeft ==
  /\ Returning
  /\ Last(stack).op # Not /\ Last(stack).left = <<>>
  /\ stack' = [stack EXCEPT ![Len(stack)].left = answer]
  /\ reqPhase' = "call"
  /\ UNCHANGED <<vector, entry, pos, answer, decoded>>

Join ==
  /\ Returning
  /\ Last(stack).op # Not /\ Last(stack).left # <<>>
  /\ answer' = Wrap(Last(stack).op,
                    Last(stack).left
                      \o <<<<IF Last(stack).op = And THEN "and" ELSE "or">>>> \o answer)
  /\ stack' = Front(stack)
  /\ UNCHANGED <<vector, reqPhase, entry, pos, decoded>>

PushRow ==
  /\ reqPhase = "return" /\ stack = <<>>
  /\ decoded' = Append(decoded, [kind |-> vector.index[entry + 1].type,
                                 text |-> answer])
  /\ reqPhase' = "entries" /\ entry' = entry + 1
  /\ UNCHANGED <<vector, pos, stack, answer>>

WalkRequirements ==
  \/ SkipBlob \/ OpenBlob \/ EndEntries
  \/ TooDeep \/ EvalLeaf \/ EvalNode \/ Fail
  \/ Negate \/ TakeLeft \/ Join \/ PushRow
=============================================================================
