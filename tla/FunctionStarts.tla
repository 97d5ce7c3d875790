--------------------------- MODULE FunctionStarts ---------------------------
(***************************************************************************)
(* FunctionStartIter: the addresses of LC_FUNCTION_STARTS, a stream of     *)
(* ULEB128 numbers.  Each is the distance from the address before it, and  *)
(* a 0 ends the stream.  One step consumes one byte.                       *)
(*                                                                         *)
(* A byte carries Payload bits (7) and a flag that more bytes follow; an   *)
(* address has Width bits (64).  Width is no multiple of Payload, so the   *)
(* last byte that still contributes has bits that do not fit.              *)
(***************************************************************************)
EXTENDS Integers, Sequences, FiniteSets

CONSTANTS
  Payload,      \* 7
  Width         \* 64

ASSUME StreamAssumption == Payload \in Nat \ {0} /\ Width \in Nat \ {0}

(* What a 1 shifted left by n is worth. *)
Bit(n) ==
  LET bit[k \in 0 .. n] == IF k = 0 THEN 1 ELSE 2 * bit[k - 1]
  IN  bit[n]

Limit == Bit(Width)

Byte == [bits: 0 .. Bit(Payload) - 1, more: BOOLEAN]

VARIABLES
  stream,       \* stream
  text,         \* text_vmaddr
  running,      \* running
  cursor,       \* cursor
  consumed,     \* bytes of the number being decoded
  result,       \* its bits so far
  status,       \* "walking", "done" (a terminator) or "broken" (a `?`)
  starts        \* the addresses yielded

walkVars == <<stream, text, running, cursor, consumed, result, status, starts>>

(* Nothing to walk yet. *)
WalkInit ==
  /\ stream = <<>> /\ text = 0 /\ running = 0
  /\ cursor = 0
  /\ consumed = 0 /\ result = 0
  /\ status = "walking"
  /\ starts = <<>>

(* function_starts(): an iterator over these bytes, or an empty one. *)
WalkFrom(bytes, base) ==
  /\ stream' = bytes
  /\ text' = base /\ running' = base
  /\ UNCHANGED <<cursor, consumed, result, status, starts>>

WalkNothing ==
  /\ status' = "done"
  /\ UNCHANGED <<stream, text, running, cursor, consumed, result, starts>>
-----------------------------------------------------------------------------
(* read_uleb128, the byte it looks at. *)
HasByte == status = "walking" /\ cursor + consumed < Len(stream)

Here == stream[cursor + consumed + 1]

Shift == Payload * consumed

(* result | payload << shift, in 64 bits. *)
Accumulate == result + ((Here.bits * Bit(Shift)) % Limit)

(* A byte with more to follow. *)
TakeByte ==
  /\ HasByte
  /\ Shift < Width /\ Here.more
  /\ result' = Accumulate
  /\ consumed' = consumed + 1
  /\ UNCHANGED <<stream, text, running, cursor, status, starts>>

(* Past the last bit only an empty byte is accepted, and it must be last. *)
IsLast == /\ ~Here.more
          /\ Shift >= Width => Here.bits = 0

Delta == IF Shift < Width THEN Accumulate ELSE result

(* Mutant: the next number begins at the last byte of this one. *)
YieldShort ==
  /\ HasByte /\ IsLast
  /\ Delta # 0 /\ running + Delta < Limit
  /\ running' = running + Delta
  /\ starts' = Append(starts, running')
  /\ cursor' = cursor + consumed
  /\ consumed' = 0 /\ result' = 0
  /\ UNCHANGED <<stream, text, status>>

(* The number is complete: one more function. *)
Yield ==
  /\ HasByte /\ IsLast
  /\ Delta # 0 /\ running + Delta < Limit
  /\ running' = running + Delta
  /\ starts' = Append(starts, running')
  /\ cursor' = cursor + consumed + 1
  /\ consumed' = 0 /\ result' = 0
  /\ UNCHANGED <<stream, text, status>>

Terminator ==
  /\ HasByte /\ IsLast
  /\ Delta = 0
  /\ status' = "done"
  /\ UNCHANGED <<stream, text, running, cursor, consumed, result, starts>>

(* The stream ends, inside a number or after one; a byte too many; or the  *)
(* address does not fit.  The cursor stays, and a later next() finds the   *)
(* same.                                                                   *)
Break ==
  /\ status = "walking"
  /\ \/ ~HasByte
     \/ HasByte /\ Shift >= Width /\ ~IsLast
     \/ HasByte /\ IsLast /\ running + Delta >= Limit
  /\ status' = "broken"
  /\ UNCHANGED <<stream, text, running, cursor, consumed, result, starts>>

Walk == TakeByte \/ Yield \/ Terminator \/ Break

-----------------------------------------------------------------------------
(* The numbers of the stream, read off its bytes. *)

(* A number ends at a byte that no more follow. *)
NumberEnds == {k \in DOMAIN stream : ~stream[k].more}

Numbers == Cardinality(NumberEnds)

NumberEnd(n) ==
  CHOOSE k \in NumberEnds : Cardinality({j \in NumberEnds : j <= k}) = n

NumberStart(n) == IF n = 1 THEN 1 ELSE NumberEnd(n - 1) + 1

NumberLength(n) == NumberEnd(n) - NumberStart(n) + 1

(* What the ith byte from start on adds to a number that begins there. *)
Digits(start) ==
  [i \in 1 .. Len(stream) - start + 1 |->
     stream[start + i - 1].bits * Bit(Payload * (i - 1))]

(* The sum of the first n values of f. *)
SumTo(f, n) ==
  LET sum[k \in 0 .. n] == IF k = 0 THEN 0 ELSE sum[k - 1] + f[k]
  IN  sum[n]

Exact(n) == SumTo(Digits(NumberStart(n)), NumberLength(n))

(* The address of the nth function when numbers never lose a bit. *)
AddressOf(n) == text + SumTo([k \in 1 .. Numbers |-> Exact(k)], n)

(* A number read_uleb128 takes: of 64 bits, with at most one byte of       *)
(* padding beyond them.                                                    *)
Plain(n) == Exact(n) < Limit /\ Payload * (NumberLength(n) - 1) < Width + Payload

(* binary.rs: the stream holds "deltas from a running address"; "this      *)
(* iterator yields each absolute address in turn".  As long as numbers     *)
(* keep to 64 bits, the nth address is the base plus the first n of them,  *)
(* and the walk ends where the first number that is 0, cannot be read or   *)
(* leads out of the address space stands, not before and not after.        *)
YieldsEveryStart ==
  LET plainTo(n) == \A k \in 1..n : Plain(k)
      yields(n) == plainTo(n) /\ Exact(n) # 0 /\ AddressOf(n) < Limit
      count == Len(starts)
  IN  count <= Numbers /\ plainTo(count) =>
        /\ \A n \in 1..count : yields(n) /\ starts[n] = AddressOf(n)
        /\ running = AddressOf(count)
        /\ status # "walking" /\ count < Numbers /\ Plain(count + 1)
             => ~yields(count + 1)
=============================================================================
