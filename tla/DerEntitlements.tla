--------------------------- MODULE DerEntitlements ---------------------------
(***************************************************************************)
(* DerEntitlements: two walks over the same tag-length-value bytes, one    *)
(* for keys() and one for pairs(), each with its own decoder of an entry,  *)
(* and der_decode_value, which the second one uses on the entry's value.   *)
(***************************************************************************)
EXTENDS Integers, Sequences, SequencesExt

CONSTANTS
  IntBytes,       \* bytes of an i64: 8
  MaxItems,       \* MAX_DER_ARRAY_ITEMS
  MaxValueDepth   \* MAX_DER_VALUE_DEPTH

ASSUME LimitsAssumption ==
  IntBytes \in Nat \ {0} /\ MaxItems \in Nat /\ MaxValueDepth \in Nat

VARIABLES
  entries,        \* the bytes both walks go over, found once
  derPhase,       \* "idle", "keys", "pairs" or "done"
  at,             \* cursor in the entries
  keys,           \* what der_collect_keys has pushed; keys() sorts it and drops
                  \* repetitions, so that it is a set
  pairs           \* what der_collect_pairs has pushed

derVars == <<entries, derPhase, at, keys, pairs>>

Byte == 0..255

(* Tags *)
Boolean == 1
Integer == 2
Utf8 == 12
Sequence == 48
Containers == {48, 49, 160, 176}

DerInit == derPhase = "idle" /\ at = 0 /\ keys = {} /\ pairs = <<>>
-----------------------------------------------------------------------------
(* der_read_header on the bytes from position k on, and the extent of the  *)
(* body.  A length of 128 or more is that many bytes of length.            *)
Number(bytes) == FoldLeft(LAMBDA sum, b : sum * 256 + b, 0, bytes)

HasHeader(buf, k) ==
  /\ k + 2 <= Len(buf)
  /\ \/ buf[k + 2] < 128
     \/ buf[k + 2] \in 129..132 /\ k + 2 + (buf[k + 2] - 128) <= Len(buf)

Tag(buf, k) == buf[k + 1]

BodyAt(buf, k) == k + 2 + (IF buf[k + 2] < 128 THEN 0 ELSE buf[k + 2] - 128)

End(buf, k) ==
  BodyAt(buf, k) + (IF buf[k + 2] < 128 THEN buf[k + 2]
                    ELSE Number(SubSeq(buf, k + 3, BodyAt(buf, k))))

Whole(buf, k) == HasHeader(buf, k) /\ End(buf, k) <= Len(buf)

Body(buf, k) == SubSeq(buf, BodyAt(buf, k) + 1, End(buf, k))

Rest(buf, k) == SubSeq(buf, k + 1, Len(buf))

(* der_locate_entries: inside the outermost value, past the numbers at its *)
(* front, the first container; without all that, the payload itself.       *)
Located(bytes) ==
  LET outer == Body(bytes, 0)
      after[k \in Nat] ==
        IF HasHeader(outer, k) /\ Tag(outer, k) = Integer
        THEN after[End(outer, k)] ELSE k
      k == after[0]
  IN  IF /\ Whole(bytes, 0) /\ Whole(outer, k) /\ Tag(outer, k) \in Containers
      THEN Body(outer, k) ELSE bytes

BeginEntitlements(bytes) ==
  /\ derPhase = "idle"
  /\ entries' = Located(bytes) /\ derPhase' = "keys"
  /\ UNCHANGED <<at, keys, pairs>>
-----------------------------------------------------------------------------
(* der_decode_value *)

Value(kind, content) == <<kind, content>>

(* The bytes kept are the first IntBytes ones; the accumulator wraps.      *)
DecodeInteger(body) ==
  LET kept == SubSeq(body, 1, IF Len(body) < IntBytes THEN Len(body) ELSE IntBytes)
      sum == Number(kept)
      half == 2 ^ (8 * IntBytes - 1)
  IN  IF sum < half THEN sum ELSE sum - 2 * half

(* The value at the front of buf, as a sequence of at most one.  The items *)
(* of a container are decoded one level further down, as long as they are  *)
(* whole and few enough.                                                   *)
DecodeValue[buf \in Seq(Byte), depth \in Nat] ==
  IF depth > MaxValueDepth THEN <<Value("other", 0)>>
  ELSE IF ~Whole(buf, 0) THEN <<>>
  ELSE LET body == Body(buf, 0)
           items[k \in Nat, seen \in Nat] ==
             IF k < Len(body) /\ seen < MaxItems /\ Whole(body, k)
             THEN LET item == DecodeValue[SubSeq(body, k + 1, End(body, k)), depth + 1]
                  IN  item \o items[End(body, k), seen + Len(item)]
             ELSE <<>>
       IN  CASE Tag(buf, 0) = Boolean ->
                  <<Value("bool", IF body = <<>> \/ body[1] = 0 THEN 0 ELSE 1)>>
             [] Tag(buf, 0) = Integer -> <<Value("integer", DecodeInteger(body))>>
             [] Tag(buf, 0) = Utf8 -> <<Value("string", body)>>
             [] Tag(buf, 0) \in Containers -> <<Value("array", items[0, 0])>>
             [] OTHER -> <<Value("other", Tag(buf, 0))>>

(* from_utf8 on a key: the bytes of text here are below 128. *)
IsText(bytes) == \A i \in DOMAIN bytes : bytes[i] < 128

(* der_first_utf8_string and the first half of der_entry_pair: a key. *)
HasKey(entry) == Whole(entry, 0) /\ Tag(entry, 0) = Utf8 /\ IsText(Body(entry, 0))

(* Mutant: the value is looked for behind the header of the key. *)
PairBehindHeader(entry) ==
  LET value == DecodeValue[Rest(entry, BodyAt(entry, 0)), 0]
  IN  [key |-> Body(entry, 0), value |-> IF value = <<>> THEN Value("other", 0)
                                         ELSE value[1]]

(* der_entry_pair: a value that cannot be decoded does not lose the key. *)
Pair(entry) ==
  LET value == DecodeValue[Rest(entry, End(entry, 0)), 0]
  IN  [key |-> Body(entry, 0), value |-> IF value = <<>> THEN Value("other", 0)
                                         ELSE value[1]]
-----------------------------------------------------------------------------
(* The loops of der_collect_keys and der_collect_pairs *)

HasEntryAt == derPhase \in {"keys", "pairs"} /\ Whole(entries, at)

Here == Body(entries, at)

IsEntry == Tag(entries, at) = Sequence /\ HasKey(Here)

PushKey ==
  /\ derPhase = "keys"
  /\ HasEntryAt /\ IsEntry
  /\ keys' = keys \cup {Body(Here, 0)}
  /\ at' = End(entries, at)
  /\ UNCHANGED <<entries, derPhase, pairs>>

(* Mutant: an entry whose value cannot be decoded is left out. *)
PushWholePair ==
  /\ derPhase = "pairs"
  /\ HasEntryAt /\ IsEntry
  /\ pairs' = IF DecodeValue[Rest(Here, End(Here, 0)), 0] = <<>>
              THEN pairs ELSE Append(pairs, Pair(Here))
  /\ at' = End(entries, at)
  /\ UNCHANGED <<entries, derPhase, keys>>

PushPair ==
  /\ derPhase = "pairs"
  /\ HasEntryAt /\ IsEntry
  /\ pairs' = Append(pairs, Pair(Here))
  /\ at' = End(entries, at)
  /\ UNCHANGED <<entries, derPhase, keys>>

SkipDerEntry ==
  /\ HasEntryAt /\ ~IsEntry
  /\ at' = End(entries, at)
  /\ UNCHANGED <<entries, derPhase, keys, pairs>>

EndKeys ==
  /\ derPhase = "keys" /\ ~HasEntryAt
  /\ derPhase' = "pairs" /\ at' = 0
  /\ UNCHANGED <<entries, keys, pairs>>

EndPairs ==
  /\ derPhase = "pairs" /\ ~HasEntryAt
  /\ derPhase' = "done"
  /\ UNCHANGED <<entries, at, keys, pairs>>

WalkEntitlements == PushKey \/ PushPair \/ SkipDerEntry \/ EndKeys \/ EndPairs
=============================================================================
