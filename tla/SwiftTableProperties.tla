------------------------ MODULE SwiftTableProperties ------------------------
(***************************************************************************)
(* What the rows of the __swift5_ sections must say, of any image and of   *)
(* what was compiled into it.  An image of a run knows this: rows, the     *)
(* rows the call has to yield, trailing objects apart; written[address],   *)
(* the objects behind each of them, where they are and what their entries  *)
(* hold; end, the address at which the file ends.                          *)
(***************************************************************************)
EXTENDS SwiftTables

(* How many of a set of numbers are not above one; of three-part places,   *)
(* how many do not come after one.                                         *)
Numbered(set, k) == Cardinality({j \in set : j <= k})

UpTo(p, q) ==
  \/ p[1] < q[1]
  \/ p[1] = q[1] /\ p[2] < q[2]
  \/ p[1] = q[1] /\ p[2] = q[2] /\ p[3] <= q[3]

Rank(places, q) == Cardinality({p \in places : UpTo(p, q)})
-----------------------------------------------------------------------------
(* The slots of a section of offsets, and those that lead to a row. *)
Slots ==
  IF ~IsSwift \/ Section = None THEN {}
  ELSE {k \in 1 .. Section.size : k * HalfSize <= Section.size}

SlotRow(k) == RowAt((k - 1) * HalfSize)

Decodable == {k \in Slots : SlotRow(k) # None}

Header(row) == IF call = "types" THEN [row.type EXCEPT !.blocks = <<>>] ELSE row

(* typedescriptor.rs, protocol.rs, conformance.rs: "Fail-soft: skip rows   *)
(* that fail to resolve".  Each slot that can be decoded yields its row    *)
(* once and in order, and no other slot costs more than itself.            *)
SlotsInOrder ==
  phase = "done" /\ call \in {"types", "protocols", "conformances"} =>
    /\ Len(rows) = Cardinality(Decodable)
    /\ \A k \in Decodable : Header(rows[Numbered(Decodable, k)]) = SlotRow(k)

Record(position) ==
  CASE call = "fields" -> FieldRow(position) [] call = "captures" -> CaptureRow(position)
    [] call = "replacements" -> ReplacementRow(position)

After(position) ==
  CASE call = "fields" -> NextFields(position) [] call = "captures" -> AfterCapture(position)
    [] call = "replacements" -> position + 8

Fits(position, passed) ==
  CASE call = "fields" -> FieldsFit(position) [] call = "captures" -> Within(position + 12)
    [] call = "replacements" -> Within(position + 8) /\ Announced(passed)

Position(k) == rows[k].address - Section.address

(* Where the record behind the first k is. *)
Follows(k) ==
  IF k # 0 THEN After(Position(k)) ELSE IF call = "replacements" THEN 8 ELSE 0

(* field.rs, capture.rs, replacement.rs: records of variable length have   *)
(* no index: each is read where the one before it ends, and only the first *)
(* that does not fit, or of which no more are announced, is the end.       *)
RecordsFollow ==
  call \in {"fields", "captures", "replacements"} =>
    /\ \A k \in DOMAIN rows :
         /\ Position(k) = Follows(k - 1) /\ Fits(Position(k), k - 1)
         /\ rows[k] = Record(Position(k))
    /\ phase = "done" /\ IsSwift => ~Fits(Follows(Len(rows)), Len(rows))

RowsInOrder == SlotsInOrder /\ RecordsFollow
-----------------------------------------------------------------------------
(* Where the object behind the first j trailing objects is. *)
Behind(found, j) ==
  IF j = 0 THEN found.body.after
  ELSE found.blocks[j].at + Size(found.blocks[j].of, found.blocks[j].at)

Flagged(found) == {k \in DOMAIN Blocks(found) : Has(found, Blocks(found)[k])}

(* classtrailers.rs: the trailing objects are those the flags announce, in *)
(* the declared order, each read where all before it end; the first whose  *)
(* size cannot be read, and none before it, takes the rest along.          *)
Laid(found) ==
  /\ \A j \in DOMAIN found.blocks :
       /\ found.blocks[j] = Block(found.blocks[j].of, Behind(found, j - 1))
       /\ Known(found.blocks[j].of, Behind(found, j - 1))
  /\ Len(found.blocks) <= Cardinality(Flagged(found))
  /\ \A k \in Flagged(found) :
       LET j == Numbered(Flagged(found), k)
       IN  /\ j <= Len(found.blocks) => found.blocks[j].of = Blocks(found)[k]
           /\ j = Len(found.blocks) + 1 => ~Known(Blocks(found)[k], Behind(found, j - 1))

TrailersFollow == call = "types" => \A k \in DOMAIN rows : Laid(rows[k].type)

(* The tables of a row, and what one of them yields. *)
TablesOf(k) ==
  CASE call = "types" -> [j \in DOMAIN rows[k].type.blocks |-> TableOf(rows[k].type.blocks[j])]
    [] call = "fields" -> <<RecordTable(Position(k))>>
    [] call \notin {"types", "fields"} -> <<>>

Yielded(table) == {e \in 0 .. table.count - 1 : \A i \in 0 .. e : EntryAt(table, i) # None}

(* The place of an entry: row, table of the row, entry of the table. *)
EntryPlaces ==
  UNION {UNION {{<<k, j, e>> : e \in Yielded(TablesOf(k)[j])} : j \in DOMAIN TablesOf(k)} :
           k \in DOMAIN rows}

EntryOf(p) ==
  LET table == TablesOf(p[1])[p[2]]
  IN  [row |-> p[1], of |-> table.of, fields |-> EntryAt(table, p[3])]

(* vtable.rs, classtrailers.rs, field.rs: the tables are those of the      *)
(* trailing objects that were found, row by row, and each yields its       *)
(* entries in order, up to the first that cannot be read and never beyond  *)
(* its count; an entry that cannot be read ends no other table, and no     *)
(* position is carried over from one table to the next.                    *)
EntriesFollow ==
  phase = "done" =>
    /\ Len(entries) = Cardinality(EntryPlaces)
    /\ \A p \in EntryPlaces : entries[Rank(EntryPlaces, p)] = EntryOf(p)

TablesInOrder == TrailersFollow /\ EntriesFollow
-----------------------------------------------------------------------------
(* field.rs, capture.rs, replacement.rs: records of variable length are    *)
(* found one behind the other, each where one was written, up to the first *)
(* that does not fit or whose length is unknown.                           *)
RecordsInStep ==
  phase = "done" /\ call \in {"fields", "captures", "replacements"} => rows = image.rows

(* swift/mod.rs: rows that cannot be decoded are skipped, and no others:   *)
(* the descriptors of a table come out in order with what their headers    *)
(* say, whatever null or broken slot stands between them, and an image     *)
(* without Swift sections has none; sections without a table are walked    *)
(* in step with their records.                                             *)
RowsAsWritten ==
  /\ phase = "done" /\ call \in {"types", "protocols", "conformances"} =>
       [k \in DOMAIN rows |-> Header(rows[k])] = image.rows
  /\ RecordsInStep

(* field_offsets: the offsets of a struct's fields are those its static    *)
(* metadata holds, or "an honest-unknown layout rather than fabricate      *)
(* offsets".                                                               *)
OffsetsAsWritten ==
  call = "types" =>
    \A k \in DOMAIN rows : rows[k].offsets = image.written[rows[k].type.address].offsets

(* classtrailers.rs: each trailing object is found where it was written,   *)
(* under every combination of those before it, and only the ones behind an *)
(* object that cannot be read are given up: "Better to surface partial     *)
(* trailing information than to fail the entire descriptor walk".  The     *)
(* field offsets behind them are those of the static metadata.             *)
TrailersAsWritten ==
  /\ call = "types" =>
       \A k \in DOMAIN rows :
         LET found == rows[k].type
             written == IF found.body.kind = "nontype" THEN <<>>
                        ELSE image.written[found.address].blocks
             kept == {j \in DOMAIN written : \A i \in 1..j : written[i].reach <= image.end}
         IN  found.blocks = [j \in kept |-> written[j].block]
  /\ OffsetsAsWritten

EntriesOf(k, of) ==
  LET table == SelectSeq(entries, LAMBDA e : e.row = k /\ e.of = of)
  IN  [j \in DOMAIN table |-> table[j].fields]

(* vtable.rs, field.rs: a table yields the entries written into it, as far *)
(* as the file goes, under the row they belong to.                         *)
EntriesAsWritten ==
  phase = "done" /\ call \in {"types", "fields"} =>
    \A k \in DOMAIN rows :
      LET address == IF call = "types" THEN rows[k].type.address ELSE rows[k].address
          blocks == image.written[address].blocks
          lost(j) == call = "types" /\ j > Len(rows[k].type.blocks)
      IN  \A j \in DOMAIN blocks :
            LET due == {i \in DOMAIN blocks[j].entries :
                          ~lost(j) /\ blocks[j].entries[i].end <= image.end}
            IN  EntriesOf(k, blocks[j].block.of)
                  = [i \in due |-> blocks[j].entries[i].fields]

(* Rows, trailing objects and entries are those that were compiled in. *)
TablesAsWritten == RowsAsWritten /\ TrailersAsWritten /\ EntriesAsWritten

(* All iterators end. *)
Terminates == <>(phase = "done")
=============================================================================
