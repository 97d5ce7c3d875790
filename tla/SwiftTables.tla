----------------------------- MODULE SwiftTables -----------------------------
(***************************************************************************)
(* SwiftRuntime::build, and each of its iterators drained: types() with    *)
(* the tables of every type, protocols(), conformances(),                  *)
(* field_descriptors() with the records of every descriptor, captures()    *)
(* and dynamic_replacements().                                             *)
(***************************************************************************)
EXTENDS ClassTrailers

CONSTANTS
  Calls         \* images, each with the iterator that is drained

VARIABLES
  call,         \* which iterator is drained
  phase,        \* "build", "rows", "trailers", "entries" or "done"
  cursor,       \* bytes of the section passed
  rows,         \* the rows yielded
  tables,       \* the tables of the last row that are not drained
  entry,        \* entries of the first of them passed
  entries       \* the entries yielded, each with the row and the table

tableVars == <<tables, entry, entries>>

vars == <<image, call, phase, cursor, rows, tableVars, trailerVars>>

SectionOf == [types |-> "types", protocols |-> "protos", conformances |-> "proto",
              fields |-> "fieldmd", captures |-> "capture", replacements |-> "replac"]

Section == image.sections[SectionOf[call]]

IsSection(section) ==
  section = None \/ {section.address, section.size, section.offset} \subseteq Nat

(* Offsets, addresses and words are unsigned. *)
ASSUME CallsAssumption ==
  \A pair \in Calls :
    /\ pair[1].words \in [DOMAIN pair[1].words -> Nat]
    /\ pair[2] \in DOMAIN SectionOf
    /\ IsSection(pair[1].sections[SectionOf[pair[2]]])

Init ==
  /\ \E pair \in Calls : image = pair[1] /\ call = pair[2]
  /\ phase = "build" /\ cursor = 0 /\ rows = <<>>
  /\ tables = <<>> /\ entry = 0 /\ entries = <<>>
  /\ TrailerInit

IsSwift ==
  /\ image.is64
  /\ \E name \in {"types", "protos", "proto", "fieldmd"} : image.sections[name] # None

Build ==
  /\ phase = "build" /\ IsSwift
  /\ phase' = "rows"
  /\ UNCHANGED <<image, call, cursor, rows, tableVars, trailerVars>>

NotSwift ==
  /\ phase = "build" /\ ~IsSwift
  /\ phase' = "done"
  /\ UNCHANGED <<image, call, cursor, rows, tableVars, trailerVars>>

Within(end) == Section # None /\ end <= Section.size
-----------------------------------------------------------------------------
(* TypeIter, ProtocolIter, ConformanceIter: a section of offsets to the    *)
(* descriptors.                                                            *)
HasSlot ==
  /\ phase = "rows" /\ call \in {"types", "protocols", "conformances"}
  /\ Within(cursor + HalfSize)

Decode(va) ==
  CASE call = "types" -> TypeRow(va) [] call = "protocols" -> ProtocolRow(va)
    [] call = "conformances" -> ConformanceRow(va)

(* The row of the slot at a position, None if it has none. *)
RowAt(position) ==
  LET offset == SectionHalf(Section, position)
  IN  IF offset = 0 THEN None ELSE Decode(RelativePointer(Section.address + position, offset))

Row == RowAt(cursor)

(* Mutant: the first row that does not decode ends the section. *)
SkipSlotAndRest ==
  /\ HasSlot
  /\ Row = None
  /\ cursor' = IF SectionHalf(Section, cursor) = 0 THEN cursor + HalfSize ELSE Section.size
  /\ UNCHANGED <<image, call, phase, rows, tableVars, trailerVars>>

(* Mutant: a slot is passed only once its row is decoded. *)
SkipSlotStuck ==
  /\ HasSlot
  /\ Row = None
  /\ cursor' = IF SectionHalf(Section, cursor) = 0 THEN cursor + HalfSize ELSE cursor
  /\ UNCHANGED <<image, call, phase, rows, tableVars, trailerVars>>

SkipSlot ==
  /\ HasSlot
  /\ Row = None
  /\ cursor' = cursor + HalfSize
  /\ UNCHANGED <<image, call, phase, rows, tableVars, trailerVars>>

TakeRow ==
  /\ HasSlot /\ call # "types"
  /\ \E row \in {Row} : row # None /\ rows' = Append(rows, row)
  /\ cursor' = cursor + HalfSize
  /\ UNCHANGED <<image, call, phase, tableVars, trailerVars>>

TakeType ==
  /\ HasSlot /\ call = "types"
  /\ \E row \in {Row} : row # None /\ type' = row /\ at' = row.body.after
  /\ block' = 0
  /\ cursor' = cursor + HalfSize
  /\ phase' = "trailers"
  /\ UNCHANGED <<image, call, rows, tableVars>>

WalkTrailers ==
  /\ phase = "trailers"
  /\ AbsentBlock \/ TakeBlock \/ LostBlock
  /\ UNCHANGED <<image, call, phase, cursor, rows, tableVars>>

TableOf(found) ==
  [of |-> found.of, base |-> found.base, count |-> found.count,
   stride |-> HalfSize * Len(Fields(found.of))]

(* field_offsets: the vector of a struct whose metadata is in the file. *)
Offsets(pointers) ==
  LET base == Relative(pointers[1].at) + WordSize * type.body.counts[2]
      count == type.body.counts[1]
  IN  IF /\ type.body.kind = "struct" /\ pointers # <<>>
         /\ type.body.counts[1] # 0 /\ type.body.counts[2] # 0
         /\ ReadBytes(image, pointers[1].at, HalfSize) /\ Relative(pointers[1].at) # 0
         /\ ReadBytes(image, base, HalfSize * count)
      THEN [k \in 1..count |-> Half(base + HalfSize * (k - 1))] ELSE None

FieldOffsets ==
  Offsets(SelectSeq(type.blocks, LAMBDA found : found.of = "metadata pointer"))

EndTrailers ==
  /\ phase = "trailers" /\ ~HasBlock
  /\ tables' = [k \in DOMAIN type.blocks |-> TableOf(type.blocks[k])]
  /\ rows' = Append(rows, [type |-> type, offsets |-> FieldOffsets])
  /\ type' = None /\ phase' = "entries"
  /\ UNCHANGED <<image, call, cursor, entry, entries, at, block>>
-----------------------------------------------------------------------------
(* FieldIter: descriptors of variable length, one behind the other. *)
RecordSize(position) == SectionHalf(Section, position + 8) \div ShortUnit

RecordCount(position) == SectionHalf(Section, position + 12)

NextFields(position) == position + 16 + RecordSize(position) * RecordCount(position)

FieldText(position) ==
  LET half == SectionHalf(Section, position)
  IN  IF half = 0 THEN None
      ELSE ReadCStr(image, RelativePointer(Section.address + position, half))

(* The name of the type, that of its superclass, and the kind. *)
FieldRow(position) ==
  [address |-> Section.address + position, type |-> FieldText(position),
   superclass |-> FieldText(position + 4),
   kind |-> SectionHalf(Section, position + 8) % ShortUnit]

RecordTable(position) ==
  [of |-> "records", base |-> Section.address + position + 16,
   count |-> RecordCount(position), stride |-> RecordSize(position)]

FieldsFit(position) == Within(position + 16) /\ Within(NextFields(position))

HasFields == phase = "rows" /\ call = "fields" /\ FieldsFit(cursor)

TakeFields ==
  /\ HasFields
  /\ rows' = Append(rows, FieldRow(cursor))
  /\ tables' = <<RecordTable(cursor)>>
  /\ cursor' = NextFields(cursor)
  /\ phase' = "entries"
  /\ UNCHANGED <<image, call, entry, entries, trailerVars>>
-----------------------------------------------------------------------------
(* CaptureIter: nothing can be found behind a descriptor with bindings. *)
Captured(position, k) == SectionHalf(Section, position + HalfSize * k)

CaptureRow(position) ==
  [address |-> Section.address + position,
   counts |-> <<Captured(position, 0), Captured(position, 1), Captured(position, 2)>>]

AfterSources(position) ==
  position + 12 + HalfSize * Captured(position, 0) + 2 * HalfSize * Captured(position, 1)

AfterCapture(position) ==
  IF Captured(position, 2) # 0 \/ ~Within(AfterSources(position)) THEN Section.size
  ELSE AfterSources(position)

HasCapture == phase = "rows" /\ call = "captures" /\ Within(cursor + 12)

TakeCapture ==
  /\ HasCapture
  /\ rows' = Append(rows, CaptureRow(cursor))
  /\ cursor' = AfterCapture(cursor)
  /\ UNCHANGED <<image, call, phase, tableVars, trailerVars>>

(* ReplacementIter: a header says how many entries follow. *)
Scope == IF cursor = 0 THEN 8 ELSE cursor

ReplacementRow(position) ==
  LET half == SectionHalf(Section, position)
  IN  [address |-> Section.address + position,
       scope |-> IF half = 0 THEN 0 ELSE RelativePointer(Section.address + position, half),
       flags |-> SectionHalf(Section, position + 4)]

(* The header announces more than those that were passed. *)
Announced(passed) == passed < SectionHalf(Section, 4)

HasReplacement ==
  /\ phase = "rows" /\ call = "replacements"
  /\ Within(Scope + 8) /\ Announced(Len(rows))

TakeReplacement ==
  /\ HasReplacement
  /\ rows' = Append(rows, ReplacementRow(Scope))
  /\ cursor' = Scope + 8
  /\ UNCHANGED <<image, call, phase, tableVars, trailerVars>>

EndRows ==
  /\ phase = "rows"
  /\ ~HasSlot /\ ~HasFields /\ ~HasCapture /\ ~HasReplacement
  /\ phase' = "done"
  /\ UNCHANGED <<image, call, cursor, rows, tableVars, trailerVars>>
-----------------------------------------------------------------------------
(* VTableIter, OverrideEntryIter, DefaultOverrideEntryIter,                *)
(* PrespecializationIter, FieldRecordIter, and the accessors of one block: *)
(* an entry that cannot be read is the last.                               *)
Table == Head(tables)

EntryAt(table, k) == Entry(table.of, table.base + k * table.stride)

Found == IF entry < Table.count THEN EntryAt(Table, entry) ELSE None

TakeEntry ==
  /\ phase = "entries" /\ tables # <<>>
  /\ \E found \in {Found} :
       /\ found # None
       /\ entries' = Append(entries, [row |-> Len(rows), of |-> Table.of, fields |-> found])
  /\ entry' = entry + 1
  /\ UNCHANGED <<image, call, phase, cursor, rows, tables, trailerVars>>

(* Mutant: the entries of the next table are counted on. *)
EndTableOn ==
  /\ phase = "entries" /\ tables # <<>>
  /\ Found = None
  /\ tables' = Tail(tables) /\ entry' = IF Table.of = "vtable" THEN entry ELSE 0
  /\ UNCHANGED <<image, call, phase, cursor, rows, entries, trailerVars>>

EndTable ==
  /\ phase = "entries" /\ tables # <<>>
  /\ Found = None
  /\ tables' = Tail(tables) /\ entry' = 0
  /\ UNCHANGED <<image, call, phase, cursor, rows, entries, trailerVars>>

EndEntries ==
  /\ phase = "entries" /\ tables = <<>>
  /\ phase' = "rows"
  /\ UNCHANGED <<image, call, cursor, rows, tableVars, trailerVars>>

Returned == phase = "done" /\ UNCHANGED vars

Work ==
  \/ Build \/ NotSwift \/ SkipSlot \/ TakeRow \/ TakeType \/ WalkTrailers \/ EndTrailers
  \/ TakeFields \/ TakeCapture \/ TakeReplacement \/ EndRows
  \/ TakeEntry \/ EndTable \/ EndEntries

Next == Work \/ Returned

Spec == Init /\ [][Next]_vars /\ WF_vars(Work)
=============================================================================
