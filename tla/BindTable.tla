------------------------------ MODULE BindTable ------------------------------
(***************************************************************************)
(* How MachoBinary::imports gives every bind its symbol and its dylib:     *)
(* the rows of the legacy opcode stream first, then the chained binds,     *)
(* each resolved through the imports table of LC_DYLD_CHAINED_FIXUPS and   *)
(* through the list of dylibs the load commands name.                      *)
(*                                                                         *)
(* Both lists are read by iterators that fail soft and are addressed by    *)
(* position: a bind holds an index into the imports table, an import an    *)
(* index into the dylibs.  What goes wrong here is one list losing a row   *)
(* the other list counts.                                                  *)
(*                                                                         *)
(* The slots to resolve are the binds FixupChains finds.  Two widths       *)
(* matter: lib_ordinal is 8 bits in the Plain and Addend formats and 16 in *)
(* Addend64; ShortHalf and LongHalf are half of their ranges.              *)
(***************************************************************************)
EXTENDS Integers, Sequences, FiniteSets

CONSTANTS
  Files,        \* the files imports() may be called on
  Names,        \* symbol names
  Dylibs,       \* install names
  Blank,        \* the empty string
  Unreadable,   \* a string whose offset is out of bounds or not UTF-8
  ShortHalf,    \* 2^7: lib_ordinal of Plain and Addend
  LongHalf,     \* 2^15: lib_ordinal of Addend64
  MaxAddend     \* largest i64

ImportsFormat == {"Plain", "Addend", "Addend64", "Other"}

(* The LC_* commands that name a dependency, and the others. *)
LoadKinds == {"LoadDylib", "LoadWeakDylib", "ReexportDylib",
              "LoadUpwardDylib", "LazyLoadDylib"}
OtherKinds == {"IdDylib", "Segment"}

Addends == -(MaxAddend + 1) .. MaxAddend

Command == [kind: LoadKinds \cup OtherKinds,
            name: Dylibs \cup {Blank, Unreadable}]

(* An entry of the imports table, its lib_ordinal still unsigned. *)
Raw == [lib: 0 .. (2 * LongHalf - 1), weak: BOOLEAN,
        name: Names \cup {Blank, Unreadable}, addend: Addends]

(* A bind slot as the chain walk hands it over; file is the offset that    *)
(* vm_to_file_offset finds for its address, 0 when there is none.          *)
BindSlot == [ordinal: Nat, addend: Addends, va: Nat, file: Nat]

Specials == {"self", "main-executable", "flat-namespace", "weak"}

ImportRow == [name: Names \cup {Blank}, dylib: Dylibs \cup Specials \cup {Blank},
        weak: BOOLEAN, lazy: BOOLEAN, addend: Addends, va: Nat, file: Nat]

(* entries are those of the table that lie inside the file, the first      *)
(* inPayload of them inside the LC_DYLD_CHAINED_FIXUPS payload; count is   *)
(* what the header claims.  legacy is empty when goblin fails.             *)
File == [commands: Seq(Command), format: ImportsFormat, count: Nat,
         entries: Seq(Raw), inPayload: Nat, slots: Seq(BindSlot), legacy: Seq(ImportRow)]

ASSUME BindAssumption ==
  /\ ShortHalf \in Nat \ {0} /\ LongHalf \in Nat \ {0} /\ ShortHalf <= LongHalf
  /\ MaxAddend \in Nat
  /\ Unreadable \notin Names \cup Dylibs \cup Specials \cup {Blank}
  /\ Files \subseteq File

VARIABLES
  file,     \* the file, never written
  stage,    \* "legacy", "imports", "dylibs", "binds" or "done"
  taken,    \* entries, commands or slots already taken in this stage
  imports,  \* ChainedFixups::imports(), collected
  dylibs,   \* the names of MachoBinary::dylibs(), collected
  rows      \* the rows imports() returns

importVars == <<file, stage, taken, imports, dylibs, rows>>
-----------------------------------------------------------------------------
(* Decoding *)

SignExtend(raw, half) == IF raw >= half THEN raw - 2 * half ELSE raw

LibOrdinal(format, raw) ==
  IF format = "Addend64" THEN SignExtend(raw, LongHalf)
  ELSE SignExtend(raw % (2 * ShortHalf), ShortHalf)

(* decode_import_plain, _addend, _addend64 and the row built from them;    *)
(* read_pool_string fails soft with the empty string.                      *)
Decode(format, raw) ==
  [lib |-> LibOrdinal(format, raw.lib), weak |-> raw.weak,
   name |-> IF raw.name = Unreadable THEN Blank ELSE raw.name,
   addend |-> IF format = "Plain" THEN 0 ELSE raw.addend]

(* Mutant: a plain addition. *)
NoClamp(n) == n

Clamp(n) == IF n > MaxAddend THEN MaxAddend
            ELSE IF n < -(MaxAddend + 1) THEN -(MaxAddend + 1) ELSE n

(* Mutant: the 1-based ordinal used as a 0-based index. *)
ResolveLibZeroBased(lib, names) ==
  IF lib \in 0 .. (Len(names) - 1) THEN names[lib + 1] ELSE Blank

(* resolve_lib_ordinal *)
ResolveLib(lib, names) ==
  CASE lib > 0  -> IF lib \in DOMAIN names THEN names[lib] ELSE Blank
    [] lib = 0  -> "self"
    [] lib = -1 -> "main-executable"
    [] lib = -2 -> "flat-namespace"
    [] lib = -3 -> "weak"
    [] OTHER    -> Blank

(* resolve_import and the Bind and Import rows built from its answer. *)
Resolve(slot) ==
  LET found == slot.ordinal + 1 \in DOMAIN imports
      imp   == imports[slot.ordinal + 1]
  IN  [name   |-> IF found THEN imp.name ELSE Blank,
       dylib  |-> IF found THEN ResolveLib(imp.lib, dylibs) ELSE Blank,
       weak   |-> found /\ imp.weak,
       lazy   |-> FALSE,
       addend |-> Clamp(slot.addend + IF found THEN imp.addend ELSE 0),
       va     |-> slot.va,
       file   |-> slot.file]
-----------------------------------------------------------------------------
ImportInit ==
  /\ file \in Files
  /\ stage = "legacy"
  /\ taken = 0
  /\ imports = <<>> /\ dylibs = <<>> /\ rows = <<>>

Turn(from, to) == stage = from /\ stage' = to /\ taken' = 0

(* Mutant: one row too few. *)
EndLegacyEarly ==
  /\ Turn("legacy", "imports")
  /\ taken + 1 = Len(file.legacy) \/ taken = Len(file.legacy)
  /\ UNCHANGED <<file, imports, dylibs, rows>>

(* The rows goblin decodes from the bind opcodes, copied one by one. *)
TakeLegacy ==
  /\ stage = "legacy"
  /\ taken < Len(file.legacy)
  /\ rows' = Append(rows, file.legacy[taken + 1])
  /\ taken' = taken + 1
  /\ UNCHANGED <<file, stage, imports, dylibs>>

EndLegacy ==
  /\ Turn("legacy", "imports")
  /\ taken = Len(file.legacy)
  /\ UNCHANGED <<file, imports, dylibs, rows>>

(* ChainedImportIter::next *)
HasImport ==
  /\ file.format # "Other"
  /\ taken < file.count
  /\ taken < Len(file.entries)

TakeImport ==
  /\ stage = "imports"
  /\ HasImport
  /\ imports' = Append(imports, Decode(file.format, file.entries[taken + 1]))
  /\ taken' = taken + 1
  /\ UNCHANGED <<file, stage, dylibs, rows>>

(* The count is reached, the next entry is not in the file, or the format  *)
(* is unknown.                                                             *)
EndImports ==
  /\ Turn("imports", "dylibs")
  /\ ~HasImport
  /\ UNCHANGED <<file, imports, dylibs, rows>>

(* DylibIter::next *)
Scanning == stage = "dylibs" /\ taken < Len(file.commands)

LC == file.commands[taken + 1]

TakeDylib ==
  /\ Scanning
  /\ LC.kind \in LoadKinds
  /\ LC.name # Unreadable
  /\ dylibs' = Append(dylibs, LC.name)
  /\ taken' = taken + 1
  /\ UNCHANGED <<file, stage, imports, rows>>

(* "Malformed: name offset out of bounds.  Fail-soft." *)
SkipNameless ==
  /\ Scanning
  /\ LC.kind \in LoadKinds
  /\ LC.name = Unreadable
  /\ taken' = taken + 1
  /\ UNCHANGED <<file, stage, imports, dylibs, rows>>

(* LC_ID_DYLIB and everything that is no dependency. *)
SkipOther ==
  /\ Scanning
  /\ LC.kind \notin LoadKinds
  /\ taken' = taken + 1
  /\ UNCHANGED <<file, stage, imports, dylibs, rows>>

EndDylibs ==
  /\ Turn("dylibs", "binds")
  /\ taken = Len(file.commands)
  /\ UNCHANGED <<file, imports, dylibs, rows>>

TakeBind ==
  /\ stage = "binds"
  /\ taken < Len(file.slots)
  /\ rows' = Append(rows, Resolve(file.slots[taken + 1]))
  /\ taken' = taken + 1
  /\ UNCHANGED <<file, stage, imports, dylibs>>

EndBinds ==
  /\ Turn("binds", "done")
  /\ taken = Len(file.slots)
  /\ UNCHANGED <<file, imports, dylibs, rows>>

Imported == stage = "done" /\ UNCHANGED importVars

ImportNext ==
  \/ TakeLegacy \/ EndLegacy
  \/ TakeImport \/ EndImports
  \/ TakeDylib \/ SkipNameless \/ SkipOther \/ EndDylibs
  \/ TakeBind \/ EndBinds
  \/ Imported

ImportSpec == ImportInit /\ [][ImportNext]_importVars /\ WF_importVars(ImportNext)
-----------------------------------------------------------------------------
(* Properties *)

(* Type invariant; in particular no addend and no ordinal leaves its range.*)
ImportTypeOK ==
  /\ file \in File
  /\ stage \in {"legacy", "imports", "dylibs", "binds", "done"}
  /\ taken \in Nat
  /\ imports \in Seq([lib: -LongHalf .. (LongHalf - 1), weak: BOOLEAN,
                      name: Names \cup {Blank}, addend: Addends])
  /\ dylibs \in Seq(Dylibs \cup {Blank})
  /\ rows \in Seq(ImportRow)

(* import.rs: "Yields legacy rows first, then chained rows", none lost and *)
(* none twice: row k is the k-th legacy row or stands for the slot of its  *)
(* position, at every moment, and at the end there is a row for each.      *)
LegacyThenChained ==
  LET n == Len(file.legacy)
  IN  /\ \A k \in DOMAIN rows :
           IF k <= n THEN rows[k] = file.legacy[k]
           ELSE /\ rows[k].va = file.slots[k - n].va
                /\ rows[k].file = file.slots[k - n].file
      /\ stage = "done" => Len(rows) = n + Len(file.slots)

(* The number a lib_ordinal field holds: the one of its signed range that  *)
(* is congruent to the raw bits.                                           *)
DyldOrdinal(raw) ==
  LET half == IF file.format = "Addend64" THEN LongHalf ELSE ShortHalf
  IN  CHOOSE n \in -half .. (half - 1) : (n - raw) % (2 * half) = 0

(* The n-th command that names a dependency, as dyld counts them. *)
Dependency(n) ==
  {i \in DOMAIN file.commands :
     /\ file.commands[i].kind \in LoadKinds
     /\ Cardinality({j \in 1..i : file.commands[j].kind \in LoadKinds}) = n}

(* Every dependency's name can be read. *)
AllNamed ==
  \A i \in DOMAIN file.commands :
    file.commands[i].kind \in LoadKinds => file.commands[i].name # Unreadable

(* The imports table entry a slot's ordinal stands for. *)
EntryOf(slot) ==
  IF file.format # "Other" /\ slot.ordinal < file.count
  THEN {i \in DOMAIN file.entries : i = slot.ordinal + 1}
  ELSE {}

(* The dylib dyld would search for the import in the given entry. *)
SearchedDylibs(entry) ==
  {file.commands[i].name : i \in Dependency(DyldOrdinal(entry.lib))}

(* The chained rows with the slot each of them stands for. *)
ChainedRows ==
  {<<rows[Len(file.legacy) + k], file.slots[k]>> :
     k \in {j \in DOMAIN file.slots : Len(file.legacy) + j \in DOMAIN rows}}

(* Each chained row carries the symbol of the table entry its slot names   *)
(* and, when every dependency's name can be read, the install name of the  *)
(* library that entry counts to: the two fail-soft lists are still in step *)
(* with the numbers the file holds.  An ordinal that is not positive, one  *)
(* of dyld's special lookups, never resolves to one of those libraries.    *)
ResolvesAsDyld ==
  \A pair \in ChainedRows :
    LET row == pair[1]  slot == pair[2]
    IN  \A i \in EntryOf(slot) :
          /\ file.entries[i].name # Unreadable => row.name = file.entries[i].name
          /\ row.weak = file.entries[i].weak
          /\ AllNamed =>
               \A dylib \in SearchedDylibs(file.entries[i]) : row.dylib = dylib
          /\ DyldOrdinal(file.entries[i].lib) <= 0
               => row.dylib \in Specials \cup {Blank}

=============================================================================
