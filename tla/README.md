# A verification model of darwinscope

darwinscope is a Rust library that reads Mach-O files: load commands, fixups, Objective-C and Swift
metadata, CoreFoundation strings, blocks and code signatures. It is sequential and keeps nothing on
disk. Its inputs are not under its control, and its own promise (src/error.rs:4-6) is to *fail soft*:
a row that cannot be decoded is skipped and costs only itself. What is hard about it is therefore

- iterators whose next position comes from the file (fixup chains, ULEB128 streams, parent contexts,
  metaclasses): they must move forward, repeat nothing, and end;
- lists that lose rows on the way while other lists address them by position;
- several decoders of the same bytes that have to agree (two walks from a class to its name, a chain
  entry read as an entry by one and as a pointer by another);
- one broken row between good ones;
- arithmetic at the limits of 64 bits, of a segment, of a 7-bit digit.

This directory holds TLA+ modules of these parts, TLC runs that check them on small instances, and
proofs checked by TLAPS.

## Inventory

| Component (source) | State | Operations | What makes it correct | Module |
|---|---|---|---|---|
| Image selection, header (`binary.rs`) | slice index, header fields, cached count | `parse`, `parse_with_arch`, `new`, `function_starts` | first matching slice; header independent of command order; count agrees with the stream | `MachoHeader` |
| Function starts, ULEB128 (`binary.rs`, `util.rs`) | cursor, running address | `read_uleb128`, `FunctionStartIter::next` | running sums of the numbers, ascending, up to the terminator | `FunctionStarts` |
| Address translation (`util.rs`) | loop over the segments | `vm_to_file_offset_in` | the byte of that address, found whenever it is on disk | `VmMap` |
| Chained fixups (`fixup.rs`) | segment cursor, (segment, page, slot) of the walk | `ChainedSegmentIter::next`, `collect_chained_segments`, `decode_segment_chains` | every slot of every chain, in order, once; ends | `FixupChains`, `FixupSlots` |
| Binds, imports, dylibs (`fixup.rs`, `dylib.rs`, `binary.rs`) | imports read, libraries listed, rows | `ChainedImportIter::next`, `DylibIter::next`, `resolve_lib_ordinal`, `imports` | every bind gets its symbol and the library dyld would search | `BindTable` |
| Objective-C classes, references (`objc/`) | bind and rebase index, queue of classes, pending metaclass | `build`, `ClassIter`, `next_ref_target`, name decoders | each class once, its metaclass behind it; decoders agree; binds are external | `ObjcImage`, `ObjcRuntime` |
| Swift contexts (`swift/typedescriptor.rs`, `swift/parent.rs`) | table cursor, next parent | `TypeIter::next`, `ParentChain::next`, `qualified_name` | no type lost; the name spells the ancestors; ends | `SwiftContexts` |
| Objective-C members, protocols, categories (`objc/method.rs`, `ivar.rs`, `property.rs`, `protocol.rs`, `category.rs`, `conformance.rs`) | list cursors, categories already seen | list iterators with entry sizes from the file, `decode_protocol`, `decode_category`, `parse_attributes` | each list yields what was compiled into it, under its row; each category once; hosts have their names | `MemberLists`, `ObjcMembers`, `PropertyAttributes` |
| Swift descriptors and trailing objects (`swift/typedescriptor.rs`, `classtrailers.rs`, `context.rs`, `vtable.rs`) | running offset | `TypeIter`, `decode_class_trailers`, `decode_value_type_trailers`, table iterators, `field_offsets` | each object is read where the ones before it end; a broken one costs only those behind it | `SwiftRecords`, `ClassTrailers`, `SwiftTables` |
| Swift fields, protocols, conformances, captures, replacements (`swift/`) | section cursors | `FieldIter`, `FieldRecordIter`, `ProtocolIter`, `ConformanceIter`, `CaptureIter`, `ReplacementIter` | records of variable length stay in step | `SwiftRecords`, `SwiftTables` |
| CoreFoundation strings, sections (`cfstring.rs`, `segment.rs`) | current section table, section cursor | `SectionIter::next`, `build`, `CFStringIter::next`, `decode_body` | the first section of that name; a row for every quadruple; the text it was written for | `CfStrings` |
| Blocks (`block.rs`) | two lists of bind sites | `build`, `ReferenceIter`, `LiteralIter`, `decode_descriptor` | every anchor bind with a library string, and no runtime only without one; layout follows the flags; a row for every site | `BlockRuntime` |
| Code signature (`codesign.rs`) | blob cursors, hash cursors, evaluation depth | `Signature::parse` and one accessor for each slot, hash iterators, `eval_expression`, DER walks | every hash listed, none twice; text means what the expression means; entitlements come out as written, but for integers that do not fit or have a sign | `CodeSignature`, `RequirementText`, `DerEntitlements` |
| Symbols, exports, pointer-authentication views, dump tool | none | accessors | none beyond field layout | not modelled |

**How they interact.** Everything is called by one thread. `MachoBinary::new` fixes the header and the
load commands used later. `chained_rebases`, `chained_binds` and `imports` walk the chains again on every
call. `ObjcRuntime::build`, `SwiftRuntime::build` and `BlockRuntime::build` drain `imports()` into a list or
an index, and all but the Swift one, like `CFStringRuntime::build`, drain `chained_rebases()` into a hash map
keyed by slot address: whatever the chain walk drops, repeats or mislabels is there to stay in every row
those runtimes produce. All of them read through `vm_to_file_offset_in`. The members of a class, protocol
or category hang from rows of the runtime's iterators, the tables of a Swift type from rows of `TypeIter`.
`MachoHeader` extends `FunctionStarts`, `ConstantObjects` composes `BlockRuntime` and `CfStrings` (two
runtimes on one image, drained in any order by the caller), `ObjcMembers` composes the member lists with
their owners, `SwiftTables` the trailing objects with the types, `CodeSignature` the two decoders of blobs
with the lookup of blobs. The other seams are modelled by inputs that range over what the neighbour can hand
over (for instance, an import row whose library string is no part of the file, which `BindTable` shows to
occur).

## Modules and the code

**`FixupChains`** (with `FixupProperties`). `cursor` counts the entries `ChainedSegmentIter` has consumed,
`locs` is the list `collect_chained_segments` returns; `loc`, `page` and `off` are the loop variables of
`decode_segment_chains` (segment, page index, offset of the slot inside the page), `rebases` and `binds`
its output. Actions: `SkipEntry`, `TakeEntry`, `OrphanEntry`, `BrokenEntry`, `EndOfEntries` for the iterator
and the pairing by segment index; `NextSegment`, `SkipSegment`, `EndSegment`, `NextPage`, `SkipPage`,
`StartChain` for the three nested loops; `VisitRebase`, `VisitBind`, `LeaveExtent` for one slot. `SatAdd` is
`saturating_add`. **`FixupSlots`** is the abstract specification: the chains of the image as sets of
positions, of which one after another is reported. `ReportsEverySlot` is its `Spec` under a refinement
mapping (`Promise!Spec`), so a run that checks it shows that every step of the three loops reports the slot
that is due or stutters, and that all of them are reported.

**`BindTable`**. Actions follow `imports()`: legacy rows first, then `ChainedFixups::imports`
(`TakeImport`, `EndImports`), then `DylibIter` (`TakeDylib`, `SkipNameless`, `SkipOther`), then one bind
after another (`TakeBind`). `Raw` and `SignExtend` keep the width of `lib_ordinal`; the 64-bit addend
arithmetic is scaled down and clamped by `Clamp`.

**`MachoHeader`** extends **`FunctionStarts`**. `PickSlice`/`SkipSlice`/`NoSlice` are the loop of
`parse_predicate`, `Take...` one load command of `new`, `BeginWalk`, `WalkStarts`, `Count` the walk that
fills `function_starts_count`. In `FunctionStarts` a step is one byte of `read_uleb128`.

**`VmMap`**. One segment a step: `Pass`, `Abort` (the `?` on overflow), `Hit`, `Bss`, `Exhausted`.

**`ObjcImage`** holds what can be read from an image (bytes, strings, pointer slots, `class_t`,
`class_ro_t`) as operators, one for each function of the code. **`ObjcRuntime`** has the two index loops of
`build`, the collection of the class lists, `ClassIter::next` and `next_ref_target`. The number a slot
holds is scaled down: a word is two addresses, a signature bit stands above the address bits, a flag bit
below.

**`SwiftContexts`**. `SkipRow`, `TakeRow`, `EndTypes` are `TypeIter::next` with
`decode_type_descriptor`; `Hop` and `EndChain` the parent walk and the name `qualified_name` returns.

**`DataImage`** has the reads that blocks, strings, members and the Swift walkers have in common: bytes,
words, C strings, and `resolve_pointer` (a rebase row, or the slot without its signature). An image is
the set of things that can be read from it: its segments, the numbers and texts at file offsets, the rebase
rows.

**`ConstantObjects`** composes **`BlockRuntime`** (`AddGlobal`, `AddStack`, `SkipImport`, `EndImports`,
`IndexRebases` are `build`; `YieldGlobal`, `TurnToStack`, `YieldStack` are `ReferenceIter`; `DecodeLiteral`
and `SkipLiteral` are `LiteralIter`) with **`CfStrings`** (`NextTable`, `SkipMalformed` and `PassSection` are
`SectionIter` under the loop of `build`; `NextString` is one quadruple, `Body` is `decode_body`). Their steps
interleave, as the caller may interleave the iterators.

**`ObjcMembers`** extends **`MemberLists`** (headers, the stride, and one operator for each record) and
**`PropertyAttributes`**. `CollectCategory`, `SkipSlot` and `EndCollect` are `CategoryIter::new`, `TakeRow`
and `PassRow` an outer iterator, `OpenList`, `TakeMember`, `PassMember`, `EndList` the list iterators of the
row that was yielded last, `NextAttribute` one item of `parse_attributes`. **`MemberProperties`** states what
must come out: of any image (`EachRowOnce`, `MembersInOrder`, `ItemsSpanString`) and, beside it, of what was
compiled into the images of the run (`MembersAsWritten`).

**`SwiftTables`** extends **`ClassTrailers`**, which extends **`SwiftRecords`**. `Build` and `NotSwift` are
`SwiftRuntime::build`; `SkipSlot`, `TakeRow`, `TakeType` the iterators over tables of relative pointers;
`AbsentBlock`, `TakeBlock`, `LostBlock` one trailing object each, in the declared order; `TakeFields`,
`TakeCapture`, `TakeReplacement` the iterators over records that lie one behind the other; `TakeEntry` and
`EndTable` the table iterators. **`SwiftTableProperties`** states what must come out: of any image
(`RowsInOrder`, `TablesInOrder`) and of what was compiled into the images of the run (`TablesAsWritten`).

**`CodeSignature`** extends **`RequirementText`** and **`DerEntitlements`**. `Look`, `Hit`, `Miss` are
`find_blob_bytes`; `TakePrimary`, `TakeAlternate`, `SkipAlternate`, `TakeRequirements`, `TakeDer`,
`TakePayload`, `NotFound` the accessors; `TakeSpecial` and `TakeCode` the hash iterators. In
`RequirementText` the recursion of `eval_expression` is a stack of operators with operands still to come
(`EvalNode`, `EvalLeaf`, `TooDeep`, then `TakeLeft`, `Negate`, `Join` on the way back). In `DerEntitlements`
`PushKey` and `PushPair` are the entries of the two walks. The module ends with what holds of any bytes;
**`SignatureProperties`** states what must come out of a file that was written for the run, **`RequirementMeaning`** what
an expression and its text mean, for the proofs.

In these three compositions an image or a blob of a run carries, next to its bytes, what was written into
it; only the properties look at that, so that "comes out as written" compares the decoder with an encoder that
was defined on its own.

The operators that begin with "Mutant:" in their comment are plausible slips of the code; each property
is known to fail when the named definition is replaced by its mutant. No specification uses them.

## Runs and what they show

| Run | Module, cfg | Shows |
|---|---|---|
| `fixup_chains` | `MCFixupChains`, `FixupChains.cfg` | the rows are exactly the slots of the chains (`ReportsEverySlot`), on disk (`RowsOnDisk`), strictly ordered (`WalkOrder`), one per address when chains keep to their page (`OneRowPerAddress`); the walk never goes back (`Forward`); `ReportsEverySlot` has the liveness of `FixupSlots`, so the walk also ends; over all contents of the slots and over all tables of `seg_info_offset` entries |
| `bind_table` | `MCBindTable`, `BindTable.cfg` | legacy rows come first (`LegacyThenChained`); a bind resolves as dyld would when every dependency has a readable name and a special ordinal never becomes one of its libraries (`ResolvesAsDyld`) |
| `macho_header` | `MCMachoHeader`, `MachoHeader.cfg` | `FirstMatchingSlice`, `BuildVersionWins`, `CountsStarts`; for the stream of function starts `YieldsEveryStart` against the exact sum of digits |
| `vm_map` | `MCVmMap`, `VmMap.cfg` | `OffsetIsBacked`; `BackedIsFound`: a malformed segment costs the addresses of later ones and no others |
| `objc_runtime` | `MCObjcRuntime`, `ObjcRuntime.cfg` | `EveryClassOnce`, `MetaFollowsInstance`, `NamesAgree`, `ForeignRefsAreExternal`; the iterators end (`Terminates`) |
| `objc_members` | `MCObjcMembers`, `ObjcMembers.cfg` | each category comes once, where either section lists it first, and each other row once and in order (`EachRowOnce`); the members are the entries of every list of every row, in order, each as it was compiled in, and each category is for the class it extends (`MembersAsWritten`, with `MembersInOrder` and `HostsAsWritten`); the items of an attribute string cover it without a gap, each with the text behind its key, except where the key is not ASCII (`ItemsSpanString`) |
| `swift_contexts` | `MCSwiftContexts`, `SwiftContexts.cfg` | `EveryTypeListed`, `QualifiedByAncestors`, `AcyclicTerminates` |
| `swift_tables` | `MCSwiftTables`, `SwiftTables.cfg` | each slot that decodes has its row, in order, and each record is read where the one before it ends (`RowsInOrder`: `SlotsInOrder`, `RecordsFollow`); the trailing objects are those the flags announce, each behind all before it, and the entries come table by table (`TablesInOrder`: `TrailersFollow`, `EntriesFollow`); rows, trailing objects under every combination of flags, field offsets and entries are those that were compiled in (`TablesAsWritten`); the iterators end (`Terminates`) |
| `constant_objects` | `MCConstantObjects`, `ConstantObjects.cfg` | the references are the anchor binds that `build` keeps, global before stack, in bind order; only binds without a library string are lost, and a runtime is missing only if none is kept (`ReferencesInOrder`); `LiteralsAsWritten` (with `EverySiteHasRow`), `FirstSectionTaken`, `StringsAsWritten` (with `RowsMatchQuadruples`) |
| `code_signature` | `MCCodeSignature`, `CodeSignature.cfg` | hashes (`EveryHashListed`), `AlternatesAlone`, requirements (`TextMeansExpression`, with `EachRequirementAlone`), entitlements (`KeysArePairsKeys`, `PairsDecodeEncoding`: every pair of every payload that is not damaged, integers of all widths and both signs included, of which those that are wide, or short and negative, come out as a stated other number); every call returns (`Terminates`) |

Two runs check one sentence of a comment each and find it violated by what the code does on a file that is
well formed:

| Run | The comment | What the code does |
|---|---|---|
| `objc_super_name` | a superclass of the image is named (class.rs:159-161) | not a Swift class whose rebase target has flag bits |
| `signature_legacy_set` | a payload without the outer wrapper is taken as the SET of entries (codesign.rs:1275) | the SET is taken for the wrapper and its first entry for the container, so no pair comes out |

More sentences disagree with the code. The models follow the code; no run is spent on them:

| Where | The comment | What the code does |
|---|---|---|
| fixup.rs:390, error.rs:4-6 | decode failures of a row are skipped | an unreadable `seg_info_offset` entry ends the iteration (`BrokenEntry`) |
| fixup.rs:836-838 | entries beyond the on-disk extent are not legal | only the first byte of a slot is compared with the extent (`Readable`) |
| fixup.rs:196-200, 1109 | -1 is SELF, -2 MAIN_EXECUTABLE | 0 is self, -1 main executable (`Specials`), which is what dyld means |
| fixup.rs:200-201 | ordinals index the `LC_LOAD_*_DYLIB` table | they index a list that has lost nameless commands (`SkipNameless`), so later ordinals name the wrong library |
| fixup.rs:338-339, 466 | nothing is yielded when the imports table overruns its payload | the entries inside the file are (`HasImport`) |
| util.rs:18-23, 42 | a number over 64 bits fails | six bits of a tenth byte are cut off (`Accumulate`) |
| util.rs:246, binary.rs:609-612 | `None` for three reasons | also when an earlier segment overflows (`Abort`) |
| binary.rs:769-770 | only the first match wins | the last `LC_BUILD_VERSION` does (`TakeBuildVersion`) |
| objc/mod.rs:154-156, 176 | every bind site is indexed | not those whose library is a special ordinal (`DropBind`) |
| class.rs:151-154 | a foreign superclass is 0 | it is the low bits of the chain entry (`ResolvePointer`) |
| property.rs:221-225 | slicing is safe, the segment is ASCII | behind a key of more than one byte the value comes out empty and its text is lost (`NextAttribute`) |
| block.rs:67-69, 240-244, 316-317 | every anchor bind is listed, and there is no runtime only when neither anchor is bound | binds to a special ordinal, whose library string is no part of the file, are dropped (`SkipImport`), and if there is no other there is no runtime (`EndImports`) |
| codesign.rs:1448-1449, 976 | integers are 64-bit signed; wide ones keep their low 8 bytes, or saturate | wide ones keep the first 8 bytes, and a negative one of fewer than 8 bytes loses its sign (`DecodeInteger`) |
| swift/parent.rs:3-4 | the chain ends at a top-level descriptor | two descriptors may be each other's parent for ever (`Hop`) |
| swift/mod.rs:70-72 | vtable entries and field records that do not decode are skipped | the first one ends its iterator (`EndTable`) |
| swift/classtrailers.rs:217-218 | trailing objects begin at base + 24 | at base + 44, which is right (`TakeType`) |
| swift/mod.rs:217-218 | foreign types of conformances resolve through the bind index | nothing reads that index |

## Bounds

- Fixups: three segments, pages of two or three slots, next fields up to past the end, saturating limit
  just above the largest address. A chain can leave its page, its extent and run into another chain.
- Binds: three load commands, every ordinal of a scaled 8-bit and 16-bit field on both sides of zero, tables
  of fewer entries than their count.
- Header: three slices, three commands. Two of a kind with a third between them is the longest order
  that matters, since each field depends on the first or last command of two kinds.
- Function starts: digits of two bits and a width of five. As 7 does not divide 64, 2 does not divide 5:
  the third digit is cut, the fourth is beyond the width, the fifth one too many, like the tenth to twelfth
  bytes of the code.
- Address map: an address space of eight, two segments, three with fixed outer ones; sums overflow.
- Objective-C: two classes, three list slots, two reference slots; enough for duplicates across both
  lists, a self-referring root, mutual metaclasses and a class that refers to the other one in every way.
- Swift: three descriptors, all parent relations. `MaxHops` (3) bounds the names a walk *records*, not the
  walk: an acyclic chain never reaches it and a cyclic one still runs for ever.
- Members: two rows of each kind, two or three entries in a list, each layout, entry sizes below, at and above
  the record, three forms of pointers; all attribute strings up to a length that holds a quoted comma. Two
  lists of a row suffice to show that a cursor or a layout is not carried over.
- Swift tables: one descriptor with each combination of trailing objects and with a file that ends inside any
  of them, and sections of two or three slots or records. Sizes are scaled so that a relative pointer can wrap.
- Blocks and strings: two literals, three imports, two quadruples, two section tables of two rows; each set of
  descriptor parts; lengths that end before, at and beyond the end of the file.
- Signature: directories of every layout of up to three special and three code slots of hashes up to three
  units wide; expressions up to depth two and one beyond the cap, which is two instead of 64; three
  alternate slots; entitlements of up to two pairs, cut off everywhere, and with single bytes overwritten.

Inputs that the code reads without looking further (symbol names, versions, flags with no meaning here)
are model values.

## Fairness

Each specification is `Init /\ [][Next]_vars` with weak fairness of the steps the code itself takes:
`Collect \/ Walk` in `FixupChains`, `Build \/ Iterate` in `ObjcRuntime`, `Work`
in `MachoHeader`, `VmMap`, `SwiftContexts`, `SwiftTables` and `CodeSignature`, all of `ImportNext` in `BindTable`,
`Blocks \/ Strings` in `ConstantObjects`, `Walk` in `ObjcMembers`. A call of the library is plain
sequential code without locks, waits or input: once it runs, its next statement is executed. A client that
stops iterating only sees a prefix of the same rows. The remaining disjunct of `Next` is the returned call,
which does nothing, so that no run needs `CHECK_DEADLOCK FALSE`. Termination is checked where the file decides
how a loop goes on: chains (through `ReportsEverySlot`), the metaclass walk, parent contexts, the nested DER and
requirement loops, the Swift tables. The other loops count up to a number fixed beforehand.
`AcyclicTerminates` is relative to images in which no descriptor is its own ancestor.

## Proofs

Each theorem holds for every value of the constants that satisfies the named ASSUMEs, so for files of any
size. An assumption says what the type of an input says in the code (an offset is a number, a list is a
list), or that units are the powers of two they are. The invariants below were first checked by TLC on the
images of the run, except the parts of `RequirementsInv` that speak of least relations, which TLC cannot evaluate.

| Module | Theorems | Assumes |
|---|---|---|
| `FixupChainsProofs` | `TypeCorrect`, `WalkForward`, `RowsOnDiskHolds`, `WalkOrderHolds`, `OneRowPerAddressHolds`, `Implements`; of the binds `ImportTypeCorrect`, `LegacyFirst`, `ResolvesRight` | `FixupAssumption`, `BindAssumption` |
| `MachoHeaderProofs` | `TypeCorrect`, `FirstSlice`, `BuildWins`, `StartsCounted`, `EveryStart` | `HeaderAssumption`, `StreamAssumption` |
| `ObjcRuntimeProofs` | `TypeCorrect`, `MetaFollows`, `EveryClass`, `ForeignRefs`, `NamesAgreeOnLinked` | `ImageAssumption`, `ImagesAssumption` |
| `SwiftContextsProofs` | `TypeCorrect`, `EveryType`, `NamesSpellAncestors` | `ContextAssumption` |
| `ConstantObjectsProofs` | `TypeCorrect`, `ReferencesOrdered`, `SitesHaveRows`, `FirstSection`, `QuadruplesHaveRows`; of the address map `MapInvariant`, `OffsetIsBackedHolds`, `BackedIsFoundHolds`, `SearchIsFileOffset` | `ImagesAssumption`, `DataAssumption`, `EncodingAssumption`, `MapAssumption`, `TableAssumption` |
| `ObjcMembersProofs` | `MembersInvariant`, `RowsComeOnce`, `MembersComeInOrder`, `StringsAreCut` | `ImagesAssumption`, `StringsAssumption`, `DataAssumption`, `MemberAssumption` |
| `SwiftTablesProofs` | `SwiftInvariant`, `RowsComeInOrder`, `TablesComeInOrder` | `CallsAssumption`, `DataAssumption`, `RecordAssumption` |
| `SignatureProofs` | `TypeCorrect`, `HashesListed`, `AlternatesListed`, `KeysOfPairs`, `TextsRead` | `UsesAssumption`, `LayoutAssumption`, `SizesAssumption` |

**Fixups.** `WalkOrder` and `OneRowPerAddress` are not inductive: they compare rows with each
other and say nothing of the row that comes next. The inductive invariant is

    SafetyInv == TypeOK /\ LocsInv /\ PositionInv /\ RowsInv /\ WalkOrder

where `LocsInv` says what the collection loop leaves in `locs` (every record it has passed that holds page
starts and has a segment, in ascending order, none behind an unreadable entry), `PositionInv` that the walk is
inside a chain only on a page that has one, and `RowsInv` that every row is the decoding of the slot it names,
was readable, and was found strictly before the position of the walk. The proof has one lemma for each action;
rows grow by one at the end (`RowsAppend`, `NewRowIsLast`), so order is preserved by comparing the new row with
the position alone. `OneRowPerAddress` then follows from order and from segments being disjoint.

`Implements` is the refinement: every step of the three loops is a step of `FixupSlots` or a stutter,
and the walk is done only when the abstract one is. Safety alone would let the walk lose a slot it has passed, so the
invariant `ExploreInv` looks backwards: `SourceInv` ties each report to a slot of a chain, and `StartsInv` and
`LinksInv` say that a chain's first slot, and the successor of any slot reported, is reported already or is where
the walk stands. At the end the reports are therefore closed under the links of the chains, which is what
"every slot" means in the abstract specification.

**Addresses.** The invariant is `MapTypeOK`, `PassedMiss` (no segment already passed covers the address) and
what is known of an answer. A covering segment is unique by disjointness (`OneHolder`), so stopping at the
first one is right. The walkers over constant data do not run the loop: for them an address has a file offset
or has none, by the operator `FileOffset` of `DataImage`. `SearchIsFileOffset` is the seam: on a table whose
sums are words, the loop returns what that operator says.

**Binds.** `BindInv` is `ImportTypeOK`, `ImportsInv` (the entries read are the decoding of the table's, all up
to the end), `DylibsInv` and `ImportRowsInv` (each row is what its slot resolves to). The step that needs an
invariant is the list of libraries: an entry's position in it is the number of dependencies before its command
(`Rank`, a cardinality), as long as no command before it lacks a name. `OrdinalIsDyld` is the arithmetic: the
sign extension of a field of either width, a special ordinal or an index.

**Header.** `HeaderInv` says what the commands absorbed so far make of the fields (`VersionsDecided`,
`StartsDecided`), that no slice passed could have been chosen, and that the walk reads the bytes of the command
that came last. `StartsCounted` compares the count with the rows of the walk; that those are the running sums
is the next theorem.

**Function starts.** `EveryStart` compares the loop, one byte a step with a shift and an accumulator of limited
width, with the stream read as numbers: the digits up to a byte without a continuation bit, their exact sum, the
running sums of the numbers. Those sums are recursive functions into the naturals; `StepsReach` makes them
usable: were a place not reached, there would be a least one, whose predecessor is reached. The invariant
`StreamInv` says that the walk stands at the beginning of a number or a known number of digits into it, with
exactly their sum (`AlignedInv`), what the number just finished is (`ResultInv`), which rows are out
(`StartsInv`), and why the walk has stopped (`StoppedInv`). The bits that the last accepted byte loses are not
hidden: they make the number one that is not plain, and of the rows from such a number on the theorem says nothing. `TooLong` is
the number that has too many bytes.

**Objective-C.** `ObjcInv` is `TypeOK` with `MapsInv` (a map holds the last row of each slot among those
taken), `PhaseInv`, `QueueInv` (rows and queue together are the listed classes in the order of first listing,
without repetition, and no slot already looked at is missing), `PendingInv` (a pending metaclass is the isa of
the last row) and `DecodedInv`. `NamesAgreeOnLinked` needs a hypothesis that the run's images satisfy but an image
need not: `TargetsFit`, that the target of a rebase row is within the reach of the standard mask and that the raw
chain entry has the low bits of its target. Without it one decoder masks what the other does not see; on linked images both
come from the same pointer.

**Swift contexts.** The way up from a type is a fact of the image, the walk a fact of the state:
`ChainInv` says that the walk has made the first hops of that way and spelt their names, or that no way up
ends from where it is. Then a walk that ends has made all of it (`NamesSpellAncestors`). The hypothesis
`Shallow` only says that `MaxHops`, a bound the model has and the code has not, is beyond every way up; it holds
on every image of the run, those with cycles included.

**Blocks and strings.** `ObjectsInv` is `IsImage` of the image with `BlocksInv` and `StringsInv`. The two halves
share no variable but the image, so a step of one keeps the other (`BlocksKept`, `StringsKept`), which is why
the interleaving of the iterators cannot matter. `SitesInv` says that the sites are the kept binds of the imports
passed so far, in order, `ReferencesInv` and `LiteralsInv` that the rows are those of the sites gone through,
`FindInv` that no section passed was the wanted one, `RowsInv` that there is one row for each stride.
`ListingThrough` is the lemma under all of them: when one more position is looked at, the ordered listing of the
chosen positions either gains its last element or stays. What a row says beside its address is compared with the
encoder of the run, by TLC; that each site and each quadruple has one, whatever the bytes are, is proved.

**Objective-C members.** `MembersInv` has a part for each loop. `AttributesInv` says that the items found lie
one behind the other from the beginning of the string to where the scan is, so that nothing between two
items can get lost; within an item only the value of a key that is not ASCII can (`Foreign`). `RowsInv` says which slots the rows come from: those among the slots passed that decode, and of
categories the first listing of each address, as ascending selections of positions; an address seen before
is in the selection already. `ListsInv` says that the lists still to be read are the rest of those of the last
row and that the layout in use is that of the first of them. The order of members is then a matter of places: row,
list, entry. `OrderInv` says that the member of a place stands at its rank among the places that hold a member and
that the walk is past; each step passes one place, no place, or the rest of a list, in which there is none.

**Swift tables.** `SlotsInv` is the same question for one list: with n slots passed, each row stands at the
number of its slot among those that decode. `RecordsInv` follows the records without index from one to the
next. For the trailing objects `TrailersInv` keeps two facts apart. `Chained` says that each object found is
read where the one before it ends, which is what a wrong size would break; `Named` says that the object
found for the k-th flag that is set is that of the k-th flag, however many are not set before it. When an object
is lost, it is the first of those announced that were not found (`WalkedIsLaid`). `TablesInv` and `EntriesInv`
repeat the argument of the members with the tables of a row for its lists; that a table ends at its first
unreadable entry comes from the entries before the current one all being readable.

**Code signature.** `SignatureInv` is `TypeOK`, `SearchInv` (no index entry looked at has the slot that is
sought), `AlternatesInv`, `HashesInv` and `WalksInv`. `HashesInv` lists the special slots outward from -1 and
then the pages, and says why each iterator stopped; as it stops at the first slot outside the blob, the theorem
needs that no later one lies inside, which is the monotonicity of offsets (`FitsUp`, `FitsDown`). `WalksInv`
keeps the path of positions the first walk over the entitlements took, and that the second one has gone the same
path so far, on any bytes. Both walks use one operator for what an entry is (`IsEntry`); the code writes the
same conditions twice.

**Requirements.** `TextsRead` says that a text means what its expression means. Both meanings are given by rules
in `RequirementMeaning`, as least relations: which words are an expression, where it ends and in which worlds it
is true (`Means`), and how a text is read, with `not` above `and` above `or` and parentheses (`Reads`). Worlds
are arbitrary sets of atoms, so equal truth in all of them is what "the same requirement" means. An expression
has one end and one meaning (`Inversion`, `Determined`). The evaluation is a stack of frames. Its invariant
`Evaluates` says of each frame where its operator and its left operand lie and what the left text reads as, and
that a whole outermost expression makes every opened one whole: so a failure anywhere means that there is no
meaning. `Says` is that a returned text reads as its expression at the level for which the frame above asked,
hence with the parentheses it needs there. `RequirementsInv` adds that the rows are, in order, the entries
passed that open and are whole. `TextMeansExpression` is the same question on the run, with a deterministic
reader and the tree that was written; the theorem has neither, and holds for any words and depth.

Only model-checked, and why:

- liveness (`Terminates`, `AcyclicTerminates`, and the half of `ReportsEverySlot` that is not
  `Implements`): out of the prover's reach;
- `TextMeansExpression`, `PairsDecodeEncoding`: their references are RECURSIVE operators,
  which the provers cannot use. Recursive functions into the naturals can be unfolded (`StepsReach`) and rules
  can be stated as least relations, which is how `EveryStart` and `TextsRead` are proved; the general principle of
  induction over data is not available;
- `LiteralsAsWritten`, `StringsAsWritten`, `MembersAsWritten`, `TablesAsWritten`: they compare the decoder with
  what the MC module wrote into the images, so that a statement for every image would need the encoder as an
  assumption. What holds of any image is stated on its own and proved: `EverySiteHasRow`, `RowsMatchQuadruples`,
  `EachRowOnce`, `MembersInOrder`, `RowsInOrder`, `TablesInOrder`.

## Not modelled

goblin (load-command decoding, legacy bind opcodes, export trie, symbol table) is external: its results
are inputs. `symbol.rs` and `export.rs` are views over them that skip what goblin reports as an error.
`examples/dump.rs`, tests, accessors, text formatting, hashing (`sha2`, `blake3`), entropy, bit layouts of
fixup slots, the header of the chained-fixups payload and 32-bit images are left out. `SelRefIter`, which
looks at no bind, is left out too; the reference iterators for superclasses and protocols are the one for
classes over another section. `ParentChain` does not use the low bit by which the Swift ABI marks an indirect
parent; the models have no such pointer cells. Mangled names are texts: the code does not take them apart.

## Plan

Proved: all safety invariants of fixups, binds, header, address map, Objective-C runtime and Swift contexts, the
refinement of `FixupSlots`, and of blocks, strings, signatures, members and Swift tables what holds of any
image. What is left, in this order:

1. A composition of fixups, binds and the Objective-C index, where the runs now use inputs for the seam.
2. `PairsDecodeEncoding` for every file, with the encoding as a least relation, as for requirements.
3. `LiteralsAsWritten` and `StringsAsWritten` from an assumption that says what a compiler writes.
