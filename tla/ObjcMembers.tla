----------------------------- MODULE ObjcMembers -----------------------------
(***************************************************************************)
(* categories(), protocols(), conformances() and the members of classes(), *)
(* called on the ObjcRuntime of one image: the outer iterator yields a     *)
(* row, and the caller drains the lists of the row, each through an        *)
(* iterator of its own, before it asks for the next one.  parsed() is      *)
(* called on an attribute string.                                          *)
(***************************************************************************)
EXTENDS MemberLists, PropertyAttributes

CONSTANTS
  Images,       \* the images
  Strings       \* the attribute strings

SegmentRow == [vmaddr: Nat, vmsize: Nat, fileoff: Nat, filesize: Nat]

IsSection(section) == section = None \/ (section.address \in Nat /\ section.size \in Nat)

(* classes are the rows of ClassIter; catlist, nlcatlist and protolist the *)
(* sections of that name, None if there is none.  Offsets, addresses and   *)
(* words are unsigned.                                                     *)
IsImage(im) ==
  /\ im.segments \in Seq(SegmentRow)
  /\ im.words \in [DOMAIN im.words -> Nat]
  /\ im.classes \in Seq([address: Nat, ro: Nat \cup {None}, meta: BOOLEAN])
  /\ IsSection(im.catlist) /\ IsSection(im.nlcatlist) /\ IsSection(im.protolist)

ASSUME ImagesAssumption == \A im \in Images : IsImage(im)

ASSUME StringsAssumption == \A string \in Strings : string.bytes \in Seq(STRING)

VARIABLES
  call,         \* which of them is called
  phase,        \* "collect", "rows", "lists", "attributes" or "done"
  row,          \* slots or rows the outer iterator has passed
  ordered,      \* ordered, then cat_addrs
  holders,      \* the rows it has yielded
  lists,        \* the lists of the last row that are not drained
  layout,       \* that of the list being drained
  cursor,       \* entries of it passed
  members       \* the entries yielded, each with the row and the list

listVars == <<image, targets, call, phase, row, ordered, holders, lists,
              layout, cursor, members>>

vars == <<listVars, attrVars>>

Calls == {"classes", "conformances", "categories", "protocols"}

Init ==
  /\ row = 0 /\ ordered = <<>> /\ holders = <<>> /\ lists = <<>>
  /\ layout = None /\ cursor = 0 /\ members = <<>>
  /\ AttrInit
  /\ \/ /\ image \in Images /\ targets = RebasesByVa(image)
        /\ call \in Calls /\ text = None
        /\ phase = IF call = "categories" THEN "collect" ELSE "rows"
     \/ /\ image = None /\ targets = <<>>
        /\ call = "attributes" /\ phase = "attributes"
        /\ text \in Strings
-----------------------------------------------------------------------------
(* CategoryIter::new *)
Slots(section) ==
  IF section = None THEN <<>>
  ELSE [k \in 1 .. section.size \div WordSize |-> section.address + (k - 1) * WordSize]

CategorySlots == Slots(image.catlist) \o Slots(image.nlcatlist)

Listed == OrZero(Resolve(CategorySlots[row + 1]))

(* Mutant: only a neighbour is the same category. *)
SeenLast(va) == ordered # <<>> /\ ordered[Len(ordered)] = va

Seen(va) == \E k \in DOMAIN ordered : ordered[k] = va

CollectCategory ==
  /\ phase = "collect" /\ row < Len(CategorySlots)
  /\ Listed # 0 /\ ~Seen(Listed)
  /\ ordered' = Append(ordered, Listed)
  /\ row' = row + 1
  /\ UNCHANGED <<image, targets, call, phase, holders, lists, layout, cursor, members>>

SkipSlot ==
  /\ phase = "collect" /\ row < Len(CategorySlots)
  /\ Listed = 0 \/ Seen(Listed)
  /\ row' = row + 1
  /\ UNCHANGED <<image, targets, call, phase, ordered, holders, lists, layout,
                 cursor, members>>

EndCollect ==
  /\ phase = "collect" /\ row = Len(CategorySlots)
  /\ phase' = "rows" /\ row' = 0
  /\ UNCHANGED <<image, targets, call, ordered, holders, lists, layout, cursor, members>>
-----------------------------------------------------------------------------
(* CategoryIter::next, ProtocolIter::next, and ClassIter::next with ro() *)
Source ==
  CASE call = "categories" -> ordered
    [] call = "protocols" -> Slots(image.protolist)
    [] call \in {"classes", "conformances"} -> image.classes

ProtocolAt(slot) ==
  LET va == OrZero(Resolve(slot)) IN IF va = 0 THEN None ELSE ProtocolRow(va)

Decode(entry) ==
  CASE call = "categories" -> CategoryRow(entry)
    [] call = "protocols" -> ProtocolAt(entry)
    [] call = "classes" -> ClassRow(entry, <<"methods", "ivars", "properties">>)
    [] call = "conformances" -> ClassRow(entry, <<"protocols">>)

TakeRow ==
  /\ phase = "rows" /\ row < Len(Source)
  /\ \E holder \in {Decode(Source[row + 1])} :
       /\ holder # None
       /\ holders' = Append(holders, holder)
       /\ lists' = holder.lists
  /\ phase' = "lists" /\ row' = row + 1
  /\ UNCHANGED <<image, targets, call, ordered, layout, cursor, members>>

PassRow ==
  /\ phase = "rows" /\ row < Len(Source)
  /\ Decode(Source[row + 1]) = None
  /\ row' = row + 1
  /\ UNCHANGED <<image, targets, call, phase, ordered, holders, lists, layout,
                 cursor, members>>

EndRows ==
  /\ phase = "rows" /\ row = Len(Source)
  /\ phase' = "done"
  /\ UNCHANGED <<image, targets, call, row, ordered, holders, lists, layout,
                 cursor, members>>
-----------------------------------------------------------------------------
(* MethodIter, IvarIter, PropertyIter, ProtocolNameIter *)
OpenList ==
  /\ phase = "lists" /\ lists # <<>> /\ layout = None
  /\ \E found \in {Layout(Head(lists).of, Head(lists).at)} :
       found # None /\ layout' = found
  /\ cursor' = 0
  /\ UNCHANGED <<image, targets, call, phase, row, ordered, holders, lists, members>>

EmptyList ==
  /\ phase = "lists" /\ lists # <<>> /\ layout = None
  /\ Layout(Head(lists).of, Head(lists).at) = None
  /\ lists' = Tail(lists)
  /\ UNCHANGED <<image, targets, call, phase, row, ordered, holders, layout,
                 cursor, members>>

HasEntry == layout # None /\ cursor < layout.count

Entry == Member(layout.kind, layout.base + cursor * layout.entsize)

TakeMember ==
  /\ HasEntry
  /\ \E member \in {Entry} :
       /\ member # None
       /\ members' = Append(members, [row |-> Len(holders), field |-> Head(lists).field,
                                      member |-> member])
  /\ cursor' = cursor + 1
  /\ UNCHANGED <<image, targets, call, phase, row, ordered, holders, lists, layout>>

PassMember ==
  /\ HasEntry
  /\ Entry = None
  /\ cursor' = cursor + 1
  /\ UNCHANGED <<image, targets, call, phase, row, ordered, holders, lists, layout, members>>

EndList ==
  /\ layout # None /\ cursor >= layout.count
  /\ layout' = None /\ lists' = Tail(lists)
  /\ UNCHANGED <<image, targets, call, phase, row, ordered, holders, cursor, members>>

EndLists ==
  /\ phase = "lists" /\ lists = <<>>
  /\ phase' = "rows"
  /\ UNCHANGED <<image, targets, call, row, ordered, holders, lists, layout,
                 cursor, members>>
-----------------------------------------------------------------------------
NextAttribute == phase = "attributes" /\ TakeItem /\ UNCHANGED listVars

EndAttributes ==
  /\ phase = "attributes" /\ Parsed
  /\ phase' = "done"
  /\ UNCHANGED <<image, targets, call, row, ordered, holders, lists, layout,
                 cursor, members, attrVars>>

Walk ==
  /\ \/ CollectCategory \/ SkipSlot \/ EndCollect \/ TakeRow \/ PassRow \/ EndRows
     \/ OpenList \/ EmptyList \/ TakeMember \/ PassMember \/ EndList \/ EndLists
  /\ UNCHANGED attrVars

Returned == phase = "done" /\ UNCHANGED vars

Next == Walk \/ NextAttribute \/ EndAttributes \/ Returned

Spec == Init /\ [][Next]_vars /\ WF_vars(Walk \/ NextAttribute \/ EndAttributes)
=============================================================================
