-------------------------- MODULE MemberProperties --------------------------
(***************************************************************************)
(* What the Objective-C rows and their members must say, of any image and  *)
(* of what was compiled into it: an image of a run knows this, written     *)
(* [address][field] being the members of a list, hosts[address] the class  *)
(* a category is for, and items the attributes a string was made of.       *)
(***************************************************************************)
EXTENDS ObjcMembers

(* The categories by where they are first listed, and the other rows, that *)
(* can be decoded.                                                         *)
CategoryAt(k) == OrZero(Resolve(CategorySlots[k]))

FirstListed ==
  {k \in DOMAIN CategorySlots :
     /\ CategoryAt(k) # 0 /\ CategoryRow(CategoryAt(k)) # None
     /\ \A j \in 1 .. k - 1 : CategoryAt(j) # CategoryAt(k)}

Decodable == {k \in DOMAIN Source : Decode(Source[k]) # None}

(* category.rs: "Walks both ... de-duped by category VA"; protocol.rs,     *)
(* class.rs, conformance.rs: what cannot be decoded is skipped.  Each      *)
(* category that can be decoded comes once, where it is first listed, and  *)
(* each other row once, in order, whatever stands between them.            *)
EachRowOnce ==
  phase = "done" /\ call # "attributes" =>
    IF call = "categories"
    THEN \E slot \in Listings(FirstListed, Len(holders)) :
           \A i \in DOMAIN holders : holders[i] = CategoryRow(CategoryAt(slot[i]))
    ELSE \E slot \in Listings(Decodable, Len(holders)) :
           \A i \in DOMAIN holders : holders[i] = Decode(Source[slot[i]])
-----------------------------------------------------------------------------
(* The place of a member: row, list of the row, entry of the list. *)
Places(of, address) ==
  LET found == Layout(of, address)
  IN  IF found = None THEN {}
      ELSE {e \in 0 .. found.count - 1 :
              Member(found.kind, found.base + e * found.entsize) # None}

MemberPlaces ==
  UNION {UNION {{<<k, j, e>> : e \in Places(holders[k].lists[j].of, holders[k].lists[j].at)} :
                  j \in DOMAIN holders[k].lists} : k \in DOMAIN holders}

UpTo(p, q) ==
  \/ p[1] < q[1]
  \/ p[1] = q[1] /\ p[2] < q[2]
  \/ p[1] = q[1] /\ p[2] = q[2] /\ p[3] <= q[3]

Rank(places, q) == Cardinality({p \in places : UpTo(p, q)})

MemberOf(p) ==
  LET list == holders[p[1]].lists[p[2]]
      found == Layout(list.of, list.at)
  IN  [row |-> p[1], field |-> list.field,
       member |-> Member(found.kind, found.base + p[3] * found.entsize)]

(* method.rs: "The walker fail-soft skips rows that fail to resolve": the  *)
(* members are the entries of all lists of all rows that can be decoded,   *)
(* row by row, list by list, each under the row and the field it is of.    *)
(* Neither a position nor a layout is carried over from one to the next.   *)
MembersInOrder ==
  phase = "done" /\ call # "attributes" =>
    /\ Len(members) = Cardinality(MemberPlaces)
    /\ \A p \in MemberPlaces : members[Rank(MemberPlaces, p)] = MemberOf(p)
-----------------------------------------------------------------------------
Yielded(k, field) ==
  LET of == SelectSeq(members, LAMBDA m : m.row = k /\ m.field = field)
  IN  [j \in DOMAIN of |-> of[j].member]

(* category.rs: class_name is the class of the image, or the bound one     *)
(* without its prefix, whatever bits the chain has left in the slot.       *)
HostsAsWritten ==
  call = "categories" =>
    \A k \in DOMAIN holders : holders[k].host = image.hosts[holders[k].address]

(* Each list of each row yields what was compiled into it and has a name,  *)
(* in order and under the row and the field it belongs to; entries of      *)
(* every format and size, with every kind of pointer, and nothing from     *)
(* behind the end of a record that lacks its last field.  A category says  *)
(* which class it is for, an attribute string which items it was made of.  *)
MembersAsWritten ==
  /\ phase = "done" /\ call # "attributes" =>
       \A k \in DOMAIN holders :
         LET address == holders[k].address
         IN  address \in DOMAIN image.written =>
               \A field \in {holders[k].lists[j].field : j \in DOMAIN holders[k].lists} :
                 Yielded(k, field) = image.written[address][field]
  /\ phase = "done" /\ call = "protocols" =>
       [k \in DOMAIN holders |-> holders[k].address] = image.protocols
  /\ phase = "done" /\ call = "attributes" /\ text.items # None => items = text.items
  /\ HostsAsWritten /\ MembersInOrder
-----------------------------------------------------------------------------
(* Byte i of the string ends an item that begins behind byte from. *)
Ends(from, i) ==
  i > Len(text.bytes) \/ (text.bytes[i] = "comma" /\ ~InQuotes(from + 2, i))

(* A character of more than one byte stands in place of the key: its first *)
(* byte is the key, and the value begins within it.                        *)
Foreign(from, end) == from + 2 < end /\ text.bytes[from + 2] = "cont"

(* An item from behind a comma up to the next one, or to the end. *)
Spans(item, from, end) ==
  /\ from + 1 < end /\ Ends(from, end)
  /\ \A i \in from + 2 .. end - 1 : ~Ends(from, i)
  /\ item.key = text.bytes[from + 1]
  /\ item.value = IF Foreign(from, end) THEN <<>> ELSE SubSeq(text.bytes, from + 2, end - 1)

(* property.rs: "comma-separated items, each beginning with a one-letter   *)
(* key".  However quotes and commas stand, the items lie one behind the    *)
(* other, each up to a comma outside of quotes, from the beginning up to   *)
(* where the parser is, and each has all bytes behind its key as value.    *)
(* There is one exception, which lines 221-225 take to be impossible:      *)
(* where a character of more than one byte stands in place of the key, the *)
(* value comes out empty and its text is lost (Foreign).  The type is that *)
(* of the first T whose value is not empty.                                *)
ItemsSpanString ==
  LET typed == {k \in DOMAIN items : items[k].key = "T" /\ items[k].value # <<>>}
  IN  /\ typeEncoding = IF typed = {} THEN <<>> ELSE items[Min(typed)].value
      /\ call = "attributes" =>
           \E end \in [0 .. Len(items) -> 0 .. Len(text.bytes) + 1] :
             /\ end[0] = 0
             /\ \A k \in DOMAIN items : Spans(items[k], end[k - 1], end[k])
             /\ at = Min({end[Len(items)] + 1, Len(text.bytes) + 1})
             /\ phase = "done" => at = Len(text.bytes) + 1
=============================================================================
