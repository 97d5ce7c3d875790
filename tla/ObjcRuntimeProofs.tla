-------------------------- MODULE ObjcRuntimeProofs --------------------------
(***************************************************************************)
(* Proofs of the properties of ObjcProperties, for every set of images and *)
(* every layout of the records.                                            *)
(***************************************************************************)
EXTENDS ObjcProperties, TLAPS

ClassRow == [address: Nat \ {0}, isa: Nat, superclass: Nat, ro: Nat,
             flags: Nat, meta: BOOLEAN]

RefRow == [kind: {"Local", "External", "Unresolved"}, address: Nat,
           name: Names \cup {Static, None}]

TypeOK ==
  /\ image \in Images
  /\ phase \in {"binds", "rebases", "collect", "emit", "refs", "done"}
  /\ cursor \in Nat
  /\ \A va \in DOMAIN bindsByVa : bindsByVa[va] \in Names
  /\ \A va \in DOMAIN rebasesByVa : rebasesByVa[va] \in Nat
  /\ classAddrs \in Seq(Nat \ {0})
  /\ pendingMeta \in (Nat \ {0}) \cup {None}
  /\ classes \in Seq(ClassRow)
  /\ refs \in Seq(RefRow)
-----------------------------------------------------------------------------
(* Masks and remainders *)

LEMMA RemainderType ==
  ASSUME NEW v \in Nat, NEW m \in Nat \ {0}
  PROVE  v % m \in 0 .. (m - 1) /\ v % m <= v
OBVIOUS

LEMMA Quotient ==
  ASSUME NEW v \in Nat, NEW m \in Nat \ {0}
  PROVE  \E q \in Nat : v = q * m + (v % m)
<1>1. v = m * (v \div m) + (v % m)
  BY Z3
<1>2. v \div m \in Nat
  OBVIOUS
<1>3. m * (v \div m) = (v \div m) * m
  BY <1>2
<1> QED BY <1>1, <1>2, <1>3

LEMMA RemainderOfSum ==
  ASSUME NEW q \in Nat, NEW m \in Nat \ {0}, NEW r \in 0 .. (m - 1)
  PROVE  (q * m + r) % m = r
OBVIOUS

LEMMA Distribute ==
  ASSUME NEW a \in Nat, NEW b \in Nat, NEW c \in Nat, NEW m \in Nat, NEW r \in Nat
  PROVE  a * (b * m) + (c * m + r) = (a * b + c) * m + r
BY Z3

(* A mask that is a multiple of the word keeps the flag bits. *)
LEMMA RemainderOfRemainder ==
  ASSUME NEW v \in Nat, NEW m \in Nat \ {0}, NEW p \in Nat \ {0}, p % m = 0
  PROVE  (v % p) % m = v % m
<1>1. PICK a \in Nat : v = a * p + (v % p)
  BY Quotient
<1>2. PICK b \in Nat : p = b * m
  <2>1. PICK b \in Nat : p = b * m + (p % m)
    BY Quotient
  <2> QED BY <2>1
<1>3. PICK w \in Nat : w = v % p
  BY RemainderType
<1>4. PICK c \in Nat : w = c * m + (w % m)
  BY Quotient
<1>5. PICK r \in 0 .. (m - 1) : r = w % m
  BY RemainderType
<1>6. v = (a * b + c) * m + r
  <2>1. v = a * (b * m) + (c * m + r)
    BY <1>1, <1>2, <1>3, <1>4, <1>5
  <2> QED BY <2>1, Distribute
<1>7. v % m = r
  BY <1>6, RemainderOfSum
<1> QED BY <1>3, <1>5, <1>7

(* Clearing the flags leaves an aligned address. *)
LEMMA ClearFlagsFacts ==
  ASSUME NEW v \in Nat
  PROVE  /\ ClearFlags(v) \in Nat /\ ClearFlags(v) <= v
         /\ ClearFlags(v) + (v % WordSize) = v
         /\ ClearFlags(v) % WordSize = 0
         /\ v % WordSize = 0 => ClearFlags(v) = v
<1>1. PICK q \in Nat : v = q * WordSize + (v % WordSize)
  BY Quotient, ImageAssumption
<1>2. PICK r \in 0 .. (WordSize - 1) : r = v % WordSize
  BY RemainderType, ImageAssumption
<1>3. v - r = q * WordSize + 0 /\ v - r \in Nat
  BY <1>1, <1>2, ImageAssumption
<1>4. (v - r) % WordSize = 0
  BY <1>3, RemainderOfSum, ImageAssumption
<1> QED BY <1>2, <1>3, <1>4, ImageAssumption DEF ClearFlags
-----------------------------------------------------------------------------
(* Reading the image *)

LEMMA NoneIsNone == None \notin Nat /\ None \notin Names
BY ImageAssumption

LEMMA ReadU64Facts ==
  ASSUME NEW im \in Images, NEW va \in Nat
  PROVE  /\ ReadU64(im, va) \in Nat \cup {None}
         /\ ReadU64(im, va) = None <=> ~ReadBytes(im, va, WordSize)
<1>1. ReadBytes(im, va, WordSize) => im.raw[va] \in Nat
  <2>1. im.lo \in Nat /\ im.end \in Nat
        /\ \A x \in im.lo .. (im.end - WordSize) : im.raw[x] \in Nat
    BY ImagesAssumption
  <2> QED BY <2>1, ImageAssumption DEF ReadBytes, Mapped
<1> QED BY <1>1, NoneIsNone DEF ReadU64

LEMMA MaskRoType ==
  ASSUME NEW im \in Images, NEW bits \in Nat
  PROVE  MaskRo(im, bits) \in (Nat \ {0}) \cup {None}
<1>1. bits % (2 * PacUnit) \in Nat /\ bits % StdUnit \in Nat
  BY RemainderType, ImageAssumption
<1>2. ClearFlags(bits % (2 * PacUnit)) \in Nat /\ ClearFlags(bits % StdUnit) \in Nat
  BY <1>1, ClearFlagsFacts
<1> QED BY <1>2 DEF MaskRo

LEMMA ResolveType ==
  ASSUME NEW im \in Images, NEW map, \A va \in DOMAIN map : map[va] \in Nat,
         NEW slot \in Nat
  PROVE  ResolvePointer(im, map, slot) \in Nat \cup {None}
<1>1. \A v \in Nat : StripSignature(v) \in Nat
  BY RemainderType, ImageAssumption DEF StripSignature
<1> QED BY <1>1, ReadU64Facts DEF ResolvePointer

LEMMA OrZeroFacts ==
  ASSUME NEW v \in Nat \cup {None}
  PROVE  /\ OrZero(v) \in Nat
         /\ OrZero(v) # 0 => OrZero(v) = v
         /\ OrZero(v) = 0 <=> v \in {None, 0}
BY NoneIsNone DEF OrZero

(* A decoded class has the fields of ObjcClass, and nothing decodes but a  *)
(* class that is readable.                                                 *)
LEMMA DecodeFacts ==
  ASSUME NEW im \in Images, NEW map, \A x \in DOMAIN map : map[x] \in Nat,
         NEW va \in Nat \ {0}, NEW meta \in BOOLEAN
  PROVE  /\ DecodeClass(im, map, va, meta) = {} <=> ~Decodable(im, va)
         /\ \A class \in DecodeClass(im, map, va, meta) :
              class \in ClassRow /\ class.address = va /\ class.meta = meta
<1> DEFINE slot == va + BitsAt
           raw  == ReadU64(im, slot)
           ro   == IF slot \in DOMAIN map THEN map[slot] ELSE OrZero(MaskRo(im, raw))
<1>1. slot \in Nat /\ va + SuperAt \in Nat /\ va \in Nat
  BY ImageAssumption
<1>2. raw \in Nat \cup {None} /\ (raw = None <=> ~ReadBytes(im, slot, WordSize))
  BY <1>1, ReadU64Facts
<1>3. raw # None => ro \in Nat
  <2>1. ASSUME raw # None PROVE OrZero(MaskRo(im, raw)) \in Nat
    <3>1. PICK v \in Nat : v = raw
      BY <1>2, <2>1
    <3>2. OrZero(MaskRo(im, v)) \in Nat
      BY MaskRoType, OrZeroFacts
    <3> QED BY <3>1, <3>2
  <2> QED BY <2>1
<1>4. raw # None => ClearFlags(ro) \in Nat /\ raw % WordSize \in Nat
  <2> HIDE DEF raw, ro
  <2> QED BY <1>2, <1>3, ClearFlagsFacts, RemainderType, ImageAssumption
<1>5. /\ OrZero(ResolvePointer(im, map, va)) \in Nat
      /\ OrZero(ResolvePointer(im, map, va + SuperAt)) \in Nat
  BY <1>1, ResolveType, OrZeroFacts
<1>6. DecodeClass(im, map, va, meta) =
        IF ReadBytes(im, va, ClassSize) /\ raw # None
        THEN {[address    |-> va,
               isa        |-> OrZero(ResolvePointer(im, map, va)),
               superclass |-> OrZero(ResolvePointer(im, map, va + SuperAt)),
               ro         |-> ClearFlags(ro),
               flags      |-> raw % WordSize,
               meta       |-> meta]}
        ELSE {}
  BY DEF DecodeClass
<1> HIDE DEF slot, raw, ro
<1>7. DecodeClass(im, map, va, meta) = {} <=> ~Decodable(im, va)
  BY <1>2, <1>6 DEF Decodable, slot
<1>8. \A class \in DecodeClass(im, map, va, meta) :
        class \in ClassRow /\ class.address = va /\ class.meta = meta
  BY <1>4, <1>5, <1>6 DEF ClassRow
<1> QED BY <1>7, <1>8
-----------------------------------------------------------------------------
(* Type correctness *)

LEMMA InsertFacts ==
  ASSUME NEW map, NEW key, NEW value
  PROVE  /\ DOMAIN Insert(map, key, value) = DOMAIN map \cup {key}
         /\ Insert(map, key, value)[key] = value
         /\ \A x \in DOMAIN map : x # key => Insert(map, key, value)[x] = map[x]
BY DEF Insert

LEMMA InsertValues ==
  ASSUME NEW S, NEW map, NEW key, NEW value \in S,
         \A x \in DOMAIN map : map[x] \in S
  PROVE  \A x \in DOMAIN Insert(map, key, value) : Insert(map, key, value)[x] \in S
BY DEF Insert

(* The rows and slots of an image, one by one. *)
LEMMA ImageRows ==
  ASSUME NEW im \in Images
  PROVE  /\ im.imports \in Seq(Import) /\ im.rebaseRows \in Seq(RebaseRow)
         /\ im.refSlots \in Seq(Nat)
         /\ Slots(im) \in Seq(Nat)
         /\ \A k \in 1 .. Len(im.imports) :
              im.imports[k].va \in Nat /\ im.imports[k].sym \in Names \cup {Static}
         /\ \A k \in 1 .. Len(im.rebaseRows) :
              im.rebaseRows[k].va \in Nat /\ im.rebaseRows[k].target \in Nat
         /\ \A k \in 1 .. Len(Slots(im)) : Slots(im)[k] \in Nat
         /\ \A k \in 1 .. Len(im.refSlots) : im.refSlots[k] \in Nat
<1>1. /\ im.imports \in Seq(Import) /\ im.rebaseRows \in Seq(RebaseRow)
      /\ im.classList \in Seq(Nat) /\ im.nlclslist \in Seq(Nat)
      /\ im.refSlots \in Seq(Nat)
  BY ImagesAssumption
<1>2. Slots(im) \in Seq(Nat)
  BY <1>1 DEF Slots
<1>3. /\ \A row \in Import : row.va \in Nat /\ row.sym \in Names \cup {Static}
      /\ \A row \in RebaseRow : row.va \in Nat /\ row.target \in Nat
  BY DEF Import, RebaseRow
<1>4. /\ \A k \in 1 .. Len(im.imports) : im.imports[k] \in Import
      /\ \A k \in 1 .. Len(im.rebaseRows) : im.rebaseRows[k] \in RebaseRow
      /\ \A k \in 1 .. Len(im.refSlots) : im.refSlots[k] \in Nat
  BY <1>1
<1>5. \A k \in 1 .. Len(Slots(im)) : Slots(im)[k] \in Nat
  BY <1>2
<1> QED BY <1>1, <1>2, <1>3, <1>4, <1>5

LEMMA TypeInit == Init => TypeOK
BY NoneIsNone DEF Init, TypeOK, Empty

(* What next_ref_target yields is a RefTarget. *)
LEMMA RefTargetType ==
  ASSUME TypeOK, NEW slot \in Nat
  PROVE  RefTarget(slot) \in RefRow
<1> DEFINE target == OrZero(ResolvePointer(image, rebasesByVa, slot))
           name   == DecodeClassName(image, rebasesByVa, target)
<1>1. target \in Nat
  BY ResolveType, OrZeroFacts DEF TypeOK
<1>2. name \in Names \cup {None}
  BY ImagesAssumption DEF TypeOK, DecodeClassName, ReadCStr
<1>3. slot \in DOMAIN bindsByVa => bindsByVa[slot] \in Names
  BY DEF TypeOK
<1> HIDE DEF target, name
<1>4. RefTarget(slot) =
        IF target # 0 /\ (name # None \/ (slot \notin DOMAIN bindsByVa /\ Mapped(image, target)))
        THEN [kind |-> "Local", address |-> target, name |-> name]
        ELSE IF slot \in DOMAIN bindsByVa
        THEN [kind |-> "External", address |-> slot, name |-> bindsByVa[slot]]
        ELSE [kind |-> "Unresolved", address |-> slot, name |-> None]
  BY DEF RefTarget, target, name
<1> QED BY <1>1, <1>2, <1>3, <1>4 DEF RefRow

LEMMA TypeStep ==
  ASSUME TypeOK, [Next]_vars
  PROVE  TypeOK'
<1> USE DEF TypeOK
<1>1. CASE IndexBind
  <2>1. Imp.sym \in Names
    <3>1. cursor + 1 \in 1 .. Len(image.imports)
      BY <1>1, ImageRows DEF IndexBind
    <3> QED BY <1>1, <3>1, ImageRows DEF IndexBind, Imp
  <2>2. \A va \in DOMAIN bindsByVa' : bindsByVa'[va] \in Names
    <3>1. bindsByVa' = Insert(bindsByVa, Imp.va, Imp.sym)
      BY <1>1 DEF IndexBind
    <3> QED BY <2>1, <3>1, InsertValues
  <2> QED BY <1>1, <2>2 DEF IndexBind, Advance
<1>2. CASE DropBind
  BY <1>2 DEF DropBind, Advance
<1>3. CASE EndBinds \/ EndRebases \/ EndCollect \/ EndClasses \/ EndRefs
  BY <1>3 DEF EndBinds, EndRebases, EndCollect, EndClasses, EndRefs, Turn
<1>4. CASE IndexRebase
  <2>1. PICK row : row = image.rebaseRows[cursor + 1]
    OBVIOUS
  <2>2. row.target \in Nat
    <3>1. cursor + 1 \in 1 .. Len(image.rebaseRows)
      BY <1>4, ImageRows DEF IndexRebase
    <3> QED BY <2>1, <3>1, ImageRows
  <2>3. rebasesByVa' = Insert(rebasesByVa, row.va, row.target)
    BY <1>4, <2>1 DEF IndexRebase
  <2>4. \A va \in DOMAIN rebasesByVa' : rebasesByVa'[va] \in Nat
    BY <2>2, <2>3, InsertValues
  <2> QED BY <1>4, <2>4 DEF IndexRebase, Advance
<1>5. CASE CollectClass
  <2>1. Slots(image)[cursor + 1] \in Nat
    <3>1. cursor + 1 \in 1 .. Len(Slots(image))
      BY <1>5, ImageRows DEF CollectClass
    <3> QED BY <3>1, ImageRows
  <2>2. Listed \in Nat \ {0}
    BY <1>5, <2>1, ResolveType, OrZeroFacts DEF Listed, CollectClass
  <2> QED BY <1>5, <2>2 DEF CollectClass, Advance
<1>6. CASE SkipSlot
  BY <1>6 DEF SkipSlot, Advance
<1>7. CASE EmitMeta
  <2>1. PICK class \in Meta : classes' = Append(classes, class)
    BY <1>7 DEF EmitMeta
  <2>2. class \in ClassRow
    BY <1>7, <2>1, DecodeFacts DEF EmitMeta, Meta
  <2> QED BY <1>7, <2>1, <2>2 DEF EmitMeta
<1>8. CASE DropMeta
  BY <1>8 DEF DropMeta
<1>9. CASE EmitClass
  <2>1. Head(classAddrs) \in Nat \ {0} /\ classAddrs' \in Seq(Nat \ {0})
    BY <1>9 DEF EmitClass
  <2>2. PICK class \in Class :
          /\ classes' = Append(classes, class)
          /\ pendingMeta' = IF class.isa # 0 /\ class.isa # class.address
                            THEN class.isa ELSE None
    BY <1>9 DEF EmitClass
  <2>3. class \in ClassRow
    BY <2>1, <2>2, DecodeFacts DEF Class
  <2>4. classes' \in Seq(ClassRow) /\ pendingMeta' \in (Nat \ {0}) \cup {None}
    BY <2>2, <2>3 DEF ClassRow
  <2> QED BY <1>9, <2>1, <2>4 DEF EmitClass
<1>10. CASE SkipClass
  BY <1>10 DEF SkipClass
<1>11. CASE TakeRef
  <2>1. image.refSlots[cursor + 1] \in Nat
    <3>1. cursor + 1 \in 1 .. Len(image.refSlots)
      BY <1>11, ImageRows DEF TakeRef
    <3> QED BY <3>1, ImageRows
  <2>2. RefTarget(image.refSlots[cursor + 1]) \in RefRow
    BY <2>1, RefTargetType
  <2> QED BY <1>11, <2>2 DEF TakeRef, Advance
<1>12. CASE Returned \/ UNCHANGED vars
  BY <1>12 DEF Returned, vars
<1> QED
  BY <1>1, <1>2, <1>3, <1>4, <1>5, <1>6, <1>7, <1>8, <1>9, <1>10, <1>11, <1>12
     DEF Next, Build, Iterate
-----------------------------------------------------------------------------
(* The inductive invariant *)

(* map says for every address what the last of the rows in "kept" says of  *)
(* it, and nothing of other addresses.                                     *)
Indexed(map, kept, key, val) ==
  \A x \in Nat :
    \/ x \notin DOMAIN map /\ \A k \in kept : key[k] # x
    \/ /\ x \in DOMAIN map
       /\ \E k \in kept : /\ key[k] = x /\ map[x] = val[k]
                          /\ \A h \in kept : key[h] = x => h <= k

FromFile(im, n) ==
  {k \in 1 .. n : im.imports[k].sym # Static /\ im.imports[k].inFile}

BindVas(im)       == [k \in DOMAIN im.imports |-> im.imports[k].va]
BindSyms(im)      == [k \in DOMAIN im.imports |-> im.imports[k].sym]
RebaseVas(im)     == [k \in DOMAIN im.rebaseRows |-> im.rebaseRows[k].va]
RebaseTargets(im) == [k \in DOMAIN im.rebaseRows |-> im.rebaseRows[k].target]

(* How many rows build has taken. *)
BindsTaken   == IF phase = "binds" THEN cursor ELSE Len(image.imports)
RebasesTaken == IF phase = "binds" THEN 0
                ELSE IF phase = "rebases" THEN cursor
                ELSE Len(image.rebaseRows)

(* The maps index the rows taken so far. *)
MapsInv ==
  /\ BindsTaken <= Len(image.imports) /\ RebasesTaken <= Len(image.rebaseRows)
  /\ Indexed(bindsByVa, FromFile(image, BindsTaken), BindVas(image), BindSyms(image))
  /\ Indexed(rebasesByVa, 1 .. RebasesTaken, RebaseVas(image), RebaseTargets(image))

(* What is empty in which phase. *)
PhaseInv ==
  /\ phase \in {"binds", "rebases"} => classAddrs = <<>>
  /\ phase \in {"binds", "rebases", "collect"} => classes = <<>> /\ pendingMeta = None
  /\ phase \in {"refs", "done"} => classAddrs = <<>> /\ pendingMeta = None
  /\ phase \notin {"refs", "done"} => refs = <<>>

(* How many slots of the class lists have been looked at. *)
SlotsTaken == IF phase \in {"binds", "rebases"} THEN 0
              ELSE IF phase = "collect" THEN cursor
              ELSE Len(Slots(image))

InstancesIn(rows) == {i \in DOMAIN rows : ~rows[i].meta}

(* With n slots looked at: the queue holds listed classes in the order of  *)
(* their first listing, all after the rows already handed out, and no      *)
(* class listed so far is missing but those that could not be decoded.     *)
Queue(im, n, queue, rows, emitting) ==
  /\ \A i \in DOMAIN queue : \E k \in ListedAt(im, queue[i]) : k <= n
  /\ \A i, j \in DOMAIN queue : i < j => ListedBefore(im, queue[i], queue[j])
  /\ \A i \in InstancesIn(rows) : ListedAt(im, rows[i].address) # {}
  /\ \A i, j \in InstancesIn(rows) :
       i < j => ListedBefore(im, rows[i].address, rows[j].address)
  /\ \A i \in InstancesIn(rows) : \A j \in DOMAIN queue :
       ListedBefore(im, rows[i].address, queue[j])
  /\ \A k \in 1 .. n :
       \/ Pointee(im, Slots(im)[k]) \in {None, 0}
       \/ emitting /\ ~Decodable(im, Pointee(im, Slots(im)[k]))
       \/ \E i \in DOMAIN queue : queue[i] = Pointee(im, Slots(im)[k])
       \/ \E i \in InstancesIn(rows) : rows[i].address = Pointee(im, Slots(im)[k])

QueueInv ==
  /\ SlotsTaken <= Len(Slots(image))
  /\ Queue(image, SlotsTaken, classAddrs, classes,
           phase \notin {"binds", "rebases", "collect"})

(* A pending metaclass is the isa of the last row, an instance. *)
PendingInv ==
  pendingMeta # None =>
    /\ classes # <<>> /\ ~classes[Len(classes)].meta
    /\ pendingMeta = classes[Len(classes)].isa
    /\ pendingMeta # classes[Len(classes)].address

(* Every row is what its address and its slot decode to. *)
DecodedInv ==
  /\ \A i \in DOMAIN classes :
       classes[i] \in DecodeClass(image, rebasesByVa, classes[i].address, classes[i].meta)
  /\ phase = "refs" => Len(refs) = cursor /\ cursor <= Len(image.refSlots)
  /\ phase = "done" => Len(refs) = Len(image.refSlots)
  /\ \A k \in DOMAIN refs :
       k \in DOMAIN image.refSlots /\ refs[k] = RefTarget(image.refSlots[k])

ObjcInv == /\ TypeOK /\ MapsInv /\ PhaseInv /\ QueueInv /\ PendingInv
           /\ DecodedInv /\ MetaFollowsInstance
-----------------------------------------------------------------------------
(* The index maps *)

LEMMA InsertIndexed ==
  ASSUME NEW map, NEW kept \in SUBSET Nat, NEW key, NEW val,
         NEW n \in Nat, \A k \in kept : k < n,
         Indexed(map, kept, key, val)
  PROVE  Indexed(Insert(map, key[n], val[n]), kept \cup {n}, key, val)
<1> DEFINE ext == Insert(map, key[n], val[n])
<1> SUFFICES ASSUME NEW x \in Nat
    PROVE  \/ x \notin DOMAIN ext /\ \A k \in kept \cup {n} : key[k] # x
           \/ /\ x \in DOMAIN ext
              /\ \E k \in kept \cup {n} :
                   /\ key[k] = x /\ ext[x] = val[k]
                   /\ \A h \in kept \cup {n} : key[h] = x => h <= k
  BY DEF Indexed
<1>1. /\ DOMAIN ext = DOMAIN map \cup {key[n]} /\ ext[key[n]] = val[n]
      /\ \A y \in DOMAIN map : y # key[n] => ext[y] = map[y]
  BY DEF Insert
<1> HIDE DEF ext
<1>2. CASE x = key[n]
  <2>1. x \in DOMAIN ext /\ key[n] = x /\ ext[x] = val[n]
    BY <1>1, <1>2
  <2>2. \A h \in kept \cup {n} : h <= n
    OBVIOUS
  <2> QED BY <2>1, <2>2
<1>3. CASE x # key[n] /\ x \notin DOMAIN map
  BY <1>1, <1>3 DEF Indexed
<1>4. CASE x # key[n] /\ x \in DOMAIN map
  <2>1. PICK k \in kept : /\ key[k] = x /\ map[x] = val[k]
                          /\ \A h \in kept : key[h] = x => h <= k
    BY <1>4 DEF Indexed
  <2>2. \A h \in kept \cup {n} : key[h] = x => h <= k
    BY <1>4, <2>1
  <2> QED BY <1>1, <1>4, <2>1, <2>2
<1> QED BY <1>2, <1>3, <1>4

(* The iterators leave the image and the maps alone. *)
LEMMA LateStep ==
  ASSUME Iterate
  PROVE  /\ UNCHANGED <<image, bindsByVa, rebasesByVa>>
         /\ phase \notin {"binds", "rebases"} /\ phase' \notin {"binds", "rebases"}
BY DEF Iterate, CollectClass, SkipSlot, EndCollect, EmitMeta, DropMeta, EmitClass,
       SkipClass, EndClasses, TakeRef, EndRefs, Turn, Advance

LEMMA MapsInit == Init => MapsInv
<1> SUFFICES ASSUME Init PROVE MapsInv
  OBVIOUS
<1>1. Len(image.imports) \in Nat /\ Len(image.rebaseRows) \in Nat
  BY ImageRows DEF Init
<1>2. 1 .. 0 = {} /\ FromFile(image, 0) = {}
  BY DEF FromFile
<1> QED BY <1>1, <1>2 DEF Init, MapsInv, BindsTaken, RebasesTaken, Indexed, Empty

LEMMA MapsStep ==
  ASSUME TypeOK, MapsInv, [Next]_vars
  PROVE  MapsInv'
<1>0. /\ image \in Images /\ cursor \in Nat
      /\ Len(image.imports) \in Nat /\ Len(image.rebaseRows) \in Nat
      /\ DOMAIN image.imports = 1 .. Len(image.imports)
      /\ DOMAIN image.rebaseRows = 1 .. Len(image.rebaseRows)
  BY ImageRows DEF TypeOK
<1>1. CASE IndexBind
  <2>1. /\ phase = "binds" /\ phase' = "binds" /\ image' = image
        /\ cursor' = cursor + 1 /\ cursor < Len(image.imports)
        /\ rebasesByVa' = rebasesByVa
        /\ bindsByVa' = Insert(bindsByVa, BindVas(image)[cursor + 1],
                               BindSyms(image)[cursor + 1])
    BY <1>0, <1>1 DEF IndexBind, Advance, Imp, BindVas, BindSyms
  <2>2. FromFile(image, cursor + 1) = FromFile(image, cursor) \cup {cursor + 1}
    BY <1>0, <1>1 DEF IndexBind, Imp, FromFile
  <2>3. Indexed(bindsByVa', FromFile(image, cursor + 1), BindVas(image), BindSyms(image))
    <3>1. Indexed(bindsByVa, FromFile(image, cursor), BindVas(image), BindSyms(image))
      BY <2>1 DEF MapsInv, BindsTaken
    <3>2. /\ FromFile(image, cursor) \in SUBSET Nat
          /\ \A k \in FromFile(image, cursor) : k < cursor + 1
      BY <1>0 DEF FromFile
    <3>3. cursor + 1 \in Nat
      BY <1>0
    <3>4. Indexed(Insert(bindsByVa, BindVas(image)[cursor + 1], BindSyms(image)[cursor + 1]),
                  FromFile(image, cursor) \cup {cursor + 1},
                  BindVas(image), BindSyms(image))
      BY <3>1, <3>2, <3>3, InsertIndexed, Zenon
    <3> QED BY <2>1, <2>2, <3>4
  <2> QED BY <1>0, <2>1, <2>3 DEF MapsInv, BindsTaken, RebasesTaken
<1>2. CASE DropBind
  <2>1. /\ phase = "binds" /\ phase' = "binds" /\ image' = image
        /\ cursor' = cursor + 1 /\ cursor < Len(image.imports)
        /\ UNCHANGED <<bindsByVa, rebasesByVa>>
    BY <1>2 DEF DropBind, Advance
  <2>2. FromFile(image, cursor + 1) = FromFile(image, cursor)
    BY <1>0, <1>2 DEF DropBind, Imp, FromFile
  <2> QED BY <1>0, <2>1, <2>2 DEF MapsInv, BindsTaken, RebasesTaken
<1>3. CASE EndBinds
  <2>1. /\ phase = "binds" /\ phase' = "rebases" /\ image' = image /\ cursor' = 0
        /\ cursor = Len(image.imports) /\ UNCHANGED <<bindsByVa, rebasesByVa>>
    BY <1>3 DEF EndBinds, Turn
  <2> QED BY <1>0, <2>1 DEF MapsInv, BindsTaken, RebasesTaken
<1>4. CASE IndexRebase
  <2>1. /\ phase = "rebases" /\ phase' = "rebases" /\ image' = image
        /\ cursor' = cursor + 1 /\ cursor < Len(image.rebaseRows)
        /\ bindsByVa' = bindsByVa
        /\ rebasesByVa' = Insert(rebasesByVa, RebaseVas(image)[cursor + 1],
                                 RebaseTargets(image)[cursor + 1])
    BY <1>0, <1>4 DEF IndexRebase, Advance, RebaseVas, RebaseTargets
  <2>2. 1 .. (cursor + 1) = (1 .. cursor) \cup {cursor + 1}
    BY <1>0
  <2>3. Indexed(rebasesByVa', 1 .. (cursor + 1), RebaseVas(image), RebaseTargets(image))
    <3>1. Indexed(rebasesByVa, 1 .. cursor, RebaseVas(image), RebaseTargets(image))
      BY <2>1 DEF MapsInv, RebasesTaken
    <3>2. 1 .. cursor \in SUBSET Nat /\ \A k \in 1 .. cursor : k < cursor + 1
      BY <1>0
    <3>3. cursor + 1 \in Nat
      BY <1>0
    <3>4. Indexed(Insert(rebasesByVa, RebaseVas(image)[cursor + 1],
                         RebaseTargets(image)[cursor + 1]),
                  (1 .. cursor) \cup {cursor + 1},
                  RebaseVas(image), RebaseTargets(image))
      BY <3>1, <3>2, <3>3, InsertIndexed, Zenon
    <3> QED BY <2>1, <2>2, <3>4
  <2> QED BY <1>0, <2>1, <2>3 DEF MapsInv, BindsTaken, RebasesTaken
<1>5. CASE EndRebases
  <2>1. /\ phase = "rebases" /\ phase' = "collect" /\ image' = image
        /\ cursor = Len(image.rebaseRows) /\ UNCHANGED <<bindsByVa, rebasesByVa>>
    BY <1>5 DEF EndRebases, Turn
  <2> QED BY <1>0, <2>1 DEF MapsInv, BindsTaken, RebasesTaken
<1>6. CASE Iterate
  BY <1>6, LateStep DEF MapsInv, BindsTaken, RebasesTaken
<1>7. CASE Returned \/ UNCHANGED vars
  BY <1>7 DEF Returned, vars, MapsInv, BindsTaken, RebasesTaken
<1> QED BY <1>1, <1>2, <1>3, <1>4, <1>5, <1>6, <1>7 DEF Next, Build

(* Once the maps are built, resolving a slot gives what the image says. *)
LEMMA ResolveIsPointee ==
  ASSUME TypeOK, MapsInv, phase \notin {"binds", "rebases"}, NEW slot \in Nat
  PROVE  ResolvePointer(image, rebasesByVa, slot) = Pointee(image, slot)
<1> DEFINE hits == {k \in DOMAIN image.rebaseRows : image.rebaseRows[k].va = slot}
<1>1. /\ DOMAIN image.rebaseRows = 1 .. Len(image.rebaseRows)
      /\ Len(image.rebaseRows) \in Nat
  BY ImageRows DEF TypeOK
<1>2. Indexed(rebasesByVa, DOMAIN image.rebaseRows, RebaseVas(image), RebaseTargets(image))
  BY <1>1 DEF MapsInv, RebasesTaken
<1>3. CASE slot \notin DOMAIN rebasesByVa
  <2>1. hits = {}
    BY <1>2, <1>3 DEF Indexed, RebaseVas
  <2> QED BY <1>3, <2>1 DEF ResolvePointer, Pointee
<1>4. CASE slot \in DOMAIN rebasesByVa
  <2>1. PICK k \in hits : /\ rebasesByVa[slot] = image.rebaseRows[k].target
                          /\ \A h \in hits : h <= k
    BY <1>2, <1>4 DEF Indexed, RebaseVas, RebaseTargets
  <2>2. k = CHOOSE n \in hits : \A h \in hits : h <= n
    <3>1. \A n \in hits : (\A h \in hits : h <= n) => n = k
      BY <1>1, <2>1
    <3> QED BY <2>1, <3>1
  <2>3. Pointee(image, slot) = image.rebaseRows[k].target
    BY <2>1, <2>2 DEF Pointee
  <2> QED BY <1>4, <2>1, <2>3 DEF ResolvePointer
<1> QED BY <1>3, <1>4

-----------------------------------------------------------------------------
(* The queue of classes *)

(* A class not listed among the first n slots comes after those that are. *)
LEMMA ListedLater ==
  ASSUME NEW im \in Images, NEW n \in Nat, NEW a, NEW b,
         \E k \in ListedAt(im, a) : k <= n,
         \A h \in ListedAt(im, b) : ~(h <= n)
  PROVE  ListedBefore(im, a, b)
<1>1. ListedAt(im, a) \subseteq Nat /\ ListedAt(im, b) \subseteq Nat
  BY ImageRows DEF ListedAt
<1> QED BY <1>1 DEF ListedBefore

(* CollectClass *)
LEMMA QueueAppend ==
  ASSUME NEW im \in Images, NEW n \in Nat, n < Len(Slots(im)),
         NEW queue \in Seq(Nat \ {0}), NEW va \in Nat \ {0},
         Pointee(im, Slots(im)[n + 1]) = va,
         \A i \in DOMAIN queue : queue[i] # va,
         Queue(im, n, queue, <<>>, FALSE)
  PROVE  Queue(im, n + 1, Append(queue, va), <<>>, FALSE)
<1> DEFINE ext == Append(queue, va)
<1>1. /\ DOMAIN queue = 1 .. Len(queue) /\ Len(queue) \in Nat
      /\ DOMAIN ext = 1 .. (Len(queue) + 1)
      /\ \A i \in DOMAIN queue : ext[i] = queue[i]
      /\ ext[Len(queue) + 1] = va
  OBVIOUS
<1>2. InstancesIn(<<>>) = {}
  BY DEF InstancesIn
<1>3. DOMAIN Slots(im) = 1 .. Len(Slots(im)) /\ Len(Slots(im)) \in Nat
  BY ImageRows
<1> HIDE DEF ext
<1>4. n + 1 \in ListedAt(im, va)
  BY <1>3 DEF ListedAt
<1>5. \A h \in ListedAt(im, va) : ~(h <= n)
  <2> SUFFICES ASSUME NEW h \in 1 .. n, Pointee(im, Slots(im)[h]) = va PROVE FALSE
    BY <1>3 DEF ListedAt
  <2> QED BY <1>2, NoneIsNone DEF Queue
<1>6. \A i \in DOMAIN ext : \E k \in ListedAt(im, ext[i]) : k <= n + 1
  <2> SUFFICES ASSUME NEW i \in DOMAIN ext
               PROVE  \E k \in ListedAt(im, ext[i]) : k <= n + 1
    OBVIOUS
  <2>1. CASE i \in DOMAIN queue
    <3>1. PICK k \in ListedAt(im, queue[i]) : k <= n
      BY <2>1 DEF Queue
    <3>2. k \in Nat
      BY <1>3 DEF ListedAt
    <3> QED BY <1>1, <2>1, <3>1, <3>2
  <2>2. CASE i = Len(queue) + 1
    BY <1>1, <1>4, <2>2
  <2> QED BY <1>1, <2>1, <2>2
<1>7. \A i, j \in DOMAIN ext : i < j => ListedBefore(im, ext[i], ext[j])
  <2> SUFFICES ASSUME NEW i \in DOMAIN ext, NEW j \in DOMAIN ext, i < j
               PROVE  ListedBefore(im, ext[i], ext[j])
    OBVIOUS
  <2>1. i \in DOMAIN queue
    BY <1>1
  <2>2. CASE j \in DOMAIN queue
    BY <1>1, <2>1, <2>2 DEF Queue
  <2>3. CASE j = Len(queue) + 1
    <3>1. \E k \in ListedAt(im, queue[i]) : k <= n
      BY <2>1 DEF Queue
    <3>2. ListedBefore(im, queue[i], va)
      BY <1>5, <3>1, ListedLater
    <3> QED BY <1>1, <2>1, <2>3, <3>2
  <2> QED BY <1>1, <2>2, <2>3
<1>8. \A k \in 1 .. (n + 1) :
        \/ Pointee(im, Slots(im)[k]) \in {None, 0}
        \/ \E i \in DOMAIN ext : ext[i] = Pointee(im, Slots(im)[k])
  <2> SUFFICES ASSUME NEW k \in 1 .. (n + 1),
                      Pointee(im, Slots(im)[k]) \notin {None, 0}
               PROVE  \E i \in DOMAIN ext : ext[i] = Pointee(im, Slots(im)[k])
    OBVIOUS
  <2>1. CASE k \in 1 .. n
    <3>1. PICK i \in DOMAIN queue : queue[i] = Pointee(im, Slots(im)[k])
      BY <1>2, <2>1 DEF Queue
    <3> QED BY <1>1, <3>1
  <2>2. CASE k = n + 1
    <3>1. /\ Len(queue) + 1 \in DOMAIN ext
          /\ ext[Len(queue) + 1] = Pointee(im, Slots(im)[k])
      BY <1>1, <2>2
    <3> QED BY <3>1
  <2> QED BY <2>1, <2>2
<1> QED BY <1>2, <1>6, <1>7, <1>8 DEF Queue, ext

(* SkipSlot *)
LEMMA QueueSkipSlot ==
  ASSUME NEW im \in Images, NEW n \in Nat, n < Len(Slots(im)), NEW queue,
         \/ Pointee(im, Slots(im)[n + 1]) \in {None, 0}
         \/ \E i \in DOMAIN queue : queue[i] = Pointee(im, Slots(im)[n + 1]),
         Queue(im, n, queue, <<>>, FALSE)
  PROVE  Queue(im, n + 1, queue, <<>>, FALSE)
<1>1. \A i \in DOMAIN queue : \E k \in ListedAt(im, queue[i]) : k <= n + 1
  <2> SUFFICES ASSUME NEW i \in DOMAIN queue
               PROVE  \E k \in ListedAt(im, queue[i]) : k <= n + 1
    OBVIOUS
  <2>1. PICK k \in ListedAt(im, queue[i]) : k <= n
    BY DEF Queue
  <2>2. k \in Nat
    BY ImageRows DEF ListedAt
  <2> QED BY <2>1, <2>2
<1>2. \A k \in 1 .. (n + 1) :
        \/ Pointee(im, Slots(im)[k]) \in {None, 0}
        \/ \E i \in DOMAIN queue : queue[i] = Pointee(im, Slots(im)[k])
  <2> SUFFICES ASSUME NEW k \in 1 .. (n + 1)
               PROVE  \/ Pointee(im, Slots(im)[k]) \in {None, 0}
                      \/ \E i \in DOMAIN queue : queue[i] = Pointee(im, Slots(im)[k])
    OBVIOUS
  <2>1. CASE k \in 1 .. n
    <3>1. InstancesIn(<<>>) = {}
      BY DEF InstancesIn
    <3> QED BY <2>1, <3>1 DEF Queue
  <2>2. CASE k = n + 1
    BY <2>2
  <2> QED BY <2>1, <2>2
<1> QED BY <1>1, <1>2 DEF Queue

(* What is left of a queue when its head is taken. *)
LEMMA TailFacts ==
  ASSUME NEW queue \in Seq(Nat \ {0}), queue # <<>>
  PROVE  /\ \A i \in DOMAIN Tail(queue) : /\ i + 1 \in DOMAIN queue
                                          /\ Tail(queue)[i] = queue[i + 1]
         /\ \A i \in DOMAIN queue : \/ i = 1
                                    \/ /\ i - 1 \in DOMAIN Tail(queue)
                                       /\ Tail(queue)[i - 1] = queue[i]
         /\ 1 \in DOMAIN queue /\ Head(queue) = queue[1]
         /\ DOMAIN queue \subseteq Nat \ {0} /\ DOMAIN Tail(queue) \subseteq Nat \ {0}
OBVIOUS

(* SkipClass *)
LEMMA QueueSkipClass ==
  ASSUME NEW im \in Images, NEW n \in Nat, NEW rows,
         NEW queue \in Seq(Nat \ {0}), queue # <<>>,
         ~Decodable(im, Head(queue)),
         Queue(im, n, queue, rows, TRUE)
  PROVE  Queue(im, n, Tail(queue), rows, TRUE)
<1> DEFINE rest == Tail(queue)
<1>1. /\ \A i \in DOMAIN rest : i + 1 \in DOMAIN queue /\ rest[i] = queue[i + 1]
      /\ \A i \in DOMAIN queue : i = 1 \/ (i - 1 \in DOMAIN rest /\ rest[i - 1] = queue[i])
      /\ Head(queue) = queue[1] /\ DOMAIN rest \subseteq Nat
  BY TailFacts
<1> HIDE DEF rest
<1>2. \A i \in DOMAIN rest : \E k \in ListedAt(im, rest[i]) : k <= n
  BY <1>1 DEF Queue
<1>3. \A i, j \in DOMAIN rest : i < j => ListedBefore(im, rest[i], rest[j])
  <2> SUFFICES ASSUME NEW i \in DOMAIN rest, NEW j \in DOMAIN rest, i < j
               PROVE  ListedBefore(im, rest[i], rest[j])
    OBVIOUS
  <2>1. i + 1 < j + 1
    BY <1>1
  <2> QED BY <1>1, <2>1 DEF Queue
<1>4. \A i \in InstancesIn(rows) : \A j \in DOMAIN rest :
        ListedBefore(im, rows[i].address, rest[j])
  BY <1>1 DEF Queue
<1>5. \A k \in 1 .. n :
        \/ Pointee(im, Slots(im)[k]) \in {None, 0}
        \/ ~Decodable(im, Pointee(im, Slots(im)[k]))
        \/ \E i \in DOMAIN rest : rest[i] = Pointee(im, Slots(im)[k])
        \/ \E i \in InstancesIn(rows) : rows[i].address = Pointee(im, Slots(im)[k])
  <2> SUFFICES ASSUME NEW k \in 1 .. n, NEW i \in DOMAIN queue,
                      queue[i] = Pointee(im, Slots(im)[k]),
                      Decodable(im, Pointee(im, Slots(im)[k]))
               PROVE  \E h \in DOMAIN rest : rest[h] = Pointee(im, Slots(im)[k])
    BY DEF Queue
  <2>1. i # 1
    <3>1. ~Decodable(im, queue[1])
      BY <1>1
    <3> QED BY <3>1
  <2>2. i - 1 \in DOMAIN rest /\ rest[i - 1] = queue[i]
    BY <1>1, <2>1
  <2> QED BY <2>2
<1> QED BY <1>2, <1>3, <1>4, <1>5 DEF Queue, rest

(* EmitMeta *)
LEMMA QueueEmitMeta ==
  ASSUME NEW im, NEW n, NEW queue, NEW rows \in Seq(ClassRow),
         NEW row \in ClassRow, row.meta,
         Queue(im, n, queue, rows, TRUE)
  PROVE  Queue(im, n, queue, Append(rows, row), TRUE)
<1>1. /\ InstancesIn(Append(rows, row)) = InstancesIn(rows)
      /\ \A i \in InstancesIn(rows) : Append(rows, row)[i] = rows[i]
  BY DEF InstancesIn
<1> QED BY <1>1 DEF Queue

(* EmitClass *)
LEMMA QueueEmitClass ==
  ASSUME NEW im \in Images, NEW n \in Nat,
         NEW queue \in Seq(Nat \ {0}), queue # <<>>,
         NEW rows \in Seq(ClassRow), NEW row \in ClassRow,
         ~row.meta, row.address = Head(queue),
         Queue(im, n, queue, rows, TRUE)
  PROVE  Queue(im, n, Tail(queue), Append(rows, row), TRUE)
<1> DEFINE rest == Tail(queue)
           ext  == Append(rows, row)
           new  == Len(rows) + 1
<1>1. /\ \A i \in DOMAIN rest : i + 1 \in DOMAIN queue /\ rest[i] = queue[i + 1]
      /\ \A i \in DOMAIN queue : i = 1 \/ (i - 1 \in DOMAIN rest /\ rest[i - 1] = queue[i])
      /\ 1 \in DOMAIN queue /\ Head(queue) = queue[1]
      /\ DOMAIN rest \subseteq Nat \ {0}
  BY TailFacts
<1>2. /\ InstancesIn(ext) = InstancesIn(rows) \cup {new}
      /\ \A i \in InstancesIn(rows) : ext[i] = rows[i] /\ i < new /\ i \in Nat
      /\ ext[new] = row /\ new \in Nat
  BY DEF InstancesIn
<1> HIDE DEF rest, ext, new
<1>3. ext[new].address = queue[1]
  BY <1>1, <1>2
<1>4. \A i \in DOMAIN rest : \E k \in ListedAt(im, rest[i]) : k <= n
  BY <1>1 DEF Queue
<1>5. \A i, j \in DOMAIN rest : i < j => ListedBefore(im, rest[i], rest[j])
  <2> SUFFICES ASSUME NEW i \in DOMAIN rest, NEW j \in DOMAIN rest, i < j
               PROVE  ListedBefore(im, rest[i], rest[j])
    OBVIOUS
  <2>1. i + 1 < j + 1
    BY <1>1
  <2> QED BY <1>1, <2>1 DEF Queue
<1>6. \A i \in InstancesIn(ext) : ListedAt(im, ext[i].address) # {}
  <2>1. ListedAt(im, queue[1]) # {}
    BY <1>1 DEF Queue
  <2> QED BY <1>2, <1>3, <2>1 DEF Queue
<1>7. \A i, j \in InstancesIn(ext) :
        i < j => ListedBefore(im, ext[i].address, ext[j].address)
  <2> SUFFICES ASSUME NEW i \in InstancesIn(ext), NEW j \in InstancesIn(ext), i < j
               PROVE  ListedBefore(im, ext[i].address, ext[j].address)
    OBVIOUS
  <2>1. i \in InstancesIn(rows)
    BY <1>2
  <2>2. CASE j \in InstancesIn(rows)
    BY <1>2, <2>1, <2>2 DEF Queue
  <2>3. CASE j = new
    <3>1. ListedBefore(im, rows[i].address, queue[1])
      BY <1>1, <2>1 DEF Queue
    <3> QED BY <1>2, <1>3, <2>1, <2>3, <3>1
  <2> QED BY <1>2, <2>2, <2>3
<1>8. \A i \in InstancesIn(ext) : \A j \in DOMAIN rest :
        ListedBefore(im, ext[i].address, rest[j])
  <2> SUFFICES ASSUME NEW i \in InstancesIn(ext), NEW j \in DOMAIN rest
               PROVE  ListedBefore(im, ext[i].address, queue[j + 1])
    BY <1>1
  <2>1. CASE i \in InstancesIn(rows)
    BY <1>1, <1>2, <2>1 DEF Queue
  <2>2. CASE i = new
    <3>1. j + 1 \in DOMAIN queue /\ 1 < j + 1
      BY <1>1
    <3>2. ListedBefore(im, queue[1], queue[j + 1])
      BY <1>1, <3>1 DEF Queue
    <3> QED BY <1>3, <2>2, <3>2
  <2> QED BY <1>2, <2>1, <2>2
<1>9. \A k \in 1 .. n :
        \/ Pointee(im, Slots(im)[k]) \in {None, 0}
        \/ ~Decodable(im, Pointee(im, Slots(im)[k]))
        \/ \E i \in DOMAIN rest : rest[i] = Pointee(im, Slots(im)[k])
        \/ \E i \in InstancesIn(ext) : ext[i].address = Pointee(im, Slots(im)[k])
  <2> SUFFICES ASSUME NEW k \in 1 .. n,
                      Pointee(im, Slots(im)[k]) \notin {None, 0},
                      Decodable(im, Pointee(im, Slots(im)[k]))
               PROVE  \/ \E i \in DOMAIN rest : rest[i] = Pointee(im, Slots(im)[k])
                      \/ \E i \in InstancesIn(ext) : ext[i].address = Pointee(im, Slots(im)[k])
    OBVIOUS
  <2>1. ASSUME NEW i \in DOMAIN queue, queue[i] = Pointee(im, Slots(im)[k])
        PROVE  \/ \E h \in DOMAIN rest : rest[h] = Pointee(im, Slots(im)[k])
               \/ \E h \in InstancesIn(ext) : ext[h].address = Pointee(im, Slots(im)[k])
    <3>1. CASE i = 1
      BY <1>2, <1>3, <2>1, <3>1
    <3>2. CASE i # 1
      <4>1. i - 1 \in DOMAIN rest /\ rest[i - 1] = queue[i]
        BY <1>1, <3>2
      <4> QED BY <2>1, <4>1
    <3> QED BY <3>1, <3>2
  <2>2. ASSUME NEW i \in InstancesIn(rows), rows[i].address = Pointee(im, Slots(im)[k])
        PROVE  \E h \in InstancesIn(ext) : ext[h].address = Pointee(im, Slots(im)[k])
    BY <1>2, <2>2
  <2> QED BY <2>1, <2>2 DEF Queue
<1> QED BY <1>4, <1>5, <1>6, <1>7, <1>8, <1>9 DEF Queue, rest, ext
-----------------------------------------------------------------------------
(* The steps *)

(* The row EmitMeta adds. *)
LEMMA MetaRow ==
  ASSUME TypeOK, EmitMeta
  PROVE  \E row \in ClassRow :
           /\ classes' = Append(classes, row)
           /\ row \in DecodeClass(image, rebasesByVa, row.address, row.meta)
           /\ row.address = pendingMeta /\ row.meta
<1>1. pendingMeta \in Nat \ {0}
  BY DEF TypeOK, EmitMeta
<1> QED BY <1>1, DecodeFacts DEF TypeOK, EmitMeta, Meta

(* The row EmitClass adds, and the metaclass it leaves to be handed out. *)
LEMMA InstanceRow ==
  ASSUME TypeOK, EmitClass
  PROVE  \E row \in ClassRow :
           /\ classes' = Append(classes, row)
           /\ row \in DecodeClass(image, rebasesByVa, row.address, row.meta)
           /\ row.address = Head(classAddrs) /\ ~row.meta
           /\ pendingMeta' = IF row.isa # 0 /\ row.isa # row.address
                             THEN row.isa ELSE None
<1>1. Head(classAddrs) \in Nat \ {0}
  BY DEF TypeOK, EmitClass
<1> QED BY <1>1, DecodeFacts DEF TypeOK, EmitClass, Class

LEMMA PhaseStep ==
  ASSUME PhaseInv, [Next]_vars
  PROVE  PhaseInv'
BY DEF PhaseInv, Next, Build, Iterate, IndexBind, DropBind, EndBinds, IndexRebase,
       EndRebases, CollectClass, SkipSlot, EndCollect, EmitMeta, DropMeta,
       EmitClass, SkipClass, EndClasses, TakeRef, EndRefs, Returned, Turn,
       Advance, vars

(* A metaclass is handed out only right after its class. *)
LEMMA MetaStep ==
  ASSUME TypeOK, PhaseInv, PendingInv, MetaFollowsInstance, [Next]_vars
  PROVE  PendingInv' /\ MetaFollowsInstance'
<1>1. CASE EmitMeta
  <2>1. PICK row \in ClassRow : /\ classes' = Append(classes, row)
                                /\ row.address = pendingMeta /\ row.meta
    BY <1>1, MetaRow
  <2>2. /\ classes \in Seq(ClassRow) /\ classes # <<>>
        /\ ~classes[Len(classes)].meta
        /\ row.address = classes[Len(classes)].isa
        /\ row.address # classes[Len(classes)].address
    BY <1>1, <2>1 DEF TypeOK, PendingInv, EmitMeta
  <2>3. /\ DOMAIN classes = 1 .. Len(classes) /\ Len(classes) \in Nat \ {0}
        /\ DOMAIN classes' = 1 .. (Len(classes) + 1)
        /\ \A i \in DOMAIN classes : classes'[i] = classes[i]
        /\ classes'[Len(classes) + 1] = row
    BY <2>1, <2>2
  <2>4. MetaFollowsInstance'
    <3> SUFFICES ASSUME NEW i \in DOMAIN classes', classes'[i].meta
                 PROVE  /\ i > 1 /\ ~classes'[i - 1].meta
                        /\ classes'[i].address = classes'[i - 1].isa
                        /\ classes'[i].address # classes'[i - 1].address
      BY DEF MetaFollowsInstance
    <3>1. CASE i \in DOMAIN classes
      <4>1. i > 1 => i - 1 \in DOMAIN classes
        BY <2>3, <3>1
      <4> QED BY <2>3, <3>1, <4>1 DEF MetaFollowsInstance
    <3>2. CASE i = Len(classes) + 1
      BY <2>2, <2>3, <3>2
    <3> QED BY <2>3, <3>1, <3>2
  <2> QED BY <1>1, <2>4 DEF EmitMeta, PendingInv
<1>2. CASE EmitClass
  <2>1. PICK row \in ClassRow :
          /\ classes' = Append(classes, row) /\ ~row.meta
          /\ pendingMeta' = IF row.isa # 0 /\ row.isa # row.address
                            THEN row.isa ELSE None
    BY <1>2, InstanceRow
  <2>2. /\ DOMAIN classes = 1 .. Len(classes) /\ Len(classes) \in Nat
        /\ DOMAIN classes' = 1 .. (Len(classes) + 1)
        /\ \A i \in DOMAIN classes : classes'[i] = classes[i]
        /\ classes'[Len(classes) + 1] = row
        /\ Len(classes') = Len(classes) + 1
    BY <2>1 DEF TypeOK
  <2>3. PendingInv'
    <3>1. classes' # <<>>
      BY <2>2
    <3> QED BY <2>1, <2>2, <3>1 DEF PendingInv
  <2>4. MetaFollowsInstance'
    <3> SUFFICES ASSUME NEW i \in DOMAIN classes', classes'[i].meta
                 PROVE  /\ i > 1 /\ ~classes'[i - 1].meta
                        /\ classes'[i].address = classes'[i - 1].isa
                        /\ classes'[i].address # classes'[i - 1].address
      BY DEF MetaFollowsInstance
    <3>1. i \in DOMAIN classes
      BY <2>1, <2>2
    <3>2. i > 1 => i - 1 \in DOMAIN classes
      BY <2>2, <3>1
    <3> QED BY <2>2, <3>1, <3>2 DEF MetaFollowsInstance
  <2> QED BY <2>3, <2>4
<1>3. CASE ~EmitMeta /\ ~EmitClass
  <2>1. classes' = classes /\ (pendingMeta' = pendingMeta \/ pendingMeta' = None)
    BY <1>3 DEF Next, Build, Iterate, IndexBind, DropBind, EndBinds, IndexRebase,
         EndRebases, CollectClass, SkipSlot, EndCollect, DropMeta,
         SkipClass, EndClasses, TakeRef, EndRefs, Returned, vars
  <2> QED BY <2>1 DEF PendingInv, MetaFollowsInstance
<1> QED BY <1>1, <1>2, <1>3

(* The iterators look the same up in the same maps. *)
LEMMA RefTargetSame ==
  ASSUME UNCHANGED <<image, bindsByVa, rebasesByVa>>
  PROVE  \A slot : RefTarget(slot)' = RefTarget(slot)
BY DEF RefTarget

LEMMA DecodedStep ==
  ASSUME TypeOK, PhaseInv, DecodedInv, [Next]_vars
  PROVE  DecodedInv'
<1>0. /\ image.refSlots \in Seq(Nat) /\ classes \in Seq(ClassRow)
      /\ refs \in Seq(RefRow) /\ cursor \in Nat
  BY ImageRows DEF TypeOK
<1>1. CASE Build
  <2>1. /\ phase' \in {"binds", "rebases", "collect"}
        /\ classes' = classes /\ refs' = refs /\ classes = <<>> /\ refs = <<>>
    BY <1>1 DEF Build, IndexBind, DropBind, EndBinds, IndexRebase, EndRebases,
                Turn, Advance, PhaseInv
  <2> QED BY <2>1 DEF DecodedInv
<1>2. CASE CollectClass \/ SkipSlot \/ EndCollect \/ DropMeta \/ SkipClass \/ EndClasses
  <2>1. /\ UNCHANGED <<image, bindsByVa, rebasesByVa, classes, refs>>
        /\ phase' # "done" /\ (phase' = "refs" => cursor' = 0) /\ refs = <<>>
    BY <1>2 DEF CollectClass, SkipSlot, EndCollect, DropMeta, SkipClass,
                EndClasses, Turn, Advance, PhaseInv
  <2> QED BY <1>0, <2>1 DEF DecodedInv
<1>3. CASE EmitMeta \/ EmitClass
  <2>1. PICK row \in ClassRow :
          /\ classes' = Append(classes, row)
          /\ row \in DecodeClass(image, rebasesByVa, row.address, row.meta)
    BY <1>3, MetaRow, InstanceRow
  <2>2. /\ UNCHANGED <<image, bindsByVa, rebasesByVa, refs, phase, cursor>>
        /\ phase = "emit" /\ refs = <<>>
    BY <1>3 DEF EmitMeta, EmitClass, PhaseInv
  <2>3. \A i \in DOMAIN classes' :
          \/ i \in DOMAIN classes /\ classes'[i] = classes[i]
          \/ classes'[i] = row
    BY <1>0, <2>1
  <2> QED BY <2>1, <2>2, <2>3 DEF DecodedInv
<1>4. CASE TakeRef
  <2>1. /\ UNCHANGED <<image, bindsByVa, rebasesByVa, classes>>
        /\ phase = "refs" /\ phase' = "refs" /\ cursor' = cursor + 1
        /\ cursor < Len(image.refSlots)
        /\ refs' = Append(refs, RefTarget(image.refSlots[cursor + 1]))
    BY <1>4 DEF TakeRef, Advance
  <2>2. Len(refs) = cursor
    BY <2>1 DEF DecodedInv
  <2>3. RefTarget(image.refSlots[cursor + 1]) \in RefRow
    BY <1>0, <2>1, ImageRows, RefTargetType DEF TypeOK
  <2>4. /\ Len(refs') = cursor + 1
        /\ \A k \in DOMAIN refs' :
             /\ k \in DOMAIN image.refSlots
             /\ refs'[k] = RefTarget(image.refSlots[k])
    <3>1. /\ Len(refs') = cursor + 1 /\ DOMAIN refs' = DOMAIN refs \cup {cursor + 1}
          /\ \A k \in DOMAIN refs : refs'[k] = refs[k]
          /\ refs'[cursor + 1] = RefTarget(image.refSlots[cursor + 1])
      BY <1>0, <2>1, <2>2, <2>3
    <3>2. cursor + 1 \in DOMAIN image.refSlots
      BY <1>0, <2>1
    <3> QED BY <3>1, <3>2 DEF DecodedInv
  <2> QED BY <1>0, <2>1, <2>4, RefTargetSame DEF DecodedInv
<1>5. CASE EndRefs
  <2>1. /\ UNCHANGED <<image, bindsByVa, rebasesByVa, classes, refs>>
        /\ phase = "refs" /\ phase' = "done" /\ cursor = Len(image.refSlots)
    BY <1>5 DEF EndRefs, Turn
  <2> QED BY <2>1, RefTargetSame DEF DecodedInv
<1>6. CASE Returned \/ UNCHANGED vars
  <2>1. UNCHANGED <<image, bindsByVa, rebasesByVa, classes, refs, phase, cursor>>
    BY <1>6 DEF Returned, vars
  <2> QED BY <2>1, RefTargetSame DEF DecodedInv
<1> QED BY <1>1, <1>2, <1>3, <1>4, <1>5, <1>6 DEF Next, Iterate

(* What CollectClass and SkipSlot see in a slot. *)
LEMMA ListedIsPointee ==
  ASSUME TypeOK, MapsInv, phase = "collect", cursor < Len(Slots(image))
  PROVE  /\ Listed \in Nat
         /\ Listed # 0 => Pointee(image, Slots(image)[cursor + 1]) = Listed
         /\ Listed = 0 => Pointee(image, Slots(image)[cursor + 1]) \in {None, 0}
<1>1. Slots(image)[cursor + 1] \in Nat
  <2>1. cursor + 1 \in 1 .. Len(Slots(image))
    BY ImageRows DEF TypeOK
  <2> QED BY <2>1, ImageRows DEF TypeOK
<1>2. PICK v \in Nat \cup {None} :
        /\ v = ResolvePointer(image, rebasesByVa, Slots(image)[cursor + 1])
        /\ v = Pointee(image, Slots(image)[cursor + 1])
  BY <1>1, ResolveType, ResolveIsPointee DEF TypeOK
<1> QED BY <1>2, OrZeroFacts DEF Listed

LEMMA QueueInit == Init => QueueInv
<1>1. Init => Len(Slots(image)) \in Nat
  BY ImageRows DEF Init
<1> QED BY <1>1 DEF Init, QueueInv, SlotsTaken, Queue, InstancesIn

LEMMA QueueStep ==
  ASSUME TypeOK, MapsInv, PhaseInv, QueueInv, [Next]_vars
  PROVE  QueueInv'
<1>0. /\ image \in Images /\ cursor \in Nat /\ Len(Slots(image)) \in Nat
      /\ classAddrs \in Seq(Nat \ {0}) /\ classes \in Seq(ClassRow)
  BY ImageRows DEF TypeOK
<1>1. CASE Build
  <2>1. /\ image' = image /\ classAddrs' = <<>> /\ classes' = <<>>
        /\ phase' \in {"binds", "rebases", "collect"}
        /\ phase' = "collect" => cursor' = 0
    BY <1>1 DEF Build, IndexBind, DropBind, EndBinds, IndexRebase, EndRebases,
                Turn, Advance, PhaseInv
  <2>2. SlotsTaken' = 0
    BY <2>1 DEF SlotsTaken
  <2> QED BY <1>0, <2>1, <2>2 DEF QueueInv, Queue, InstancesIn
<1>2. CASE CollectClass \/ SkipSlot
  <2>1. /\ image' = image /\ phase = "collect" /\ phase' = "collect"
        /\ cursor' = cursor + 1 /\ cursor < Len(Slots(image))
        /\ classes = <<>> /\ classes' = <<>>
    BY <1>2 DEF CollectClass, SkipSlot, Advance, PhaseInv
  <2>2. Queue(image, cursor, classAddrs, <<>>, FALSE)
    BY <2>1 DEF QueueInv, SlotsTaken
  <2>3. Queue(image, cursor + 1, classAddrs', <<>>, FALSE)
    <3>1. CASE CollectClass
      <4>1. /\ Listed \in Nat \ {0} /\ classAddrs' = Append(classAddrs, Listed)
            /\ Pointee(image, Slots(image)[cursor + 1]) = Listed
            /\ \A i \in DOMAIN classAddrs : classAddrs[i] # Listed
        BY <2>1, <3>1, ListedIsPointee DEF CollectClass, Elems
      <4> QED BY <1>0, <2>1, <2>2, <4>1, QueueAppend
    <3>2. CASE SkipSlot
      <4>1. /\ classAddrs' = classAddrs
            /\ \/ Pointee(image, Slots(image)[cursor + 1]) \in {None, 0}
               \/ \E i \in DOMAIN classAddrs :
                    classAddrs[i] = Pointee(image, Slots(image)[cursor + 1])
        BY <2>1, <3>2, ListedIsPointee DEF SkipSlot, Elems
      <4> QED BY <1>0, <2>1, <2>2, <4>1, QueueSkipSlot
    <3> QED BY <1>2, <3>1, <3>2
  <2>4. SlotsTaken' = cursor + 1 /\ cursor + 1 <= Len(Slots(image))
    BY <1>0, <2>1 DEF SlotsTaken
  <2>5. (phase' \notin {"binds", "rebases", "collect"}) = FALSE
    BY <2>1
  <2> QED BY <2>1, <2>3, <2>4, <2>5 DEF QueueInv
<1>3. CASE EndCollect
  <2>1. /\ UNCHANGED <<image, classAddrs, classes>>
        /\ phase = "collect" /\ phase' = "emit" /\ cursor = Len(Slots(image))
    BY <1>3 DEF EndCollect, Turn
  <2>2. Queue(image, Len(Slots(image)), classAddrs, classes, FALSE)
    BY <2>1 DEF QueueInv, SlotsTaken
  <2>3. Queue(image, Len(Slots(image)), classAddrs, classes, TRUE)
    BY <2>2 DEF Queue
  <2> QED BY <1>0, <2>1, <2>3 DEF QueueInv, SlotsTaken
<1>4. CASE EmitMeta \/ EmitClass \/ SkipClass
  <2>1. image' = image /\ phase = "emit" /\ phase' = "emit"
    BY <1>4 DEF EmitMeta, EmitClass, SkipClass
  <2>2. Queue(image, Len(Slots(image)), classAddrs, classes, TRUE)
    BY <2>1 DEF QueueInv, SlotsTaken
  <2>3. Queue(image, Len(Slots(image)), classAddrs', classes', TRUE)
    <3>1. CASE EmitMeta
      <4>1. PICK row \in ClassRow : classes' = Append(classes, row) /\ row.meta
        BY <3>1, MetaRow
      <4>2. classAddrs' = classAddrs
        BY <3>1 DEF EmitMeta
      <4> QED BY <1>0, <2>2, <4>1, <4>2, QueueEmitMeta
    <3>2. CASE EmitClass
      <4>1. PICK row \in ClassRow : /\ classes' = Append(classes, row) /\ ~row.meta
                                    /\ row.address = Head(classAddrs)
        BY <3>2, InstanceRow
      <4>2. classAddrs # <<>> /\ classAddrs' = Tail(classAddrs)
        BY <3>2 DEF EmitClass
      <4> QED BY <1>0, <2>2, <4>1, <4>2, QueueEmitClass
    <3>3. CASE SkipClass
      <4>1. /\ classAddrs # <<>> /\ classAddrs' = Tail(classAddrs)
            /\ classes' = classes /\ Class = {}
        BY <3>3 DEF SkipClass
      <4>2. ~Decodable(image, Head(classAddrs))
        <5>1. Head(classAddrs) \in Nat \ {0}
          BY <1>0, <4>1
        <5> QED BY <4>1, <5>1, DecodeFacts DEF Class, TypeOK
      <4> QED BY <1>0, <2>2, <4>1, <4>2, QueueSkipClass
    <3> QED BY <1>4, <3>1, <3>2, <3>3
  <2> QED BY <1>0, <2>1, <2>3 DEF QueueInv, SlotsTaken
<1>5. CASE DropMeta \/ EndClasses \/ TakeRef \/ EndRefs \/ Returned \/ UNCHANGED vars
  <2>1. /\ UNCHANGED <<image, classAddrs, classes>>
        /\ \/ phase \in {"emit", "refs", "done"} /\ phase' \in {"emit", "refs", "done"}
           \/ phase' = phase /\ cursor' = cursor
    BY <1>5 DEF DropMeta, EndClasses, TakeRef, EndRefs, Returned, vars, Turn, Advance
  <2>2. SlotsTaken' = SlotsTaken
    BY <2>1 DEF SlotsTaken
  <2> QED BY <2>1, <2>2 DEF QueueInv
<1> QED BY <1>1, <1>2, <1>3, <1>4, <1>5 DEF Next, Iterate
-----------------------------------------------------------------------------
(* The theorems *)

(* Type correctness: whatever the image holds, the maps, the queue and the *)
(* rows hold addresses and names, and the pending metaclass is never null. *)
THEOREM TypeCorrect == Spec => []TypeOK
BY TypeInit, TypeStep, PTL DEF Spec

LEMMA ObjcCorrect == Spec => []ObjcInv
<1>1. Init => ObjcInv
  <2>1. Init => PhaseInv /\ PendingInv /\ DecodedInv /\ MetaFollowsInstance
    BY DEF Init, PhaseInv, PendingInv, DecodedInv, MetaFollowsInstance
  <2> QED BY <2>1, TypeInit, MapsInit, QueueInit DEF ObjcInv
<1>2. ObjcInv /\ [Next]_vars => ObjcInv'
  BY TypeStep, MapsStep, PhaseStep, QueueStep, MetaStep, DecodedStep DEF ObjcInv
<1> QED BY <1>1, <1>2, PTL DEF Spec

(* ClassIter hands a metaclass out only right after the class whose isa it *)
(* is, and follows no metaclass further, whatever the isa pointers say.    *)
THEOREM MetaFollows == Spec => []MetaFollowsInstance
<1>1. ObjcInv => MetaFollowsInstance
  BY DEF ObjcInv
<1> QED BY <1>1, ObjcCorrect, PTL

(* ClassIter hands every listed class that decodes out exactly once, in    *)
(* the order of first listing, for every pair of class lists.              *)
THEOREM EveryClass == Spec => []EveryClassOnce
<1>1. ObjcInv => EveryClassOnce
  <2> SUFFICES ASSUME ObjcInv PROVE EveryClassOnce
    OBVIOUS
  <2>1. Instances = InstancesIn(classes)
    BY DEF Instances, InstancesIn
  <2>2. \A i \in DOMAIN classes : classes[i].address # 0
    <3>1. \A i \in DOMAIN classes : classes[i] \in ClassRow
      BY DEF ObjcInv, TypeOK
    <3> QED BY <3>1 DEF ClassRow
  <2>3. ASSUME phase \in {"refs", "done"}, NEW k \in DOMAIN Slots(image),
               Pointee(image, Slots(image)[k]) \notin {None, 0},
               Decodable(image, Pointee(image, Slots(image)[k]))
        PROVE  \E i \in Instances : classes[i].address = Pointee(image, Slots(image)[k])
    <3>1. k \in 1 .. Len(Slots(image))
      BY ImageRows DEF ObjcInv, TypeOK
    <3>2. classAddrs = <<>>
      BY <2>3 DEF ObjcInv, PhaseInv
    <3> QED BY <2>1, <2>3, <3>1, <3>2 DEF ObjcInv, QueueInv, Queue, SlotsTaken
  <2> QED BY <2>1, <2>2, <2>3 DEF EveryClassOnce, ObjcInv, QueueInv, Queue, Instances, InstancesIn
<1> QED BY <1>1, ObjcCorrect, PTL
-----------------------------------------------------------------------------
(* References and names *)

(* The symbol the image binds to a slot is the one build has indexed. *)
LEMMA BoundIsIndexed ==
  ASSUME TypeOK, MapsInv, phase # "binds", NEW slot \in Nat,
         NEW sym \in BoundTo(image, slot)
  PROVE  slot \in DOMAIN bindsByVa /\ bindsByVa[slot] = sym
<1> DEFINE hits == {k \in DOMAIN image.imports :
                      /\ image.imports[k].va = slot
                      /\ image.imports[k].sym # Static /\ image.imports[k].inFile}
<1>1. /\ DOMAIN image.imports = 1 .. Len(image.imports)
      /\ Len(image.imports) \in Nat
  BY ImageRows DEF TypeOK
<1>2. Indexed(bindsByVa, FromFile(image, Len(image.imports)),
              BindVas(image), BindSyms(image))
  BY DEF MapsInv, BindsTaken
<1>3. PICK k \in hits : sym = image.imports[k].sym /\ \A g \in hits : g <= k
  BY DEF BoundTo
<1>4. k \in FromFile(image, Len(image.imports)) /\ BindVas(image)[k] = slot
  BY <1>1 DEF FromFile, BindVas
<1>5. slot \in DOMAIN bindsByVa
  BY <1>2, <1>4 DEF Indexed
<1>6. PICK g \in FromFile(image, Len(image.imports)) :
        /\ BindVas(image)[g] = slot /\ bindsByVa[slot] = BindSyms(image)[g]
        /\ \A h \in FromFile(image, Len(image.imports)) :
             BindVas(image)[h] = slot => h <= g
  BY <1>2, <1>5 DEF Indexed
<1>7. g \in hits
  BY <1>1, <1>6 DEF FromFile, BindVas
<1>8. g = k
  <2>1. g <= k /\ k <= g
    BY <1>3, <1>4, <1>6, <1>7
  <2> QED BY <1>1, <1>7, <2>1
<1> QED BY <1>1, <1>3, <1>5, <1>6, <1>8 DEF BindSyms

(* next_ref_target reports a bound slot as External with the symbol the    *)
(* last usable import row gives it, and leaves out no slot, on every image.*)
THEOREM ForeignRefs == Spec => []ForeignRefsAreExternal
<1>1. ObjcInv => ForeignRefsAreExternal
  <2> SUFFICES ASSUME ObjcInv PROVE ForeignRefsAreExternal
    OBVIOUS
  <2> USE DEF ObjcInv
  <2>1. ASSUME NEW k \in DOMAIN refs, NEW sym \in BoundTo(image, image.refSlots[k]),
               ~Mapped(image, OrZero(Pointee(image, image.refSlots[k])))
        PROVE  refs[k] = [kind |-> "External", address |-> image.refSlots[k],
                          name |-> sym]
    <3>1. phase \in {"refs", "done"}
      BY DEF PhaseInv
    <3>2. PICK slot \in Nat : slot = image.refSlots[k]
      BY ImageRows DEF TypeOK, DecodedInv
    <3>3. slot \in DOMAIN bindsByVa /\ bindsByVa[slot] = sym
      BY <3>1, <3>2, <2>1, BoundIsIndexed
    <3>4. ~Mapped(image, OrZero(ResolvePointer(image, rebasesByVa, slot)))
      BY <2>1, <3>1, <3>2, ResolveIsPointee
    <3>5. DecodeClassName(image, rebasesByVa,
                          OrZero(ResolvePointer(image, rebasesByVa, slot))) = None
      BY <3>4 DEF DecodeClassName, ReadBytes
    <3>6. refs[k] = RefTarget(slot)
      BY <3>2 DEF DecodedInv
    <3> QED BY <3>2, <3>3, <3>4, <3>5, <3>6 DEF RefTarget
  <2> QED BY <2>1 DEF ForeignRefsAreExternal, DecodedInv
<1> QED BY <1>1, ObjcCorrect, PTL

(* Masking again what is left of a pointer, with its flags put back, finds *)
(* the same class_ro_t: ObjcClass::ro re-masks what decode_class stored.   *)
LEMMA MaskAgain ==
  ASSUME NEW im \in Images, NEW raw \in Nat
  PROVE  MaskRo(im, ClearFlags(OrZero(MaskRo(im, raw))) + (raw % WordSize))
           = MaskRo(im, raw)
<1> DEFINE both == 2 * PacUnit
           x    == raw % both
           y    == raw % StdUnit
           f    == raw % WordSize
<1>1. /\ both \in Nat \ {0} /\ StdUnit \in Nat \ {0} /\ WordSize \in Nat \ {0}
      /\ StdUnit < both
  BY ImageAssumption
<1>2. both % WordSize = 0
  <2>1. PICK q \in Nat : PacUnit = q * WordSize
    <3>1. PICK q \in Nat : PacUnit = q * WordSize + (PacUnit % WordSize)
      BY Quotient, ImageAssumption
    <3> QED BY <3>1, ImageAssumption
  <2>2. both = (2 * q) * WordSize + 0
    BY <1>1, <2>1
  <2>3. 2 * q \in Nat /\ 0 \in 0 .. (WordSize - 1)
    BY <1>1
  <2> QED BY <1>1, <2>2, <2>3, RemainderOfSum
<1>3. /\ x \in Nat /\ x < both /\ y \in Nat /\ y < StdUnit
  <2>1. x \in 0 .. (both - 1) /\ y \in 0 .. (StdUnit - 1)
    <3> HIDE DEF both
    <3> QED BY <1>1, RemainderType
  <2> QED BY <1>1, <2>1
<1>4. x % WordSize = f /\ y % WordSize = f
  BY <1>1, <1>2, RemainderOfRemainder, ImageAssumption
<1> HIDE DEF both, x, y, f
<1>5. ClearFlags(x) + f = x /\ ClearFlags(y) + f = y
  BY <1>3, <1>4, ClearFlagsFacts
<1>6. /\ ClearFlags(x) \in Nat /\ ClearFlags(y) \in Nat
      /\ ClearFlags(ClearFlags(x)) = ClearFlags(x)
      /\ ClearFlags(ClearFlags(y)) = ClearFlags(y)
  BY <1>3, ClearFlagsFacts
<1>7. /\ \A v \in Nat : v < both => v % both = v
      /\ \A v \in Nat : v < StdUnit => v % StdUnit = v
  BY <1>1
<1>8. MaskRo(im, raw) = IF ClearFlags(x) # 0 /\ Mapped(im, ClearFlags(x))
                        THEN ClearFlags(x)
                        ELSE IF ClearFlags(y) # 0 THEN ClearFlags(y) ELSE None
  BY DEF MaskRo, both, x, y
<1>9. CASE ClearFlags(x) # 0 /\ Mapped(im, ClearFlags(x))
  <2>1. ClearFlags(OrZero(MaskRo(im, raw))) + f = x
    BY <1>5, <1>6, <1>8, <1>9, NoneIsNone DEF OrZero
  <2>2. MaskRo(im, x) = ClearFlags(x)
    BY <1>3, <1>7, <1>9 DEF MaskRo, both
  <2> QED BY <1>8, <1>9, <2>1, <2>2 DEF f
<1>10. CASE ~(ClearFlags(x) # 0 /\ Mapped(im, ClearFlags(x)))
  <2>1. ClearFlags(OrZero(MaskRo(im, raw))) + f = y
    <3>1. OrZero(MaskRo(im, raw)) = ClearFlags(y)
      BY <1>6, <1>8, <1>10, NoneIsNone DEF OrZero
    <3> QED BY <1>5, <1>6, <3>1
  <2>2. y % both = y /\ y % StdUnit = y
    BY <1>1, <1>3, <1>7
  <2>3. MaskRo(im, y) = IF ClearFlags(y) # 0 THEN ClearFlags(y) ELSE None
    BY <2>2 DEF MaskRo, both
  <2> QED BY <1>8, <1>10, <2>1, <2>3 DEF f
<1> QED BY <1>9, <1>10

(* What a linker leaves in a rebased slot: the target is an address the    *)
(* standard mask reaches, and the low bits of the chain entry are those of *)
(* its target.                                                             *)
TargetsFit ==
  \A k \in DOMAIN image.rebaseRows :
    LET row == image.rebaseRows[k]
    IN  /\ row.target < StdUnit
        /\ ReadU64(image, row.va) # None =>
             ReadU64(image, row.va) % WordSize = row.target % WordSize

(* Both ways from a class to its class_ro_t end at the same address. *)
LEMMA SameRo ==
  ASSUME TypeOK, MapsInv, phase \notin {"binds", "rebases"}, TargetsFit,
         NEW va \in Nat \ {0}, NEW meta \in BOOLEAN,
         NEW class \in DecodeClass(image, rebasesByVa, va, meta),
         ~FlaggedRebase(class)
  PROVE  LET slot == va + BitsAt
             ro   == IF slot \in DOMAIN rebasesByVa THEN rebasesByVa[slot]
                     ELSE MaskRo(image, ReadU64(image, slot))
             mask == MaskRo(image, class.ro + class.flags)
         IN  ReadU64(image, slot) # None /\ (mask # None => mask = ro)
<1> DEFINE slot == va + BitsAt
           raw  == ReadU64(image, slot)
<1>1. /\ slot \in Nat /\ image \in Images /\ raw # None /\ class.flags = raw % WordSize
      /\ class.address = va
      /\ class.ro = ClearFlags(IF slot \in DOMAIN rebasesByVa THEN rebasesByVa[slot]
                               ELSE OrZero(MaskRo(image, raw)))
  BY ImageAssumption DEF TypeOK, DecodeClass
<1>2. raw \in Nat
  BY <1>1, ReadU64Facts
<1> HIDE DEF raw
<1>3. CASE slot \in DOMAIN rebasesByVa
  <2>1. PICK k \in 1 .. Len(image.rebaseRows) :
          /\ image.rebaseRows[k].va = slot
          /\ rebasesByVa[slot] = image.rebaseRows[k].target
    <3>1. /\ DOMAIN image.rebaseRows = 1 .. Len(image.rebaseRows)
          /\ Indexed(rebasesByVa, 1 .. Len(image.rebaseRows),
                     RebaseVas(image), RebaseTargets(image))
      BY ImageRows DEF TypeOK, MapsInv, RebasesTaken
    <3>2. PICK k \in 1 .. Len(image.rebaseRows) :
            /\ RebaseVas(image)[k] = slot
            /\ rebasesByVa[slot] = RebaseTargets(image)[k]
      BY <1>1, <1>3, <3>1 DEF Indexed
    <3> QED BY <3>1, <3>2 DEF RebaseVas, RebaseTargets
  <2>2. PICK t \in Nat : t = rebasesByVa[slot]
    BY <1>3 DEF TypeOK
  <2>3. k \in DOMAIN image.rebaseRows
    BY ImageRows DEF TypeOK
  <2>4. class.flags = 0
    BY <1>1, <2>1, <2>3 DEF FlaggedRebase
  <2>5. t < StdUnit /\ t % WordSize = 0
    BY <1>1, <2>1, <2>2, <2>3, <2>4 DEF TargetsFit, raw
  <2>6. ClearFlags(t) = t
    BY <2>5, ClearFlagsFacts
  <2>7. t % (2 * PacUnit) = t /\ t % StdUnit = t
    BY <2>5, ImageAssumption
  <2>8. MaskRo(image, t) = IF t # 0 THEN t ELSE None
    BY <2>6, <2>7 DEF MaskRo
  <2>9. class.ro + class.flags = t
    BY <1>1, <1>3, <2>2, <2>4, <2>6
  <2> QED BY <1>1, <1>3, <2>2, <2>8, <2>9 DEF raw
<1>4. CASE slot \notin DOMAIN rebasesByVa
  <2>1. class.ro + class.flags = ClearFlags(OrZero(MaskRo(image, raw))) + (raw % WordSize)
    BY <1>1, <1>4
  <2>2. MaskRo(image, class.ro + class.flags) = MaskRo(image, raw)
    BY <1>1, <1>2, <2>1, MaskAgain
  <2> QED BY <1>1, <1>4, <2>2 DEF raw
<1> QED BY <1>3, <1>4

(* Then they say the same name. *)
LEMMA SameName ==
  ASSUME TypeOK, MapsInv, phase \notin {"binds", "rebases"}, TargetsFit,
         NEW va \in Nat \ {0}, NEW meta \in BOOLEAN,
         NEW class \in DecodeClass(image, rebasesByVa, va, meta),
         ~FlaggedRebase(class), NameOf(class) # None
  PROVE  DecodeClassName(image, rebasesByVa, va) = NameOf(class)
<1> DEFINE slot == va + BitsAt
           mask == MaskRo(image, class.ro + class.flags)
<1>1. /\ mask # None /\ ResolvePointer(image, rebasesByVa, mask + NameAt) # None
      /\ NameOf(class) = ReadCStr(image, ResolvePointer(image, rebasesByVa, mask + NameAt))
  BY DEF NameOf, RoName
<1>2. /\ ReadU64(image, slot) # None
      /\ mask = IF slot \in DOMAIN rebasesByVa THEN rebasesByVa[slot]
                ELSE MaskRo(image, ReadU64(image, slot))
  BY <1>1, SameRo
<1>3. ReadBytes(image, va, ClassSize)
  BY DEF DecodeClass
<1> QED BY <1>1, <1>2, <1>3 DEF DecodeClassName

(* On every image whose rebased slots are as a linker leaves them, the two *)
(* decoders of a class name agree, for superclasses and for references.    *)
THEOREM NamesAgreeOnLinked == Spec => [](TargetsFit => NamesAgree)
<1>1. ObjcInv => (TargetsFit => NamesAgree)
  <2> SUFFICES ASSUME ObjcInv, TargetsFit, NEW i \in DOMAIN classes,
                      NameOf(classes[i]) # None, ~FlaggedRebase(classes[i])
               PROVE  /\ \A j \in DOMAIN classes :
                           classes[j].superclass = classes[i].address
                             => SuperNameOf(classes[j]) = NameOf(classes[i])
                      /\ \A k \in DOMAIN refs :
                           Pointee(image, image.refSlots[k]) = classes[i].address =>
                             refs[k] = [kind |-> "Local", address |-> classes[i].address,
                                        name |-> NameOf(classes[i])]
    BY DEF NamesAgree
  <2> USE DEF ObjcInv
  <2>1. phase \notin {"binds", "rebases"}
    BY DEF PhaseInv
  <2>2. classes[i].address \in Nat \ {0} /\ classes[i].meta \in BOOLEAN
    <3>1. classes[i] \in ClassRow
      BY DEF TypeOK
    <3> QED BY <3>1 DEF ClassRow
  <2>3. DecodeClassName(image, rebasesByVa, classes[i].address) = NameOf(classes[i])
    BY <2>1, <2>2, SameName DEF DecodedInv
  <2>4. ASSUME NEW j \in DOMAIN classes, classes[j].superclass = classes[i].address
        PROVE  SuperNameOf(classes[j]) = NameOf(classes[i])
    BY <2>2, <2>3, <2>4 DEF SuperNameOf, SuperName
  <2>5. ASSUME NEW k \in DOMAIN refs,
               Pointee(image, image.refSlots[k]) = classes[i].address
        PROVE  refs[k] = [kind |-> "Local", address |-> classes[i].address,
                          name |-> NameOf(classes[i])]
    <3>1. PICK slot \in Nat : slot = image.refSlots[k]
      BY ImageRows DEF TypeOK, DecodedInv
    <3>2. OrZero(ResolvePointer(image, rebasesByVa, slot)) = classes[i].address
      BY <2>1, <2>2, <2>5, <3>1, ResolveIsPointee, NoneIsNone DEF OrZero
    <3>3. refs[k] = RefTarget(slot)
      BY <3>1 DEF DecodedInv
    <3> QED BY <2>2, <2>3, <3>2, <3>3 DEF RefTarget
  <2> QED BY <2>4, <2>5
<1> QED BY <1>1, ObjcCorrect, PTL
=============================================================================
