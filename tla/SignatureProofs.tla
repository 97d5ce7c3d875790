--------------------------- MODULE SignatureProofs ---------------------------
(***************************************************************************)
(* What CodeSignature guarantees on any file to any accessor: any index,   *)
(* any layout of the hashes, any bytes of entitlements; and that the texts *)
(* of requirements read as RequirementMeaning says their words mean.       *)
(***************************************************************************)
EXTENDS CodeSignature, RequirementMeaning, SequenceTheorems, TLAPS

FileBlobs(f) == {f.blobs[f.index[i].offset] : i \in DOMAIN f.index}

HashRow == [slot: Int, start: Nat]

IsUse(f, accessor) == \E use \in Uses : f = use.file /\ accessor = use.call

TypeOK ==
  /\ IsUse(file, call)
  /\ phase \in {"parse", "find", "special", "code", "decode", "done"}
  /\ looked \in 0 .. Len(file.index)
  /\ alternate \in 0 .. MaxAlternates
  /\ directory \in FileBlobs(file) \cup {NoBlob}
  /\ directory # NoBlob => IsDirectory(directory)
  /\ hashed \in Nat
  /\ hashes \in Seq(HashRow)
  /\ directories \in Seq([slot: Nat, blob: FileBlobs(file)])
  /\ content \in FileBlobs(file) \cup {NoBlob}
-----------------------------------------------------------------------------
(* The lookup *)

SearchInv ==
  /\ phase = "parse" => looked = 0
  /\ phase = "find" => \A h \in 1 .. looked : SlotOf(file.index[h].type) # Target

(* The first index entry of an alternate slot, if there is one. *)
First(f, i) ==
  {k \in 1 .. Len(f.index) :
     /\ f.index[k].type = FirstAlternate + i
     /\ \A h \in 1 .. (k - 1) : f.index[h].type # FirstAlternate + i}

DirectoryAt(f, offset) ==
  /\ f.base + offset + BlobHeader <= f.size
  /\ f.blobs[offset].len >= BlobHeader
  /\ f.base + offset + f.blobs[offset].len <= f.size
  /\ IsDirectory(f.blobs[offset])

Good(f, i) == \E k \in First(f, i) : DirectoryAt(f, f.index[k].offset)

(* The rows are the directories of the first n slots. *)
RowsOf(f, n, rows) ==
  /\ \A k \in 1 .. Len(rows) :
       /\ rows[k].slot \in 0 .. (n - 1) /\ Good(f, rows[k].slot)
       /\ \A h \in First(f, rows[k].slot) : rows[k].blob = f.blobs[f.index[h].offset]
  /\ \A i \in 0 .. (n - 1) : Good(f, i) => \E k \in 1 .. Len(rows) : rows[k].slot = i
  /\ \A j, k \in 1 .. Len(rows) : j < k => rows[j].slot < rows[k].slot

AlternatesInv ==
  call = "alternates" =>
    /\ phase \in {"parse", "find", "done"}
    /\ phase \in {"parse", "find"} => alternate < MaxAlternates
    /\ phase = "done" => ~Opens \/ alternate = MaxAlternates
    /\ RowsOf(file, alternate, directories)
-----------------------------------------------------------------------------
(* The hashes *)

Start(d, s) == d.hashOffset + s * d.hashSize

Fits(d, s) == Start(d, s) >= 0 /\ Start(d, s) + d.hashSize <= d.len

(* The rows are m special slots outward and then n pages. *)
Outward(d, rows, m, n) ==
  /\ Len(rows) = m + n
  /\ \A i \in 1 .. m : rows[i] = [slot |-> -i, start |-> Start(d, -i)] /\ Fits(d, -i)
  /\ \A i \in 1 .. n :
       rows[m + i] = [slot |-> i - 1, start |-> Start(d, i - 1)] /\ Fits(d, i - 1)

SpecialsOut(d, rows, m, n) ==
  /\ Outward(d, rows, m, n)
  /\ n <= d.nCode
  /\ m = d.nSpecial \/ ~Fits(d, -(m + 1))

HashesInv ==
  /\ phase \in {"parse", "find", "decode"} =>
       directory = NoBlob /\ hashed = 0 /\ hashes = <<>>
  /\ phase \in {"special", "code"} => directory # NoBlob
  /\ phase = "special" =>
       hashed <= directory.nSpecial /\ Outward(directory, hashes, hashed, 0)
  /\ directory # NoBlob /\ phase \in {"code", "done"} =>
       \E m \in 0 .. directory.nSpecial : SpecialsOut(directory, hashes, m, hashed)
  /\ directory # NoBlob /\ phase = "done" =>
       hashed = directory.nCode \/ ~Fits(directory, hashed)
-----------------------------------------------------------------------------
(* The two walks over the entitlements *)

EntryAt(buf, k) == Tag(buf, k) = Sequence /\ HasKey(Body(buf, k))

KeyAt(buf, k) == Body(Body(buf, k), 0)

(* The first n steps of a walk. *)
Path(buf, p, n) ==
  /\ p[0] = 0
  /\ \A i \in 0 .. (n - 1) : Whole(buf, p[i]) /\ p[i + 1] = End(buf, p[i])

KeysOn(buf, p, n) == {KeyAt(buf, p[i]) : i \in {j \in 0 .. (n - 1) : EntryAt(buf, p[j])}}

(* All the pairs there can be on the way. *)
PairsOn(buf, p, n) == {Pair(Body(buf, p[i])) : i \in 0 .. (n - 1)}

KeysOf(rows) == {rows[i].key : i \in DOMAIN rows}

FirstWalk(buf, k, found) ==
  \E n \in Nat : \E p : Path(buf, p, n) /\ k = p[n] /\ found = KeysOn(buf, p, n)

(* The second walk goes the way the first one has gone to its end. *)
SecondWalk(buf, k, found, rows) ==
  \E n, m \in Nat : \E p :
    /\ m <= n /\ Path(buf, p, n) /\ ~Whole(buf, p[n])
    /\ k = p[m] /\ found = KeysOn(buf, p, n)
    /\ rows \in Seq(PairsOn(buf, p, n)) /\ KeysOf(rows) = KeysOn(buf, p, m)

WalksInv ==
  /\ derPhase \in {"idle", "keys", "pairs", "done"}
  /\ derPhase = "idle" => at = 0 /\ keys = {}
  /\ derPhase \in {"idle", "keys"} => pairs = <<>>
  /\ derPhase = "keys" => FirstWalk(entries, at, keys)
  /\ derPhase \in {"pairs", "done"} => SecondWalk(entries, at, keys, pairs)
  /\ derPhase = "done" => ~Whole(entries, at)

SignatureInv == TypeOK /\ SearchInv /\ AlternatesInv /\ HashesInv /\ WalksInv
-----------------------------------------------------------------------------
(* Files *)

LEMMA SeqFacts ==
  ASSUME NEW S, NEW s \in Seq(S)
  PROVE  /\ Len(s) \in Nat /\ DOMAIN s = 1 .. Len(s)
         /\ \A k \in 1 .. Len(s) : s[k] \in S
OBVIOUS

LEMMA AppendFacts ==
  ASSUME NEW S, NEW s \in Seq(S), NEW e \in S
  PROVE  /\ Append(s, e) \in Seq(S)
         /\ Len(Append(s, e)) = Len(s) + 1
         /\ \A k \in 1 .. Len(s) : Append(s, e)[k] = s[k]
         /\ Append(s, e)[Len(s) + 1] = e
OBVIOUS

LEMMA FileFacts ==
  ASSUME NEW f, NEW accessor, IsUse(f, accessor)
  PROVE  /\ f.size \in Nat /\ f.base \in Nat /\ f.length \in Nat
         /\ Len(f.index) \in Nat /\ DOMAIN f.index = 1 .. Len(f.index)
         /\ \A i \in 1 .. Len(f.index) : f.index[i].type \in Nat /\ f.index[i].offset \in Nat
         /\ \A blob \in FileBlobs(f) : IsBlob(blob)
<1>1. /\ {f.size, f.base, f.length} \subseteq Nat
      /\ f.index \in Seq([type: Nat, offset: Nat])
      /\ \A i \in DOMAIN f.index : IsBlob(f.blobs[f.index[i].offset])
  BY UsesAssumption DEF IsUse
<1>2. /\ Len(f.index) \in Nat /\ DOMAIN f.index = 1 .. Len(f.index)
      /\ \A i \in 1 .. Len(f.index) : f.index[i] \in [type: Nat, offset: Nat]
  BY <1>1, SeqFacts
<1>3. \A blob \in FileBlobs(f) : IsBlob(blob)
  BY <1>1 DEF FileBlobs
<1> QED BY <1>1, <1>2, <1>3

(* What a code directory in the index says of itself. *)
LEMMA DirectoryFacts ==
  ASSUME NEW f, NEW accessor, IsUse(f, accessor), NEW d \in FileBlobs(f), IsDirectory(d)
  PROVE  /\ d # NoBlob
         /\ d.hashOffset \in Nat /\ d.hashSize \in Nat /\ d.len \in Nat
         /\ d.nSpecial \in Nat /\ d.nCode \in Nat
<1>1. IsBlob(d)
  BY FileFacts
<1>2. d # NoBlob
  BY DEF IsDirectory, NoBlob
<1> QED BY <1>1, <1>2 DEF IsBlob

LEMMA StartType ==
  ASSUME NEW d, d.hashOffset \in Nat, d.hashSize \in Nat, NEW s \in Int
  PROVE  Start(d, s) \in Int
BY DEF Start

LEMMA InitHolds == Init => SignatureInv
<1> SUFFICES ASSUME Init PROVE SignatureInv
  OBVIOUS
<1> USE DEF Init
<1>1. IsUse(file, call)
  BY DEF IsUse
<1>2. Len(file.index) \in Nat
  BY <1>1, FileFacts
<1>3. MaxAlternates \in Nat /\ 0 < MaxAlternates
  BY LayoutAssumption
<1>4. TypeOK
  BY <1>1, <1>2, <1>3 DEF TypeOK
<1>5. SearchInv /\ HashesInv
  BY DEF SearchInv, HashesInv
<1>6. AlternatesInv
  BY <1>3 DEF AlternatesInv, RowsOf
<1>7. WalksInv
  BY DEF WalksInv, DerInit
<1> QED BY <1>4, <1>5, <1>6, <1>7 DEF SignatureInv
-----------------------------------------------------------------------------
(* Looking a slot up *)

LEMMA WalksKept ==
  ASSUME WalksInv, UNCHANGED derVars
  PROVE  WalksInv'
BY DEF WalksInv, derVars

LEMMA FoundFacts ==
  ASSUME TypeOK, Hit
  PROVE  /\ looked + 1 \in 1 .. Len(file.index) /\ Slot = Target
         /\ Found \in FileBlobs(file)
         /\ call \in {"primary", "alternates"} =>
              DirectoryAt(file, file.index[looked + 1].offset) /\ IsDirectory(Found)
<1>1. /\ Len(file.index) \in Nat /\ DOMAIN file.index = 1 .. Len(file.index)
      /\ looked \in Nat /\ looked < Len(file.index)
  BY FileFacts DEF TypeOK, Hit, HasMore
<1>2. looked + 1 \in 1 .. Len(file.index)
  BY <1>1
<1>3. Found \in FileBlobs(file)
  BY <1>1, <1>2 DEF Found, BlobAt, FileBlobs
<1>4. HasBytes(file.index[looked + 1].offset) /\ Slot = Target
  BY DEF Hit, Decodes
<1>5. call \in {"primary", "alternates"} => IsDirectory(Found)
  BY DEF Hit, Decodes, Found
<1> QED BY <1>2, <1>3, <1>4, <1>5 DEF DirectoryAt, HasBytes, BlobAt, Found

(* Steps that only move on from one phase to another. *)
LEMMA PhaseStep ==
  ASSUME SignatureInv, UNCHANGED <<file, call, alternate, directory, hashed, hashes, directories>>,
         TypeOK', SearchInv', WalksInv',
         phase \in {"parse", "find", "decode"}, phase' \in {"find", "decode", "done"},
         call = "alternates" => \/ phase \in {"parse", "find"} /\ phase' = "find"
                                \/ phase' = "done" /\ ~Opens
  PROVE  SignatureInv'
<1>1. AlternatesInv /\ HashesInv
  BY DEF SignatureInv
<1>2. AlternatesInv'
  BY <1>1 DEF AlternatesInv, Opens
<1>3. HashesInv'
  BY <1>1 DEF HashesInv
<1> QED BY <1>2, <1>3 DEF SignatureInv

LEMMA ParseStep ==
  ASSUME SignatureInv, Parse
  PROVE  SignatureInv'
<1> USE DEF Parse
<1>1. TypeOK /\ SearchInv /\ WalksInv
  BY DEF SignatureInv
<1>2. TypeOK'
  BY <1>1 DEF TypeOK
<1>3. looked' = 0
  BY <1>1 DEF SearchInv
<1>4. SearchInv'
  BY <1>3 DEF SearchInv
<1>5. WalksInv'
  BY <1>1, WalksKept
<1>6. phase' = "find" \/ (phase' = "done" /\ ~Opens)
  OBVIOUS
<1> QED BY <1>2, <1>4, <1>5, <1>6, PhaseStep

LEMMA LookStep ==
  ASSUME SignatureInv, Look
  PROVE  SignatureInv'
<1> USE DEF Look, HasMore
<1>1. TypeOK /\ SearchInv /\ WalksInv
  BY DEF SignatureInv
<1>2. /\ Len(file.index) \in Nat /\ looked \in Nat /\ looked < Len(file.index)
      /\ looked' = looked + 1 /\ phase' = "find" /\ phase = "find"
  BY <1>1, FileFacts DEF TypeOK
<1>3. TypeOK'
  BY <1>1, <1>2 DEF TypeOK
<1>4. Target' = Target
  BY DEF Target
<1>5. ASSUME NEW h \in 1 .. looked' PROVE SlotOf(file.index[h].type) # Target
  <2>1. CASE h \in 1 .. looked
    BY <1>1, <1>2, <2>1 DEF SearchInv
  <2>2. CASE h = looked + 1
    BY <2>2 DEF Slot
  <2> QED BY <1>2, <2>1, <2>2
<1>6. SearchInv'
  BY <1>2, <1>4, <1>5 DEF SearchInv
<1>7. WalksInv'
  BY <1>1, WalksKept
<1> QED BY <1>2, <1>3, <1>6, <1>7, PhaseStep

LEMMA EndStep ==
  ASSUME SignatureInv, TakeRequirements \/ TakePayload \/ NotFound \/ Decoded
  PROVE  SignatureInv'
<1>1. TypeOK /\ SearchInv /\ AlternatesInv /\ WalksInv
  BY DEF SignatureInv
<1>2. /\ UNCHANGED <<file, call, looked, alternate, directory, hashed, hashes, directories,
                     derVars>>
      /\ phase \in {"find", "decode"} /\ phase' \in {"decode", "done"}
      /\ content' \in {content, Found} /\ (content' # content => Hit)
  BY DEF TakeRequirements, TakePayload, NotFound, Decoded, Hit, HasMore, Miss
<1>3. call # "alternates"
  BY <1>1 DEF TakeRequirements, TakePayload, NotFound, Decoded, AlternatesInv
<1>4. content' \in FileBlobs(file) \cup {NoBlob}
  <2>1. CASE content' = content
    BY <1>1, <2>1 DEF TypeOK
  <2>2. CASE content' # content
    BY <1>1, <1>2, <2>2, FoundFacts
  <2> QED BY <2>1, <2>2
<1>5. TypeOK'
  BY <1>1, <1>2, <1>4 DEF TypeOK
<1>6. SearchInv'
  BY <1>2 DEF SearchInv
<1>7. WalksInv'
  BY <1>1, <1>2, WalksKept
<1> QED BY <1>2, <1>3, <1>5, <1>6, <1>7, PhaseStep
-----------------------------------------------------------------------------
(* Alternates *)

(* Only the number of the slot makes it the i-th alternate. *)
LEMMA SlotIs ==
  ASSUME NEW raw \in Nat, NEW i \in 0 .. (MaxAlternates - 1)
  PROVE  SlotOf(raw) = <<"Alternate", i>> <=> raw = FirstAlternate + i
<1>1. MaxAlternates \in Nat /\ FirstAlternate \in Nat
  BY LayoutAssumption
<1>2. CASE raw \in FirstAlternate .. FirstAlternate + MaxAlternates - 1
  <2>1. SlotOf(raw) = <<"Alternate", raw - FirstAlternate>>
    BY <1>2 DEF SlotOf
  <2>2. raw - FirstAlternate = i <=> raw = FirstAlternate + i
    BY <1>1
  <2>3. <<"Alternate", raw - FirstAlternate>> = <<"Alternate", i>> <=> raw - FirstAlternate = i
    OBVIOUS
  <2> QED BY <2>1, <2>2, <2>3
<1>3. CASE raw \notin FirstAlternate .. FirstAlternate + MaxAlternates - 1
  <2>1. raw # FirstAlternate + i
    BY <1>1, <1>3
  <2>2. CASE \E n \in SlotNames : n[1] = raw
    <3> DEFINE name == CHOOSE n \in SlotNames : n[1] = raw
    <3>1. name \in SlotNames
      BY <2>2
    <3>2. name[2] # "Alternate"
      <4> HIDE DEF name
      <4> QED BY <3>1 DEF SlotNames
    <3>3. SlotOf(raw) = <<name[2], 0>>
      BY <1>3, <2>2 DEF SlotOf
    <3> HIDE DEF name
    <3>4. SlotOf(raw)[1] # "Alternate"
      BY <3>2, <3>3
    <3> QED BY <2>1, <3>4
  <2>3. CASE ~\E n \in SlotNames : n[1] = raw
    <3>1. SlotOf(raw) = <<"Other", raw>>
      BY <1>3, <2>3 DEF SlotOf
    <3> QED BY <2>1, <3>1
  <2> QED BY <2>2, <2>3
<1> QED BY <1>2, <1>3

(* The entry the lookup stops at is the first one of the slot. *)
LEMMA FirstFacts ==
  ASSUME SignatureInv, phase = "find", call = "alternates"
  PROVE  /\ alternate \in 0 .. (MaxAlternates - 1)
         /\ looked = Len(file.index) => First(file, alternate) = {}
         /\ looked < Len(file.index) /\ Slot = Target =>
              First(file, alternate) = {looked + 1}
<1>1. /\ IsUse(file, call) /\ looked \in 0 .. Len(file.index)
      /\ alternate \in Nat /\ alternate < MaxAlternates /\ MaxAlternates \in Nat
      /\ Target = <<"Alternate", alternate>>
      /\ \A h \in 1 .. looked : SlotOf(file.index[h].type) # Target
  BY LayoutAssumption DEF SignatureInv, TypeOK, SearchInv, AlternatesInv, Target
<1>2. Len(file.index) \in Nat /\ \A k \in 1 .. Len(file.index) : file.index[k].type \in Nat
  BY <1>1, FileFacts
<1>3. \A k \in 1 .. Len(file.index) :
        SlotOf(file.index[k].type) = Target <=> file.index[k].type = FirstAlternate + alternate
  BY <1>1, <1>2, SlotIs
<1>4. \A h \in 1 .. looked : file.index[h].type # FirstAlternate + alternate
  BY <1>1, <1>2, <1>3
<1>5. ASSUME looked = Len(file.index) PROVE First(file, alternate) = {}
  BY <1>4, <1>5 DEF First
<1>6. ASSUME looked < Len(file.index), Slot = Target
      PROVE  First(file, alternate) = {looked + 1}
  <2>1. /\ looked + 1 \in 1 .. Len(file.index)
        /\ file.index[looked + 1].type = FirstAlternate + alternate
    BY <1>1, <1>2, <1>3, <1>6 DEF Slot
  <2>2. looked + 1 \in First(file, alternate)
    BY <1>1, <1>4, <2>1 DEF First
  <2>3. ASSUME NEW k \in First(file, alternate) PROVE k = looked + 1
    <3>1. /\ k \in 1 .. Len(file.index) /\ file.index[k].type = FirstAlternate + alternate
          /\ \A h \in 1 .. (k - 1) : file.index[h].type # FirstAlternate + alternate
      BY DEF First
    <3>2. ~(k \in 1 .. looked) /\ ~(looked + 1 \in 1 .. (k - 1))
      BY <1>4, <2>1, <3>1
    <3> QED BY <1>1, <1>2, <3>1, <3>2
  <2> QED BY <2>2, <2>3
<1> QED BY <1>1, <1>5, <1>6

LEMMA NextSlot ==
  ASSUME SignatureInv, TakeAlternate \/ SkipAlternate,
         directories' \in Seq([slot: Nat, blob: FileBlobs(file)]),
         RowsOf(file, alternate + 1, directories')
  PROVE  SignatureInv'
<1>1. /\ TypeOK /\ SearchInv /\ HashesInv /\ WalksInv /\ AlternatesInv
  BY DEF SignatureInv
<1>2. /\ UNCHANGED <<file, call, directory, hashed, hashes, content, derVars>>
      /\ phase = "find" /\ call = "alternates"
      /\ alternate' = alternate + 1 /\ looked' = 0
      /\ phase' = IF alternate + 1 < MaxAlternates THEN "find" ELSE "done"
  BY DEF TakeAlternate, SkipAlternate, Hit, HasMore, Miss
<1>3. alternate \in Nat /\ alternate < MaxAlternates /\ MaxAlternates \in Nat
  BY <1>1, <1>2, LayoutAssumption DEF TypeOK, AlternatesInv
<1>4. Len(file.index) \in Nat
  BY <1>1, FileFacts DEF TypeOK
<1>5. TypeOK'
  BY <1>1, <1>2, <1>3, <1>4 DEF TypeOK
<1>6. SearchInv'
  BY <1>2 DEF SearchInv
<1>7. AlternatesInv'
  BY <1>2, <1>3 DEF AlternatesInv
<1>8. HashesInv'
  BY <1>1, <1>2 DEF HashesInv
<1>9. WalksInv'
  BY <1>1, <1>2, WalksKept
<1> QED BY <1>5, <1>6, <1>7, <1>8, <1>9 DEF SignatureInv

LEMMA SkipAlternateStep ==
  ASSUME SignatureInv, SkipAlternate
  PROVE  SignatureInv'
<1>1. phase = "find" /\ call = "alternates" /\ directories' = directories
  BY DEF SkipAlternate, Miss
<1>2. /\ looked \in 0 .. Len(file.index) /\ Len(file.index) \in Nat
      /\ alternate \in Nat
      /\ directories \in Seq([slot: Nat, blob: FileBlobs(file)])
      /\ RowsOf(file, alternate, directories)
  BY <1>1, FileFacts DEF SignatureInv, TypeOK, AlternatesInv
<1>3. ~Good(file, alternate)
  <2>1. CASE looked = Len(file.index)
    BY <1>1, <2>1, FirstFacts DEF Good
  <2>2. CASE looked < Len(file.index)
    <3>1. Slot = Target /\ ~Decodes(file.index[looked + 1].offset)
      BY <2>2 DEF SkipAlternate, Miss
    <3>2. ~DirectoryAt(file, file.index[looked + 1].offset)
      BY <1>1, <3>1 DEF Decodes, HasBytes, BlobAt, DirectoryAt
    <3> QED BY <1>1, <2>2, <3>1, <3>2, FirstFacts DEF Good
  <2> QED BY <1>2, <2>1, <2>2
<1>4. RowsOf(file, alternate + 1, directories)
  <2>1. \A i \in 0 .. ((alternate + 1) - 1) : i \in 0 .. (alternate - 1) \/ i = alternate
    BY <1>2
  <2>2. \A i \in 0 .. (alternate - 1) : i \in 0 .. ((alternate + 1) - 1)
    BY <1>2
  <2> QED BY <1>2, <1>3, <2>1, <2>2 DEF RowsOf
<1> QED BY <1>1, <1>2, <1>4, NextSlot

LEMMA TakeAlternateStep ==
  ASSUME SignatureInv, TakeAlternate
  PROVE  SignatureInv'
<1> DEFINE row == [slot |-> alternate, blob |-> Found]
<1>1. /\ phase = "find" /\ call = "alternates" /\ Hit
      /\ directories' = Append(directories, row)
  BY DEF TakeAlternate, Hit, HasMore
<1>2. /\ looked \in 0 .. Len(file.index) /\ Len(file.index) \in Nat
      /\ looked < Len(file.index) /\ alternate \in Nat
      /\ directories \in Seq([slot: Nat, blob: FileBlobs(file)])
      /\ RowsOf(file, alternate, directories)
  BY <1>1, FileFacts DEF SignatureInv, TypeOK, AlternatesInv, Hit, HasMore
<1>3. /\ Slot = Target /\ Found \in FileBlobs(file)
      /\ DirectoryAt(file, file.index[looked + 1].offset)
  BY <1>1, FoundFacts DEF SignatureInv
<1>4. First(file, alternate) = {looked + 1}
  BY <1>1, <1>2, <1>3, FirstFacts
<1>5. Good(file, alternate) /\ Found = file.blobs[file.index[looked + 1].offset]
  BY <1>3, <1>4 DEF Good, Found, BlobAt
<1>6. row \in [slot: Nat, blob: FileBlobs(file)]
  BY <1>2, <1>3
<1>7. /\ directories' \in Seq([slot: Nat, blob: FileBlobs(file)])
      /\ Len(directories') = Len(directories) + 1 /\ Len(directories) \in Nat
      /\ \A k \in 1 .. Len(directories) : directories'[k] = directories[k]
      /\ directories'[Len(directories) + 1] = row
  BY <1>1, <1>2, <1>6, AppendFacts, SeqFacts
<1> DEFINE rows == directories'
<1>8. RowsOf(file, alternate + 1, rows)
  <2>1. \A k \in 1 .. Len(rows) : k \in 1 .. Len(directories) \/ k = Len(directories) + 1
    BY <1>7
  <2>2. ASSUME NEW k \in 1 .. Len(rows)
        PROVE  /\ rows[k].slot \in 0 .. ((alternate + 1) - 1) /\ Good(file, rows[k].slot)
               /\ \A h \in First(file, rows[k].slot) :
                    rows[k].blob = file.blobs[file.index[h].offset]
               /\ k \in 1 .. Len(directories) => rows[k].slot < alternate
    <3>1. CASE k \in 1 .. Len(directories)
      <4>1. /\ directories[k].slot \in 0 .. (alternate - 1) /\ Good(file, directories[k].slot)
            /\ \A h \in First(file, directories[k].slot) :
                    directories[k].blob = file.blobs[file.index[h].offset]
        BY <1>2, <3>1 DEF RowsOf
      <4>2. rows[k] = directories[k]
        BY <1>7, <3>1
      <4> QED BY <1>2, <4>1, <4>2
    <3>2. CASE k = Len(directories) + 1
      <4>1. rows[k].slot = alternate /\ rows[k].blob = Found
        BY <1>7, <3>2
      <4> QED BY <1>2, <1>4, <1>5, <1>7, <3>2, <4>1
    <3> QED BY <2>1, <3>1, <3>2
  <2>3. ASSUME NEW i \in 0 .. ((alternate + 1) - 1), Good(file, i)
        PROVE  \E k \in 1 .. Len(rows) : rows[k].slot = i
    <3>1. CASE i \in 0 .. (alternate - 1)
      <4>1. PICK k \in 1 .. Len(directories) : directories[k].slot = i
        BY <1>2, <2>3, <3>1 DEF RowsOf
      <4> QED BY <1>7, <4>1
    <3>2. CASE i = alternate
      BY <1>7, <3>2
    <3> QED BY <1>2, <3>1, <3>2
  <2>4. ASSUME NEW j \in 1 .. Len(rows), NEW k \in 1 .. Len(rows), j < k
        PROVE  rows[j].slot < rows[k].slot
    <3>1. j \in 1 .. Len(directories)
      BY <1>7, <2>4
    <3>2. CASE k \in 1 .. Len(directories)
      BY <1>2, <1>7, <2>4, <3>1, <3>2 DEF RowsOf
    <3>3. CASE k = Len(directories) + 1
      BY <1>7, <2>2, <3>1, <3>3
    <3> QED BY <2>1, <3>2, <3>3
  <2> HIDE DEF rows, row
  <2> QED BY <2>2, <2>3, <2>4 DEF RowsOf
<1> QED BY <1>7, <1>8, NextSlot
-----------------------------------------------------------------------------
(* Hashes *)

LEMMA TakePrimaryStep ==
  ASSUME SignatureInv, TakePrimary
  PROVE  SignatureInv'
<1>1. TypeOK /\ SearchInv /\ HashesInv /\ WalksInv
  BY DEF SignatureInv
<1>2. /\ UNCHANGED <<file, call, looked, alternate, hashed, hashes, directories, content, derVars>>
      /\ phase = "find" /\ phase' = "special" /\ directory' = Found
      /\ call = "primary" /\ Hit
  BY DEF TakePrimary, Hit, HasMore
<1>3. Found \in FileBlobs(file) /\ IsDirectory(Found) /\ IsUse(file, call)
  BY <1>1, <1>2, FoundFacts DEF TypeOK
<1>4. Found # NoBlob /\ Found.nSpecial \in Nat
  BY <1>3, DirectoryFacts
<1>5. TypeOK'
  BY <1>1, <1>2, <1>3 DEF TypeOK
<1>6. SearchInv' /\ AlternatesInv'
  BY <1>2 DEF SearchInv, AlternatesInv
<1>7. hashed = 0 /\ hashes = <<>>
  BY <1>1, <1>2 DEF HashesInv
<1>8. Outward(Found, hashes, 0, 0)
  BY <1>7 DEF Outward
<1>9. HashesInv'
  BY <1>2, <1>4, <1>7, <1>8 DEF HashesInv
<1>10. WalksInv'
  BY <1>1, <1>2, WalksKept
<1> QED BY <1>5, <1>6, <1>9, <1>10 DEF SignatureInv

(* The state while hashes are listed. *)
LEMMA ListingFacts ==
  ASSUME SignatureInv, phase \in {"special", "code"}
  PROVE  /\ call # "alternates" /\ directory # NoBlob
         /\ directory.hashOffset \in Nat /\ directory.hashSize \in Nat
         /\ directory.len \in Nat /\ directory.nSpecial \in Nat /\ directory.nCode \in Nat
         /\ hashed \in Nat /\ hashes \in Seq(HashRow) /\ Len(hashes) \in Nat
<1>1. /\ IsUse(file, call) /\ directory # NoBlob /\ directory \in FileBlobs(file)
      /\ IsDirectory(directory) /\ call # "alternates"
  BY DEF SignatureInv, TypeOK, HashesInv, AlternatesInv
<1>2. hashed \in Nat /\ hashes \in Seq(HashRow)
  BY DEF SignatureInv, TypeOK
<1> QED BY <1>1, <1>2, DirectoryFacts, SeqFacts

(* One more row, and everything but rows and cursor as before. *)
LEMMA TakeFacts ==
  ASSUME SignatureInv, phase \in {"special", "code"}, NEW s \in Int, HashFits(s),
         hashes' = Append(hashes, [slot |-> s, start |-> HashAt(s)]),
         UNCHANGED <<file, call, phase, looked, alternate, directory, directories, content,
                     derVars>>,
         hashed' = hashed + 1
  PROVE  /\ TypeOK' /\ SearchInv' /\ AlternatesInv' /\ WalksInv'
         /\ Fits(directory, s) /\ Len(hashes') = Len(hashes) + 1
         /\ \A k \in 1 .. Len(hashes) : hashes'[k] = hashes[k]
         /\ hashes'[Len(hashes) + 1] = [slot |-> s, start |-> Start(directory, s)]
<1> DEFINE row == [slot |-> s, start |-> HashAt(s)]
<1>1. /\ call # "alternates" /\ hashed \in Nat /\ hashes \in Seq(HashRow)
      /\ directory.hashOffset \in Nat /\ directory.hashSize \in Nat
  BY ListingFacts
<1>2. HashAt(s) = Start(directory, s) /\ Fits(directory, s)
  BY DEF HashAt, Start, HashFits, Fits
<1>3. HashAt(s) \in Nat
  <2>1. Start(directory, s) \in Int
    BY <1>1, StartType
  <2> QED BY <1>2, <2>1 DEF Fits
<1>4. row \in HashRow
  BY <1>3 DEF HashRow
<1> HIDE DEF row
<1>5. /\ hashes' \in Seq(HashRow) /\ Len(hashes') = Len(hashes) + 1
      /\ \A k \in 1 .. Len(hashes) : hashes'[k] = hashes[k]
      /\ hashes'[Len(hashes) + 1] = row
  BY <1>1, <1>4, AppendFacts DEF row
<1>6. TypeOK'
  BY <1>1, <1>5 DEF SignatureInv, TypeOK
<1>7. SearchInv' /\ AlternatesInv'
  BY <1>1 DEF SearchInv, AlternatesInv
<1>8. WalksInv'
  BY WalksKept DEF SignatureInv
<1> QED BY <1>2, <1>5, <1>6, <1>7, <1>8 DEF row

LEMMA TakeSpecialStep ==
  ASSUME SignatureInv, TakeSpecial
  PROVE  SignatureInv'
<1>1. /\ phase = "special" /\ phase' = "special" /\ hashed' = hashed + 1
      /\ hashed < directory.nSpecial /\ directory' = directory
      /\ HashFits(Special)
      /\ hashes' = Append(hashes, [slot |-> Special, start |-> HashAt(Special)])
      /\ UNCHANGED <<file, call, phase, looked, alternate, directory, directories, content,
                     derVars>>
  BY DEF TakeSpecial, TakeHash
<1>2. /\ hashed \in Nat /\ directory # NoBlob /\ Len(hashes) \in Nat
      /\ directory.nSpecial \in Nat
  BY <1>1, ListingFacts
<1>3. Special = -(hashed + 1) /\ Special \in Int
  BY <1>2 DEF Special
<1>4. /\ TypeOK' /\ SearchInv' /\ AlternatesInv' /\ WalksInv'
      /\ Fits(directory, Special) /\ Len(hashes') = Len(hashes) + 1
      /\ \A k \in 1 .. Len(hashes) : hashes'[k] = hashes[k]
      /\ hashes'[Len(hashes) + 1] = [slot |-> Special, start |-> Start(directory, Special)]
  BY <1>1, <1>3, TakeFacts
<1>5. Outward(directory, hashes, hashed, 0)
  BY <1>1 DEF SignatureInv, HashesInv
<1>6. Len(hashes) = hashed
  BY <1>2, <1>5 DEF Outward
<1>7. Outward(directory, hashes', hashed + 1, 0)
  <2>1. Len(hashes') = (hashed + 1) + 0
    BY <1>2, <1>4, <1>6
  <2>2. ASSUME NEW i \in 1 .. (hashed + 1)
        PROVE  hashes'[i] = [slot |-> -i, start |-> Start(directory, -i)] /\ Fits(directory, -i)
    <3>1. CASE i \in 1 .. hashed
      BY <1>4, <1>5, <1>6, <3>1 DEF Outward
    <3>2. CASE i = hashed + 1
      BY <1>3, <1>4, <1>6, <3>2
    <3> QED BY <1>2, <3>1, <3>2
  <2> QED BY <2>1, <2>2 DEF Outward
<1>8. HashesInv'
  BY <1>1, <1>2, <1>7 DEF HashesInv
<1> QED BY <1>4, <1>8 DEF SignatureInv

LEMMA TakeCodeStep ==
  ASSUME SignatureInv, TakeCode
  PROVE  SignatureInv'
<1>1. /\ phase = "code" /\ phase' = "code" /\ hashed' = hashed + 1
      /\ hashed < directory.nCode /\ directory' = directory
      /\ HashFits(hashed)
      /\ hashes' = Append(hashes, [slot |-> hashed, start |-> HashAt(hashed)])
      /\ UNCHANGED <<file, call, phase, looked, alternate, directory, directories, content,
                     derVars>>
  BY DEF TakeCode, TakeHash
<1>2. /\ hashed \in Nat /\ directory # NoBlob /\ Len(hashes) \in Nat
      /\ directory.nSpecial \in Nat /\ directory.nCode \in Nat
  BY <1>1, ListingFacts
<1>3. /\ TypeOK' /\ SearchInv' /\ AlternatesInv' /\ WalksInv'
      /\ Fits(directory, hashed) /\ Len(hashes') = Len(hashes) + 1
      /\ \A k \in 1 .. Len(hashes) : hashes'[k] = hashes[k]
      /\ hashes'[Len(hashes) + 1] = [slot |-> hashed, start |-> Start(directory, hashed)]
  <2>1. hashed \in Int
    BY <1>2
  <2> QED BY <1>1, <2>1, TakeFacts
<1>4. PICK m \in 0 .. directory.nSpecial : SpecialsOut(directory, hashes, m, hashed)
  BY <1>1, <1>2 DEF SignatureInv, HashesInv
<1>5. m \in Nat /\ Len(hashes) = m + hashed /\ Outward(directory, hashes, m, hashed)
  BY <1>2, <1>4 DEF SpecialsOut, Outward
<1>6. Outward(directory, hashes', m, hashed + 1)
  <2>1. Len(hashes') = m + (hashed + 1)
    BY <1>2, <1>3, <1>5
  <2>2. ASSUME NEW i \in 1 .. m
        PROVE  hashes'[i] = [slot |-> -i, start |-> Start(directory, -i)] /\ Fits(directory, -i)
    <3>1. i \in 1 .. Len(hashes)
      BY <1>2, <1>5
    <3> QED BY <1>3, <1>5, <3>1 DEF Outward
  <2>3. ASSUME NEW i \in 1 .. (hashed + 1)
        PROVE  /\ hashes'[m + i] = [slot |-> i - 1, start |-> Start(directory, i - 1)]
               /\ Fits(directory, i - 1)
    <3>1. CASE i \in 1 .. hashed
      <4>1. m + i \in 1 .. Len(hashes)
        BY <1>2, <1>5, <3>1
      <4> QED BY <1>3, <1>5, <3>1, <4>1 DEF Outward
    <3>2. CASE i = hashed + 1
      <4>1. m + i = Len(hashes) + 1 /\ i - 1 = hashed
        BY <1>2, <1>5, <3>2
      <4> QED BY <1>3, <4>1
    <3> QED BY <1>2, <3>1, <3>2
  <2> QED BY <2>1, <2>2, <2>3 DEF Outward
<1>7. SpecialsOut(directory, hashes', m, hashed + 1)
  BY <1>1, <1>2, <1>4, <1>6 DEF SpecialsOut
<1>8. HashesInv'
  BY <1>1, <1>2, <1>7 DEF HashesInv
<1> QED BY <1>3, <1>8 DEF SignatureInv

LEMMA EndHashesStep ==
  ASSUME SignatureInv, EndSpecial \/ EndCode
  PROVE  SignatureInv'
<1>1. /\ TypeOK /\ SearchInv /\ HashesInv /\ WalksInv
  BY DEF SignatureInv
<1>2. /\ UNCHANGED <<file, call, looked, alternate, directory, hashes, directories, content,
                     derVars>>
      /\ phase \in {"special", "code"} /\ phase' \in {"code", "done"}
      /\ hashed' \in {0, hashed}
  BY DEF EndSpecial, EndCode
<1>3. /\ call # "alternates" /\ directory # NoBlob /\ hashed \in Nat
      /\ directory.nSpecial \in Nat /\ directory.nCode \in Nat
  BY <1>2, ListingFacts
<1>4. TypeOK'
  BY <1>1, <1>2, <1>3 DEF TypeOK
<1>5. SearchInv' /\ AlternatesInv'
  BY <1>2, <1>3 DEF SearchInv, AlternatesInv
<1>6. WalksInv'
  BY <1>1, <1>2, WalksKept
<1>7. \A s : HashFits(s) <=> Fits(directory, s)
  BY DEF HashFits, HashAt, Fits, Start
<1>8. CASE EndSpecial
  <2>1. /\ phase = "special" /\ phase' = "code" /\ hashed' = 0
        /\ hashed < directory.nSpecial => ~Fits(directory, -(hashed + 1))
    BY <1>7, <1>8 DEF EndSpecial, Special
  <2>2. hashed <= directory.nSpecial /\ Outward(directory, hashes, hashed, 0)
    BY <1>1, <2>1 DEF HashesInv
  <2>3. SpecialsOut(directory, hashes, hashed, 0) /\ hashed \in 0 .. directory.nSpecial
    BY <1>3, <2>1, <2>2 DEF SpecialsOut
  <2>4. HashesInv'
    BY <1>2, <1>3, <2>1, <2>3 DEF HashesInv
  <2> QED BY <1>4, <1>5, <1>6, <2>4 DEF SignatureInv
<1>9. CASE EndCode
  <2>1. /\ phase = "code" /\ phase' = "done" /\ hashed' = hashed
        /\ hashed < directory.nCode => ~Fits(directory, hashed)
    BY <1>7, <1>9 DEF EndCode
  <2>2. PICK m \in 0 .. directory.nSpecial : SpecialsOut(directory, hashes, m, hashed)
    BY <1>1, <1>3, <2>1 DEF HashesInv
  <2>3. hashed = directory.nCode \/ ~Fits(directory, hashed)
    BY <1>3, <2>1, <2>2 DEF SpecialsOut
  <2>4. HashesInv'
    BY <1>2, <1>3, <2>1, <2>2, <2>3 DEF HashesInv
  <2> QED BY <1>4, <1>5, <1>6, <2>4 DEF SignatureInv
<1> QED BY <1>8, <1>9
-----------------------------------------------------------------------------
(* Entitlements *)

(* Only the walks move. *)
LEMMA WalksOnly ==
  ASSUME SignatureInv, UNCHANGED sigVars, WalksInv'
  PROVE  SignatureInv'
<1>1. TypeOK /\ SearchInv /\ AlternatesInv /\ HashesInv
  BY DEF SignatureInv
<1> USE DEF sigVars
<1>2. TypeOK'
  BY <1>1 DEF TypeOK
<1>3. SearchInv'
  <2>1. Target' = Target
    BY DEF Target
  <2> QED BY <1>1, <2>1 DEF SearchInv
<1>4. AlternatesInv'
  BY <1>1 DEF AlternatesInv, Opens
<1>5. HashesInv'
  BY <1>1 DEF HashesInv
<1> QED BY <1>2, <1>3, <1>4, <1>5 DEF SignatureInv

LEMMA TakeDerStep ==
  ASSUME SignatureInv, TakeDer
  PROVE  SignatureInv'
<1>1. TypeOK /\ SearchInv /\ HashesInv /\ WalksInv
  BY DEF SignatureInv
<1>2. /\ UNCHANGED <<file, call, looked, alternate, directory, hashed, hashes, directories,
                     content>>
      /\ phase = "find" /\ phase' = "decode" /\ call = "der"
      /\ derPhase = "idle" /\ derPhase' = "keys" /\ UNCHANGED <<at, keys, pairs>>
  BY DEF TakeDer, BeginEntitlements, Hit, HasMore
<1>3. TypeOK'
  BY <1>1, <1>2 DEF TypeOK
<1>4. SearchInv'
  BY <1>2 DEF SearchInv
<1>5. at = 0 /\ keys = {} /\ pairs = <<>>
  BY <1>1, <1>2 DEF WalksInv
<1>6. FirstWalk(entries', 0, {})
  <2> DEFINE p == [i \in {0} |-> 0]
  <2>1. p[0] = 0
    OBVIOUS
  <2> HIDE DEF p
  <2>2. Path(entries', p, 0) /\ KeysOn(entries', p, 0) = {}
    BY <2>1 DEF Path, KeysOn
  <2> QED BY <2>1, <2>2 DEF FirstWalk
<1>7. WalksInv'
  BY <1>2, <1>5, <1>6 DEF WalksInv
<1> QED BY <1>2, <1>3, <1>4, <1>7, PhaseStep

(* The way so far, and one entry more. *)
LEMMA PathMore ==
  ASSUME NEW buf, NEW p, NEW n \in Nat, Path(buf, p, n), Whole(buf, p[n])
  PROVE  \E q : /\ Path(buf, q, n + 1) /\ q[n + 1] = End(buf, p[n])
                /\ KeysOn(buf, q, n + 1)
                     = KeysOn(buf, p, n) \cup (IF EntryAt(buf, p[n]) THEN {KeyAt(buf, p[n])} ELSE {})
<1> DEFINE q == [i \in 0 .. (n + 1) |-> IF i <= n THEN p[i] ELSE End(buf, p[n])]
<1>1. /\ \A i \in 0 .. n : q[i] = p[i]
      /\ q[n + 1] = End(buf, p[n])
  OBVIOUS
<1> HIDE DEF q
<1>2. \A i \in 0 .. ((n + 1) - 1) : i \in 0 .. (n - 1) \/ i = n
  OBVIOUS
<1>3. \A i \in 0 .. (n - 1) : i \in 0 .. n /\ i + 1 \in 0 .. n
  OBVIOUS
<1>4. 0 \in 0 .. n /\ n \in 0 .. n
  OBVIOUS
<1>5. Path(buf, q, n + 1)
  <2>1. q[0] = 0
    BY <1>1, <1>4 DEF Path
  <2>2. ASSUME NEW i \in 0 .. ((n + 1) - 1)
        PROVE  Whole(buf, q[i]) /\ q[i + 1] = End(buf, q[i])
    <3>1. CASE i \in 0 .. (n - 1)
      BY <1>1, <1>3, <3>1 DEF Path
    <3>2. CASE i = n
      BY <1>1, <1>4, <3>2
    <3> QED BY <1>2, <3>1, <3>2
  <2> QED BY <2>1, <2>2 DEF Path
<1>6. KeysOn(buf, q, n + 1)
        = KeysOn(buf, p, n) \cup (IF EntryAt(buf, p[n]) THEN {KeyAt(buf, p[n])} ELSE {})
  <2>1. 0 .. ((n + 1) - 1) = (0 .. (n - 1)) \cup {n}
    OBVIOUS
  <2>2. \A i \in (0 .. (n - 1)) \cup {n} : q[i] = p[i]
    BY <1>1
  <2>3. KeysOn(buf, q, n + 1)
          = {KeyAt(buf, p[i]) : i \in {j \in (0 .. (n - 1)) \cup {n} : EntryAt(buf, p[j])}}
    BY <2>1, <2>2 DEF KeysOn
  <2> QED BY <2>3 DEF KeysOn
<1> QED BY <1>1, <1>5, <1>6

LEMMA KeysStep ==
  ASSUME WalksInv, derPhase = "keys", PushKey \/ SkipDerEntry \/ EndKeys
  PROVE  WalksInv'
<1>1. /\ entries' = entries /\ pairs' = pairs /\ pairs = <<>>
      /\ FirstWalk(entries, at, keys)
  BY DEF PushKey, SkipDerEntry, EndKeys, WalksInv
<1>2. PICK n \in Nat : \E p : Path(entries, p, n) /\ at = p[n] /\ keys = KeysOn(entries, p, n)
  BY <1>1 DEF FirstWalk
<1>3. PICK p : Path(entries, p, n) /\ at = p[n] /\ keys = KeysOn(entries, p, n)
  BY <1>2
<1>4. CASE PushKey \/ SkipDerEntry
  <2>1. /\ Whole(entries, at) /\ at' = End(entries, at) /\ derPhase' = "keys"
        /\ keys' = keys \cup (IF EntryAt(entries, at) THEN {KeyAt(entries, at)} ELSE {})
    BY <1>4 DEF PushKey, SkipDerEntry, HasEntryAt, IsEntry, Here, EntryAt, KeyAt
  <2>2. PICK q : /\ Path(entries, q, n + 1) /\ q[n + 1] = End(entries, p[n])
                 /\ KeysOn(entries, q, n + 1)
                      = KeysOn(entries, p, n)
                          \cup (IF EntryAt(entries, p[n]) THEN {KeyAt(entries, p[n])} ELSE {})
    BY <1>3, <2>1, PathMore
  <2>3. at' = q[n + 1] /\ keys' = KeysOn(entries, q, n + 1) /\ n + 1 \in Nat
    BY <1>3, <2>1, <2>2
  <2>4. FirstWalk(entries, at', keys')
    BY <2>2, <2>3 DEF FirstWalk
  <2> QED BY <1>1, <2>1, <2>4 DEF WalksInv
<1>5. CASE EndKeys
  <2>1. /\ ~Whole(entries, at) /\ derPhase' = "pairs" /\ at' = 0 /\ keys' = keys
    BY <1>5 DEF EndKeys, HasEntryAt
  <2>2. 0 = p[0] /\ KeysOn(entries, p, 0) = {}
    BY <1>3 DEF Path, KeysOn
  <2>3. <<>> \in Seq(PairsOn(entries, p, n)) /\ KeysOf(<<>>) = {}
    BY DEF KeysOf
  <2>4. SecondWalk(entries, 0, keys, <<>>)
    <3>1. 0 \in Nat /\ 0 <= n
      OBVIOUS
    <3> QED BY <1>3, <2>1, <2>2, <2>3, <3>1 DEF SecondWalk
  <2> QED BY <1>1, <2>1, <2>4 DEF WalksInv
<1> QED BY <1>4, <1>5

LEMMA PairsStep ==
  ASSUME WalksInv, derPhase = "pairs", PushPair \/ SkipDerEntry \/ EndPairs
  PROVE  WalksInv'
<1>1. entries' = entries /\ keys' = keys /\ SecondWalk(entries, at, keys, pairs)
  BY DEF PushPair, SkipDerEntry, EndPairs, WalksInv
<1>2. PICK n \in Nat, m \in Nat : \E p :
        /\ m <= n /\ Path(entries, p, n) /\ ~Whole(entries, p[n])
        /\ at = p[m] /\ keys = KeysOn(entries, p, n)
        /\ pairs \in Seq(PairsOn(entries, p, n)) /\ KeysOf(pairs) = KeysOn(entries, p, m)
  BY <1>1 DEF SecondWalk
<1>3. PICK p :
        /\ m <= n /\ Path(entries, p, n) /\ ~Whole(entries, p[n])
        /\ at = p[m] /\ keys = KeysOn(entries, p, n)
        /\ pairs \in Seq(PairsOn(entries, p, n)) /\ KeysOf(pairs) = KeysOn(entries, p, m)
  BY <1>2
<1>4. CASE PushPair \/ SkipDerEntry
  <2>1. Whole(entries, at) /\ at' = End(entries, at) /\ derPhase' = "pairs"
    BY <1>4 DEF PushPair, SkipDerEntry, HasEntryAt
  <2>2. m + 1 \in Nat /\ m + 1 <= n /\ m \in 0 .. (n - 1)
    <3>1. m # n
      BY <1>3, <2>1
    <3> QED BY <1>3, <3>1
  <2>3. at' = p[m + 1]
    BY <1>3, <2>1, <2>2 DEF Path
  <2>4. KeysOn(entries, p, m + 1)
          = KeysOn(entries, p, m)
              \cup (IF EntryAt(entries, p[m]) THEN {KeyAt(entries, p[m])} ELSE {})
    <3>1. 0 .. ((m + 1) - 1) = (0 .. (m - 1)) \cup {m}
      OBVIOUS
    <3> QED BY <3>1 DEF KeysOn
  <2>5. pairs' \in Seq(PairsOn(entries, p, n)) /\ KeysOf(pairs') = KeysOn(entries, p, m + 1)
    <3>1. CASE EntryAt(entries, at)
      <4> DEFINE new == Pair(Body(entries, at))
                 S == PairsOn(entries, p, n)
      <4>1. pairs' = Append(pairs, new)
        BY <1>4, <3>1 DEF PushPair, SkipDerEntry, IsEntry, Here, EntryAt
      <4>2. new \in S
        BY <1>3, <2>2 DEF PairsOn
      <4>3. new.key = KeyAt(entries, at)
        BY DEF Pair, KeyAt
      <4>4. pairs \in Seq(S)
        BY <1>3
      <4> HIDE DEF new, S
      <4>5. /\ pairs' \in Seq(S) /\ Len(pairs) \in Nat /\ Len(pairs') = Len(pairs) + 1
            /\ \A k \in 1 .. Len(pairs) : pairs'[k] = pairs[k]
            /\ pairs'[Len(pairs) + 1] = new
        BY <4>1, <4>2, <4>4, AppendFacts, SeqFacts
      <4>6. DOMAIN pairs = 1 .. Len(pairs) /\ DOMAIN pairs' = (1 .. Len(pairs)) \cup {Len(pairs) + 1}
        BY <4>4, <4>5, SeqFacts
      <4>7. KeysOf(pairs') = KeysOf(pairs) \cup {new.key}
        BY <4>5, <4>6 DEF KeysOf
      <4> QED BY <1>3, <2>4, <3>1, <4>3, <4>5, <4>7 DEF S
    <3>2. CASE ~EntryAt(entries, at)
      <4>1. pairs' = pairs
        BY <1>4, <3>2 DEF PushPair, SkipDerEntry, IsEntry, Here, EntryAt
      <4> QED BY <1>3, <2>4, <3>2, <4>1
    <3> QED BY <3>1, <3>2
  <2>6. SecondWalk(entries, at', keys, pairs')
    BY <1>3, <2>2, <2>3, <2>5 DEF SecondWalk
  <2> QED BY <1>1, <2>1, <2>6 DEF WalksInv
<1>5. CASE EndPairs
  <2>1. ~Whole(entries, at) /\ derPhase' = "done" /\ at' = at /\ pairs' = pairs
    BY <1>5 DEF EndPairs, HasEntryAt
  <2> QED BY <1>1, <2>1 DEF WalksInv
<1> QED BY <1>4, <1>5

LEMMA DecodeEntitlementsStep ==
  ASSUME SignatureInv, DecodeEntitlements
  PROVE  SignatureInv'
<1>1. WalksInv /\ WalkEntitlements /\ UNCHANGED sigVars
  BY DEF SignatureInv, DecodeEntitlements
<1>2. CASE derPhase = "keys"
  <2>1. PushKey \/ SkipDerEntry \/ EndKeys
    BY <1>1, <1>2 DEF WalkEntitlements, PushPair, EndPairs
  <2> QED BY <1>1, <1>2, <2>1, KeysStep, WalksOnly
<1>3. CASE derPhase # "keys"
  <2>1. /\ derPhase = "pairs"
        /\ PushPair \/ SkipDerEntry \/ EndPairs
    BY <1>1, <1>3 DEF WalkEntitlements, PushKey, PushPair, SkipDerEntry, EndKeys, EndPairs,
                      HasEntryAt
  <2> QED BY <1>1, <2>1, PairsStep, WalksOnly
<1> QED BY <1>2, <1>3
-----------------------------------------------------------------------------
(* All steps *)

LEMMA NextHolds == SignatureInv /\ [Next]_vars => SignatureInv'
<1> SUFFICES ASSUME SignatureInv, [Next]_vars PROVE SignatureInv'
  OBVIOUS
<1>1. CASE Parse
  BY <1>1, ParseStep
<1>2. CASE Look
  BY <1>2, LookStep
<1>3. CASE TakePrimary
  BY <1>3, TakePrimaryStep
<1>4. CASE TakeAlternate
  BY <1>4, TakeAlternateStep
<1>5. CASE SkipAlternate
  BY <1>5, SkipAlternateStep
<1>6. CASE TakeRequirements \/ TakePayload \/ NotFound \/ Decoded
  BY <1>6, EndStep
<1>7. CASE TakeDer
  BY <1>7, TakeDerStep
<1>8. CASE TakeSpecial
  BY <1>8, TakeSpecialStep
<1>9. CASE TakeCode
  BY <1>9, TakeCodeStep
<1>10. CASE EndSpecial \/ EndCode
  BY <1>10, EndHashesStep
<1>11. CASE DecodeRequirements
  <2>1. UNCHANGED sigVars /\ UNCHANGED derVars
    BY <1>11 DEF DecodeRequirements
  <2> QED BY <2>1, WalksKept, WalksOnly DEF SignatureInv
<1>12. CASE DecodeEntitlements
  BY <1>12, DecodeEntitlementsStep
<1>13. CASE UNCHANGED vars
  <2>1. UNCHANGED sigVars /\ UNCHANGED derVars
    BY <1>13 DEF vars
  <2> QED BY <2>1, WalksKept, WalksOnly DEF SignatureInv
<1> QED BY <1>1, <1>2, <1>3, <1>4, <1>5, <1>6, <1>7, <1>8, <1>9, <1>10, <1>11, <1>12, <1>13
        DEF Next, Work, Returned

LEMMA SignatureAlways == Spec => []SignatureInv
BY InitHolds, NextHolds, PTL DEF Spec

(* Whatever the SuperBlob says, what an accessor hands out is a blob of    *)
(* the index, and no hash starts before the directory it belongs to.       *)
THEOREM TypeCorrect == Spec => []TypeOK
<1>1. SignatureInv => TypeOK
  BY DEF SignatureInv
<1> QED BY <1>1, SignatureAlways, PTL
-----------------------------------------------------------------------------
(* Where hashes can be *)

LEMMA Monotone ==
  ASSUME NEW a \in Int, NEW b \in Int, a <= b, NEW size \in Nat
  PROVE  a * size <= b * size
<1>1. PICK c \in Nat : b = a + c
  <2>1. b - a \in Nat /\ b = a + (b - a)
    OBVIOUS
  <2> QED BY <2>1
<1>2. (a + c) * size = a * size + c * size /\ c * size \in Nat /\ a * size \in Int
  OBVIOUS
<1> QED BY <1>1, <1>2

(* Behind a page hash that is cut off there is no whole one. *)
LEMMA FitsUp ==
  ASSUME NEW d, d.hashOffset \in Nat, d.hashSize \in Nat, d.len \in Nat,
         NEW j \in Nat, NEW k \in Nat, j <= k, Fits(d, k)
  PROVE  Fits(d, j)
<1> DEFINE size == d.hashSize
<1>1. j * size <= k * size
  BY Monotone
<1>2. j * size \in Nat /\ k * size \in Nat
  OBVIOUS
<1> QED BY <1>1, <1>2 DEF Fits, Start

(* Nor is there one in front of a special slot that starts too early.      *)
LEMMA FitsDown ==
  ASSUME NEW d, d.hashOffset \in Nat, d.hashSize \in Nat, d.len \in Nat,
         d.hashOffset <= d.len,
         NEW i \in Nat \ {0}, NEW k \in Nat, i <= k, Fits(d, -k)
  PROVE  Fits(d, -i)
<1> DEFINE size == d.hashSize
<1>1. -k \in Int /\ -i \in Int /\ -k <= -i /\ -i <= -1
  OBVIOUS
<1>2. (-k) * size <= (-i) * size /\ (-i) * size <= (-1) * size
  BY <1>1, Monotone
<1>3. (-k) * size \in Int /\ (-i) * size \in Int /\ (-1) * size = -size
  BY <1>1
<1> HIDE DEF size
<1>4. d.hashOffset + (-k) * size >= 0
  BY DEF Fits, Start, size
<1>5. /\ d.hashOffset + (-i) * size >= 0
      /\ d.hashOffset + (-i) * size + size <= d.len
  <2>1. size \in Nat
    BY DEF size
  <2> QED BY <1>2, <1>3, <1>4, <2>1
<1> QED BY <1>5 DEF Fits, Start, size

(* codesign.rs: "slot -i is at hash_offset - i * hash_size".  Every slot   *)
(* whose hash lies in the blob is listed, no other one is, and each with   *)
(* the hash at its place, for every offset, size and number of the slots.  *)
THEOREM HashesListed == Spec => []EveryHashListed
<1>1. SignatureInv => EveryHashListed
  <2> DEFINE d == directory
             fits(s) == LET start == d.hashOffset + s * d.hashSize
                        IN  start >= 0 /\ start + d.hashSize <= d.len
             listed == {hashes[i].slot : i \in DOMAIN hashes}
  <2> SUFFICES ASSUME SignatureInv, phase = "done", d # NoBlob, d.hashOffset <= d.len
               PROVE  /\ listed = {s \in -d.nSpecial .. d.nCode - 1 : fits(s)}
                      /\ \A i \in DOMAIN hashes :
                           hashes[i].start = d.hashOffset + hashes[i].slot * d.hashSize
                      /\ \A i, j \in DOMAIN hashes :
                           i < j => \/ hashes[i].slot < 0 /\ hashes[j].slot >= 0
                                    \/ hashes[j].slot < hashes[i].slot /\ hashes[i].slot < 0
                                    \/ hashes[j].slot > hashes[i].slot /\ hashes[i].slot >= 0
    BY DEF EveryHashListed
  <2>1. /\ IsUse(file, call) /\ d \in FileBlobs(file) /\ IsDirectory(d)
        /\ hashed \in Nat /\ hashes \in Seq(HashRow)
    BY DEF SignatureInv, TypeOK
  <2>2. /\ d.hashOffset \in Nat /\ d.hashSize \in Nat /\ d.len \in Nat
        /\ d.nSpecial \in Nat /\ d.nCode \in Nat
    BY <2>1, DirectoryFacts
  <2>3. PICK m \in 0 .. d.nSpecial : SpecialsOut(d, hashes, m, hashed)
    BY DEF SignatureInv, HashesInv
  <2>4. hashed = d.nCode \/ ~Fits(d, hashed)
    BY DEF SignatureInv, HashesInv
  <2>5. /\ Len(hashes) = m + hashed /\ DOMAIN hashes = 1 .. (m + hashed)
        /\ m \in Nat /\ hashed <= d.nCode /\ (m = d.nSpecial \/ ~Fits(d, -(m + 1)))
    BY <2>1, <2>2, <2>3, SeqFacts DEF SpecialsOut, Outward
  <2>6. \A i \in 1 .. m :
          /\ hashes[i].slot = -i /\ hashes[i].start = Start(d, -i) /\ Fits(d, -i)
    <3>1. Outward(directory, hashes, m, hashed)
      BY <2>3 DEF SpecialsOut
    <3> HIDE DEF d
    <3>2. \A i \in 1 .. m :
            hashes[i] = [slot |-> -i, start |-> Start(d, -i)] /\ Fits(d, -i)
      BY <3>1 DEF Outward, d
    <3> SUFFICES ASSUME NEW i \in 1 .. m
                 PROVE  hashes[i].slot = -i /\ hashes[i].start = Start(d, -i) /\ Fits(d, -i)
      OBVIOUS
    <3> DEFINE s == -i
               start == Start(d, -i)
    <3>3. hashes[i] = [slot |-> s, start |-> start] /\ Fits(d, -i)
      BY <3>2
    <3> HIDE DEF s, start
    <3>4. hashes[i].slot = s /\ hashes[i].start = start
      BY <3>3
    <3> QED BY <3>3, <3>4 DEF s, start
  <2>7. \A i \in 1 .. hashed :
          /\ hashes[m + i].slot = i - 1 /\ hashes[m + i].start = Start(d, i - 1)
          /\ Fits(d, i - 1)
    <3>1. Outward(directory, hashes, m, hashed)
      BY <2>3 DEF SpecialsOut
    <3> HIDE DEF d
    <3>2. \A i \in 1 .. hashed :
            /\ hashes[m + i] = [slot |-> i - 1, start |-> Start(d, i - 1)]
            /\ Fits(d, i - 1)
      BY <3>1 DEF Outward, d
    <3> SUFFICES ASSUME NEW i \in 1 .. hashed
                 PROVE  /\ hashes[m + i].slot = i - 1 /\ hashes[m + i].start = Start(d, i - 1)
                        /\ Fits(d, i - 1)
      OBVIOUS
    <3> DEFINE s == i - 1
               start == Start(d, i - 1)
    <3>3. hashes[m + i] = [slot |-> s, start |-> start] /\ Fits(d, i - 1)
      BY <3>2
    <3> HIDE DEF s, start
    <3>4. hashes[m + i].slot = s /\ hashes[m + i].start = start
      BY <3>3
    <3> QED BY <3>3, <3>4 DEF s, start
  <2>8. \A s : fits(s) <=> Fits(d, s)
    BY DEF Fits, Start
  <2> HIDE DEF d, fits
  <2>9. ASSUME NEW i \in DOMAIN hashes
        PROVE  /\ hashes[i].start = Start(d, hashes[i].slot) /\ Fits(d, hashes[i].slot)
               /\ hashes[i].slot \in -d.nSpecial .. d.nCode - 1
               /\ i <= m => hashes[i].slot = -i
               /\ ~(i <= m) => hashes[i].slot = i - m - 1
    <3>1. CASE i <= m
      <4>1. i \in 1 .. m
        BY <2>5, <3>1
      <4>2. hashes[i].slot = -i /\ hashes[i].start = Start(d, -i) /\ Fits(d, -i)
        BY <2>6, <4>1
      <4>3. -i \in -d.nSpecial .. d.nCode - 1
        BY <2>2, <2>3, <4>1
      <4> QED BY <3>1, <4>2, <4>3
    <3>2. CASE ~(i <= m)
      <4>1. i - m \in 1 .. hashed /\ m + (i - m) = i
        BY <2>1, <2>5, <3>2
      <4>2. /\ hashes[i].slot = i - m - 1 /\ hashes[i].start = Start(d, i - m - 1)
            /\ Fits(d, i - m - 1)
        BY <2>7, <4>1
      <4>3. i - m - 1 \in -d.nSpecial .. d.nCode - 1
        <5>1. i - m - 1 \in 0 .. d.nCode - 1
          <6> DEFINE x == i - m
                     n == d.nCode
          <6>1. x \in 1 .. hashed /\ hashed \in Nat /\ n \in Nat /\ hashed <= n
            BY <2>1, <2>2, <2>5, <4>1
          <6> HIDE DEF x, n
          <6>2. x - 1 \in 0 .. n - 1
            BY <6>1
          <6> QED BY <6>2 DEF x, n
        <5>2. -d.nSpecial <= 0 /\ -d.nSpecial \in Int
          BY <2>2
        <5> QED BY <2>2, <5>1, <5>2
      <4> QED BY <3>2, <4>2, <4>3
    <3> QED BY <3>1, <3>2
  <2>10. ASSUME NEW s \in -d.nSpecial .. d.nCode - 1, Fits(d, s)
         PROVE  \E i \in DOMAIN hashes : hashes[i].slot = s
    <3>1. CASE s < 0
      <4>1. -s \in Nat \ {0} /\ -s <= d.nSpecial /\ -(-s) = s
        BY <2>2, <3>1
      <4>2. -s <= m
        <5>1. CASE m = d.nSpecial
          BY <4>1, <5>1
        <5>2. CASE ~Fits(d, -(m + 1))
          <6>1. m + 1 \in Nat \ {0} /\ Fits(d, -(-s))
            BY <2>5, <2>10, <4>1
          <6>2. ~(m + 1 <= -s)
            <7> SUFFICES ASSUME m + 1 <= -s PROVE FALSE
              OBVIOUS
            <7>1. d.hashOffset <= d.len
              BY DEF d
            <7>2. Fits(d, -(m + 1))
              BY <2>2, <4>1, <6>1, <7>1, FitsDown
            <7> QED BY <5>2, <7>2
          <6> QED BY <2>5, <4>1, <6>2
        <5> QED BY <2>5, <5>1, <5>2
      <4>3. -s \in 1 .. m /\ -s \in DOMAIN hashes
        BY <2>1, <2>5, <4>1, <4>2
      <4>4. hashes[-s].slot = s
        BY <2>6, <4>1, <4>3
      <4> QED BY <4>3, <4>4
    <3>2. CASE s >= 0
      <4>1. s \in Nat /\ s < d.nCode
        BY <2>2, <3>2
      <4>2. s < hashed
        <5>1. CASE hashed = d.nCode
          BY <4>1, <5>1
        <5>2. CASE ~Fits(d, hashed)
          BY <2>1, <2>2, <2>10, <4>1, <5>2, FitsUp
        <5> QED BY <2>4, <5>1, <5>2
      <4>3. s + 1 \in 1 .. hashed /\ m + (s + 1) \in DOMAIN hashes
        BY <2>1, <2>5, <4>1, <4>2
      <4>4. hashes[m + (s + 1)].slot = (s + 1) - 1
        BY <2>7, <4>3
      <4> QED BY <4>1, <4>3, <4>4
    <3> QED BY <2>2, <3>1, <3>2
  <2>11. listed = {s \in -d.nSpecial .. d.nCode - 1 : fits(s)}
    <3> HIDE DEF listed
    <3>1. \A s : s \in listed <=> \E i \in DOMAIN hashes : hashes[i].slot = s
      BY DEF listed
    <3> QED BY <2>8, <2>9, <2>10, <3>1
  <2>12. \A i \in DOMAIN hashes :
           hashes[i].start = d.hashOffset + hashes[i].slot * d.hashSize
    BY <2>9 DEF Start
  <2>13. ASSUME NEW i \in DOMAIN hashes, NEW j \in DOMAIN hashes, i < j
         PROVE  \/ hashes[i].slot < 0 /\ hashes[j].slot >= 0
                \/ hashes[j].slot < hashes[i].slot /\ hashes[i].slot < 0
                \/ hashes[j].slot > hashes[i].slot /\ hashes[i].slot >= 0
    <3>1. i \in Nat \ {0} /\ j \in Nat \ {0} /\ m \in Nat
      BY <2>1, <2>5
    <3>2. CASE j <= m
      BY <2>9, <2>13, <3>1, <3>2
    <3>3. CASE i <= m /\ ~(j <= m)
      BY <2>9, <2>13, <3>1, <3>3
    <3>4. CASE ~(i <= m)
      BY <2>9, <2>13, <3>1, <3>4
    <3> QED BY <3>1, <3>2, <3>3, <3>4
  <2> QED BY <2>11, <2>12, <2>13 DEF d
<1> QED BY <1>1, SignatureAlways, PTL
-----------------------------------------------------------------------------
(* codesign.rs, CodeDirectoryIter: the rows are the slots whose first      *)
(* index entry is a code directory, in order, each with that directory;    *)
(* missing slots and broken blobs between them cost nothing.               *)
THEOREM AlternatesListed == Spec => []AlternatesAlone
<1>1. SignatureInv => AlternatesAlone
  <2> DEFINE first(i) == {k \in DOMAIN file.index :
                            /\ file.index[k].type = FirstAlternate + i
                            /\ \A h \in 1 .. k - 1 : file.index[h].type # FirstAlternate + i}
             good(i) == \E k \in first(i) :
                          LET offset == file.index[k].offset
                          IN  HasBytes(offset) /\ IsDirectory(BlobAt(offset))
             rows == DOMAIN directories
  <2> SUFFICES ASSUME SignatureInv, call = "alternates", Opens, phase # "parse"
               PROVE  /\ {directories[k].slot : k \in rows} = {i \in 0 .. alternate - 1 : good(i)}
                      /\ \A j, k \in rows : j < k => directories[j].slot < directories[k].slot
                      /\ \A k \in rows : \A h \in first(directories[k].slot) :
                           directories[k].blob = BlobAt(file.index[h].offset)
                      /\ phase = "done" => alternate = MaxAlternates
    BY DEF AlternatesAlone
  <2>1. /\ IsUse(file, call) /\ RowsOf(file, alternate, directories)
        /\ directories \in Seq([slot: Nat, blob: FileBlobs(file)])
        /\ phase = "done" => alternate = MaxAlternates
    BY DEF SignatureInv, TypeOK, AlternatesInv
  <2>2. DOMAIN file.index = 1 .. Len(file.index) /\ rows = 1 .. Len(directories)
    BY <2>1, FileFacts, SeqFacts
  <2>3. \A i : first(i) = First(file, i)
    BY <2>2 DEF First
  <2>4. \A i : good(i) <=> Good(file, i)
    BY <2>3 DEF Good, DirectoryAt, HasBytes, BlobAt
  <2> HIDE DEF first, good, rows
  <2>5. {directories[k].slot : k \in rows} = {i \in 0 .. alternate - 1 : good(i)}
    BY <2>1, <2>2, <2>4 DEF RowsOf
  <2>6. \A j, k \in rows : j < k => directories[j].slot < directories[k].slot
    BY <2>1, <2>2 DEF RowsOf
  <2>7. \A k \in rows : \A h \in first(directories[k].slot) :
          directories[k].blob = BlobAt(file.index[h].offset)
    BY <2>1, <2>2, <2>3 DEF RowsOf, BlobAt
  <2> QED BY <2>1, <2>5, <2>6, <2>7 DEF first, good, rows
<1> QED BY <1>1, SignatureAlways, PTL

(* codesign.rs: der_collect_keys and der_collect_pairs are two loops with  *)
(* two decoders of an entry.  On any bytes they go the same way and take   *)
(* the same entries.                                                       *)
THEOREM KeysOfPairs == Spec => []KeysArePairsKeys
<1>1. SignatureInv => KeysArePairsKeys
  <2> SUFFICES ASSUME SignatureInv, derPhase = "done"
               PROVE  keys = {pairs[i].key : i \in DOMAIN pairs}
    BY DEF KeysArePairsKeys
  <2>1. SecondWalk(entries, at, keys, pairs) /\ ~Whole(entries, at)
    BY DEF SignatureInv, WalksInv
  <2>2. PICK n \in Nat, m \in Nat : \E p :
          /\ m <= n /\ Path(entries, p, n) /\ at = p[m]
          /\ keys = KeysOn(entries, p, n) /\ KeysOf(pairs) = KeysOn(entries, p, m)
    BY <2>1 DEF SecondWalk
  <2>3. PICK p : /\ m <= n /\ Path(entries, p, n) /\ at = p[m]
                 /\ keys = KeysOn(entries, p, n) /\ KeysOf(pairs) = KeysOn(entries, p, m)
    BY <2>2
  <2>4. m = n
    <3>1. m \in 0 .. (n - 1) => Whole(entries, p[m])
      BY <2>3 DEF Path
    <3> QED BY <2>1, <2>3, <3>1
  <2> QED BY <2>3, <2>4 DEF KeysOf
<1> QED BY <1>1, SignatureAlways, PTL
-----------------------------------------------------------------------------
(* The operands of an operator *)

IsRead(read) ==
  read.ok => read.next \in Nat /\ read.values \in Seq(Operand)

IsWords(blob) ==
  blob.words \in Seq(Nat) /\ blob.bytes \in 0 .. WordSize * Len(blob.words)

(* A word whose bytes are in the blob is one of its words. *)
LEMMA WordFacts ==
  ASSUME NEW blob, IsWords(blob), NEW k \in Nat, HasWord(blob, k)
  PROVE  k + 1 \in 1 .. Len(blob.words) /\ OpAt(blob, k) \in Nat
<1> DEFINE n == Len(blob.words)
           size == WordSize
<1>1. n \in Nat /\ size \in Nat /\ size > 0 /\ blob.bytes \in Nat
  BY SizesAssumption, SeqFacts DEF IsWords
<1>2. (k + 1) * size <= blob.bytes /\ blob.bytes <= size * n
  BY <1>1 DEF HasWord, IsWords
<1> HIDE DEF n, size
<1>3. k + 1 <= n
  <2> SUFFICES ASSUME n <= k PROVE FALSE
    BY <1>1
  <2>1. n * size <= k * size /\ k * size \in Nat /\ (k + 1) * size = k * size + size
    BY <1>1, Monotone
  <2>2. size * n = n * size
    BY <1>1
  <2> QED BY <1>1, <1>2, <2>1, <2>2
<1>4. k + 1 \in 1 .. Len(blob.words)
  BY <1>1, <1>3 DEF n
<1> QED BY <1>4, SeqFacts DEF IsWords, OpAt

LEMMA BrokenRead == IsRead(Broken)
BY DEF IsRead, Broken

LEMMA TakeWordRead ==
  ASSUME NEW blob, IsWords(blob), NEW read, IsRead(read)
  PROVE  IsRead(TakeWord(blob, read))
<1>1. CASE read.ok /\ HasWord(blob, read.next)
  <2> DEFINE w == OpAt(blob, read.next)
             values == Append(read.values, w)
             next == read.next + 1
  <2>1. read.next \in Nat /\ read.values \in Seq(Operand)
    BY <1>1 DEF IsRead
  <2>2. w \in Operand /\ next \in Nat
    BY <1>1, <2>1, WordFacts DEF Operand
  <2>3. values \in Seq(Operand)
    BY <2>1, <2>2, AppendFacts
  <2>4. TakeWord(blob, read) = [ok |-> TRUE, values |-> values, next |-> next]
    BY <1>1 DEF TakeWord, OpAt
  <2> HIDE DEF values, next
  <2> QED BY <2>2, <2>3, <2>4 DEF IsRead
<1>2. CASE ~(read.ok /\ HasWord(blob, read.next))
  <2>1. TakeWord(blob, read) = Broken
    BY <1>2 DEF TakeWord
  <2> QED BY <2>1, BrokenRead
<1> QED BY <1>1, <1>2

(* A number of bytes, padded to whole words. *)
LEMMA PaddedFacts ==
  ASSUME NEW len \in Nat
  PROVE  LET padded == (len + WordSize - 1) \div WordSize
         IN  padded \in Nat /\ padded * WordSize < len + WordSize
<1>1. WordSize \in Nat /\ WordSize > 0
  BY SizesAssumption
<1>2. len + WordSize - 1 \in Nat
  BY <1>1
<1> DEFINE a == len + WordSize - 1
           q == a \div WordSize
<1>3. q \in Nat /\ q * WordSize <= a
  <2> HIDE DEF a
  <2>1. a \in Nat
    BY <1>2 DEF a
  <2>2. q \in Int /\ a % WordSize \in 0 .. (WordSize - 1) /\ a = WordSize * q + (a % WordSize)
    BY <1>1, <2>1
  <2>3. WordSize * q = q * WordSize /\ q * WordSize \in Int
    BY <1>1, <2>2
  <2> HIDE DEF q
  <2>4. q * WordSize <= a
    BY <1>1, <2>1, <2>2, <2>3
  <2>5. q >= 0
    <3> SUFFICES ASSUME q <= -1 PROVE FALSE
      BY <2>2
    <3>1. q * WordSize <= (-1) * WordSize
      BY <1>1, <2>2, Monotone
    <3>2. (-1) * WordSize = -WordSize
      BY <1>1
    <3> QED BY <1>1, <2>1, <2>2, <2>3, <3>1, <3>2
  <2> QED BY <2>2, <2>4, <2>5
<1> HIDE DEF q
<1>4. q * WordSize < len + WordSize
  BY <1>1, <1>3
<1> QED BY <1>3, <1>4 DEF q

LEMMA SliceFacts ==
  ASSUME NEW S, NEW s \in Seq(S), NEW m \in Nat \ {0}, NEW n \in Nat, n <= Len(s)
  PROVE  SubSeq(s, m, n) \in Seq(S)
<1>1. \A i \in m .. n : s[i] \in S
  BY SeqFacts
<1> QED BY <1>1

LEMMA TakeDataRead ==
  ASSUME NEW blob, IsWords(blob), NEW read, IsRead(read)
  PROVE  IsRead(TakeData(blob, read))
<1> DEFINE from == read.next + 1
           len == blob.words[from]
           padded == (len + WordSize - 1) \div WordSize
           slice == SubSeq(blob.words, from + 1, from + padded)
           values == Append(read.values, slice)
<1>1. CASE ~read.ok \/ ~HasWord(blob, read.next) \/ from * WordSize + len > blob.bytes
  <2>1. TakeData(blob, read) = Broken
    BY <1>1 DEF TakeData
  <2> QED BY <2>1, BrokenRead
<1>2. CASE read.ok /\ HasWord(blob, read.next) /\ ~(from * WordSize + len > blob.bytes)
  <2>1. read.next \in Nat /\ read.values \in Seq(Operand)
    BY <1>2 DEF IsRead
  <2>2. from \in Nat /\ len \in Nat
    BY <1>2, <2>1, WordFacts DEF OpAt
  <2>3. padded \in Nat /\ padded * WordSize < len + WordSize
    BY <2>2, PaddedFacts
  <2>4. /\ Len(blob.words) \in Nat /\ blob.words \in Seq(Nat)
        /\ WordSize \in Nat /\ WordSize > 0
        /\ blob.bytes \in Nat /\ blob.bytes <= WordSize * Len(blob.words)
    BY SizesAssumption, SeqFacts DEF IsWords
  <2> HIDE DEF from, len, padded
  <2>5. from + padded <= Len(blob.words)
    <3> DEFINE n == Len(blob.words)
    <3>1. from * WordSize + len <= blob.bytes
      <4>1. from * WordSize \in Nat
        BY <2>2, <2>4
      <4> QED BY <1>2, <2>2, <2>4, <4>1
    <3>2. /\ (from + padded) * WordSize = from * WordSize + padded * WordSize
          /\ from * WordSize \in Nat /\ padded * WordSize \in Nat
          /\ (n + 1) * WordSize = WordSize * n + WordSize /\ WordSize * n \in Nat
      BY <2>2, <2>3, <2>4
    <3>3. (from + padded) * WordSize < (n + 1) * WordSize
      <4> DEFINE x == from * WordSize
                 y == padded * WordSize
                 z == WordSize * n
      <4>1. /\ x \in Nat /\ y \in Nat /\ z \in Nat
            /\ x + len <= blob.bytes /\ blob.bytes <= z /\ y < len + WordSize
        BY <2>3, <2>4, <3>1, <3>2
      <4> HIDE DEF x, y, z
      <4>2. x + y < z + WordSize
        BY <2>2, <2>4, <4>1
      <4> QED BY <3>2, <4>2 DEF x, y, z
    <3> HIDE DEF n
    <3>4. n + 1 \in Int /\ from + padded \in Int /\ n \in Int
      BY <2>2, <2>3, <2>4 DEF n
    <3> SUFFICES ASSUME n + 1 <= from + padded PROVE FALSE
      BY <3>4 DEF n
    <3>5. (n + 1) * WordSize <= (from + padded) * WordSize
      <4> DEFINE a == n + 1
                 b == from + padded
      <4>1. a \in Int /\ b \in Int /\ a <= b /\ WordSize \in Nat
        BY <2>4, <3>4
      <4> HIDE DEF a, b
      <4>2. a * WordSize <= b * WordSize
        BY <4>1, Monotone
      <4> QED BY <4>2 DEF a, b
    <3>6. (n + 1) * WordSize \in Int /\ (from + padded) * WordSize \in Int
      BY <2>4, <3>4
    <3> QED BY <3>3, <3>5, <3>6
  <2>6. slice \in Seq(Nat)
    <3>1. from + 1 \in Nat \ {0} /\ from + padded \in Nat
      BY <2>2, <2>3
    <3> QED BY <2>4, <2>5, <3>1, SliceFacts
  <2> HIDE DEF slice
  <2>7. values \in Seq(Operand) /\ from + padded \in Nat
    BY <2>1, <2>2, <2>3, <2>6, AppendFacts DEF Operand
  <2>8. TakeData(blob, read) = [ok |-> TRUE, values |-> values, next |-> from + padded]
    BY <1>2 DEF TakeData, from, len, padded, slice
  <2> HIDE DEF values
  <2> QED BY <2>7, <2>8 DEF IsRead
<1> QED BY <1>1, <1>2

LEMMA TakeMatchRead ==
  ASSUME NEW blob, IsWords(blob), NEW read, IsRead(read)
  PROVE  IsRead(TakeMatch(blob, read))
<1>1. IsRead(TakeWord(blob, read))
  BY TakeWordRead
<1>2. TakeMatch(blob, read) \in {TakeWord(blob, read), TakeData(blob, TakeWord(blob, read))}
  BY DEF TakeMatch
<1> QED BY <1>1, <1>2, TakeDataRead

LEMMA OperandsRead ==
  ASSUME NEW blob, IsWords(blob), NEW k \in Nat
  PROVE  IsRead(Operands(blob, k))
<1> DEFINE shape == Shape(blob.words[k + 1])
           take(read, i) == IF i \in DOMAIN shape THEN Take(blob, read, shape[i]) ELSE read
           start == [ok |-> TRUE, values |-> <<>>, next |-> k + 1]
<1>1. ASSUME NEW read, IsRead(read), NEW i \in 1 .. 3
      PROVE  IsRead(take(read, i))
  <2>1. i \in DOMAIN shape => shape[i] \in {"slot", "data", "match"}
    BY DEF Shape
  <2>2. ASSUME shape[i] \in {"slot", "data", "match"} PROVE IsRead(Take(blob, read, shape[i]))
    BY <1>1, <2>2, TakeWordRead, TakeDataRead, TakeMatchRead DEF Take
  <2> QED BY <1>1, <2>1, <2>2
<1>2. IsRead(start)
  BY DEF IsRead
<1> HIDE DEF take, start
<1>3. IsRead(take(start, 1))
  BY <1>1, <1>2
<1>4. IsRead(take(take(start, 1), 2))
  BY <1>1, <1>3
<1>5. IsRead(take(take(take(start, 1), 2), 3))
  BY <1>1, <1>4
<1> QED BY <1>5 DEF Operands, take, start
-----------------------------------------------------------------------------
(* What the words mean: the rules hold of the least relation.              *)

LEMMA DeepMeans ==
  ASSUME NEW blob, NEW d \in Nat, NEW k \in Nat, d > MaxDepth
  PROVE  Means(blob, d, k, k, Holds(<<"deep">>))
BY DEF Means, DeepRule

LEMMA LeafMeans ==
  ASSUME NEW blob, NEW d \in Nat, NEW k \in Nat, Begins(blob, d, k),
         OpAt(blob, k) \notin {And, Or, Not}, Operands(blob, k).ok
  PROVE  Means(blob, d, k, Operands(blob, k).next,
               Holds(<<"leaf", OpAt(blob, k), Operands(blob, k).values>>))
BY DEF Means, LeafRule

LEMMA NotMeans ==
  ASSUME NEW blob, NEW d \in Nat, NEW k \in Nat, NEW to \in Nat, NEW v \in SUBSET Worlds,
         Begins(blob, d, k), OpAt(blob, k) = Not, Means(blob, d + 1, k + 1, to, v)
  PROVE  Means(blob, d, k, to, Worlds \ v)
BY DEF Means, NotRule

LEMMA NodeMeans ==
  ASSUME NEW blob, NEW d \in Nat, NEW k \in Nat, NEW mid \in Nat, NEW to \in Nat,
         NEW v \in SUBSET Worlds, NEW u \in SUBSET Worlds,
         Begins(blob, d, k), OpAt(blob, k) \in {And, Or},
         Means(blob, d + 1, k + 1, mid, v), Means(blob, d + 1, mid, to, u)
  PROVE  Means(blob, d, k, to, Combine(OpAt(blob, k), v, u))
BY DEF Means, NodeRule

(* The last rule of a derivation. *)
ByDeep(d, k, to, v) == d > MaxDepth /\ to = k /\ v = Holds(<<"deep">>)

ByLeaf(blob, d, k, to, v) ==
  /\ Begins(blob, d, k) /\ OpAt(blob, k) \notin {And, Or, Not} /\ Operands(blob, k).ok
  /\ to = Operands(blob, k).next
  /\ v = Holds(<<"leaf", OpAt(blob, k), Operands(blob, k).values>>)

ByNot(blob, d, k, to, v) ==
  /\ Begins(blob, d, k) /\ OpAt(blob, k) = Not
  /\ \E u \in SUBSET Worlds : Means(blob, d + 1, k + 1, to, u) /\ v = Worlds \ u

ByNode(blob, d, k, to, v) ==
  /\ Begins(blob, d, k) /\ OpAt(blob, k) \in {And, Or}
  /\ \E mid \in Nat : \E x, y \in SUBSET Worlds :
       /\ Means(blob, d + 1, k + 1, mid, x) /\ Means(blob, d + 1, mid, to, y)
       /\ v = Combine(OpAt(blob, k), x, y)

ByRule(blob, d, k, to, v) ==
  \/ ByDeep(d, k, to, v) \/ ByLeaf(blob, d, k, to, v)
  \/ ByNot(blob, d, k, to, v) \/ ByNode(blob, d, k, to, v)

Tuples == Nat \X Nat \X Nat \X SUBSET Worlds

LEMMA Closed ==
  ASSUME NEW blob, NEW E, DeepRule(E), LeafRule(blob, E), NotRule(blob, E), NodeRule(blob, E),
         NEW d, NEW k, NEW to, NEW v, Means(blob, d, k, to, v)
  PROVE  <<d, k, to, v>> \in E
BY DEF Means

LEMMA SetTypes ==
  /\ \A atom : Holds(atom) \in SUBSET Worlds
  /\ \A v : Worlds \ v \in SUBSET Worlds
  /\ \A op : \A v, u \in SUBSET Worlds : Combine(op, v, u) \in SUBSET Worlds
BY DEF Holds, Combine

(* Whatever means something does so by one of the rules. *)
LEMMA Inversion ==
  ASSUME NEW blob, IsWords(blob), NEW d, NEW k, NEW to, NEW v, Means(blob, d, k, to, v)
  PROVE  /\ d \in Nat /\ k \in Nat /\ to \in Nat /\ v \in SUBSET Worlds
         /\ ByRule(blob, d, k, to, v)
<1> DEFINE ok(q) == Means(blob, q[1], q[2], q[3], q[4]) /\ ByRule(blob, q[1], q[2], q[3], q[4])
           E == {q \in Tuples : ok(q)}
<1>1. \A e, l, m \in Nat : \A x \in SUBSET Worlds :
        Means(blob, e, l, m, x) /\ ByRule(blob, e, l, m, x) => <<e, l, m, x>> \in E
  BY DEF Tuples
<1>2. \A e, l, m, x : <<e, l, m, x>> \in E => Means(blob, e, l, m, x)
  OBVIOUS
<1> HIDE DEF E
<1>3. DeepRule(E)
  BY <1>1, DeepMeans, SetTypes DEF DeepRule, ByRule, ByDeep
<1>4. LeafRule(blob, E)
  <2> SUFFICES ASSUME NEW e \in Nat, NEW l \in Nat, Begins(blob, e, l),
                      OpAt(blob, l) \notin {And, Or, Not}, Operands(blob, l).ok
               PROVE  <<e, l, Operands(blob, l).next,
                        Holds(<<"leaf", OpAt(blob, l), Operands(blob, l).values>>)>> \in E
    BY DEF LeafRule
  <2>1. Operands(blob, l).next \in Nat
    BY OperandsRead DEF IsRead
  <2> QED BY <1>1, <2>1, LeafMeans, SetTypes DEF ByRule, ByLeaf
<1>5. NotRule(blob, E)
  <2> SUFFICES ASSUME NEW e \in Nat, NEW l \in Nat, NEW m \in Nat, NEW x \in SUBSET Worlds,
                      Begins(blob, e, l), OpAt(blob, l) = Not, <<e + 1, l + 1, m, x>> \in E
               PROVE  <<e, l, m, Worlds \ x>> \in E
    BY DEF NotRule
  <2>1. Means(blob, e + 1, l + 1, m, x)
    BY <1>2
  <2>2. Means(blob, e, l, m, Worlds \ x)
    BY <2>1, NotMeans
  <2>3. ByNot(blob, e, l, m, Worlds \ x)
    BY <2>1 DEF ByNot
  <2> QED BY <1>1, <2>2, <2>3, SetTypes DEF ByRule
<1>6. NodeRule(blob, E)
  <2> USE DEF NodeRule
  <2> TAKE e, l, mid, m \in Nat
  <2> TAKE x, y \in SUBSET Worlds
  <2> HAVE /\ Begins(blob, e, l) /\ OpAt(blob, l) \in {And, Or}
           /\ <<e + 1, l + 1, mid, x>> \in E /\ <<e + 1, mid, m, y>> \in E
  <2>1. Means(blob, e + 1, l + 1, mid, x) /\ Means(blob, e + 1, mid, m, y)
    BY <1>2
  <2>2. Means(blob, e, l, m, Combine(OpAt(blob, l), x, y))
    BY <2>1, NodeMeans
  <2>3. ByNode(blob, e, l, m, Combine(OpAt(blob, l), x, y))
    BY <2>1 DEF ByNode
  <2> QED BY <1>1, <2>2, <2>3, SetTypes DEF ByRule
<1>7. <<d, k, to, v>> \in E
  BY <1>3, <1>4, <1>5, <1>6, Closed
<1> QED BY <1>7 DEF E, Tuples

(* Which rule it is. *)
LEMMA RuleAt ==
  ASSUME NEW blob, IsWords(blob), NEW d, NEW k, NEW to, NEW v, Means(blob, d, k, to, v)
  PROVE  /\ d > MaxDepth => ByDeep(d, k, to, v)
         /\ ~(d > MaxDepth) => Begins(blob, d, k)
         /\ Begins(blob, d, k) =>
              /\ OpAt(blob, k) \notin {And, Or, Not} => ByLeaf(blob, d, k, to, v)
              /\ OpAt(blob, k) = Not => ByNot(blob, d, k, to, v)
              /\ OpAt(blob, k) \in {And, Or} => ByNode(blob, d, k, to, v)
<1>1. d \in Nat /\ MaxDepth \in Nat /\ ByRule(blob, d, k, to, v)
  BY Inversion, SizesAssumption
<1>2. ByDeep(d, k, to, v) => d > MaxDepth
  BY DEF ByDeep
<1>3. Begins(blob, d, k) => ~(d > MaxDepth)
  BY <1>1 DEF Begins
<1>4. ByLeaf(blob, d, k, to, v) => Begins(blob, d, k) /\ OpAt(blob, k) \notin {And, Or, Not}
  BY DEF ByLeaf
<1>5. ByNot(blob, d, k, to, v) => Begins(blob, d, k) /\ OpAt(blob, k) = Not
  BY DEF ByNot
<1>6. ByNode(blob, d, k, to, v) => Begins(blob, d, k) /\ OpAt(blob, k) \in {And, Or}
  BY DEF ByNode
<1>7. Not \notin {And, Or}
  BY DEF Not, And, Or
<1> QED BY <1>1, <1>2, <1>3, <1>4, <1>5, <1>6, <1>7 DEF ByRule

(* An expression has one meaning and one end. *)
LEMMA Determined ==
  ASSUME NEW blob, IsWords(blob), NEW d, NEW k,
         NEW to, NEW v, Means(blob, d, k, to, v), NEW to2, NEW v2, Means(blob, d, k, to2, v2)
  PROVE  to = to2 /\ v = v2
<1> DEFINE One(q) == \A m, x : Means(blob, q[1], q[2], m, x) => m = q[3] /\ x = q[4]
           E == {q \in Tuples : One(q)}
<1>1. ASSUME NEW e \in Nat, NEW l \in Nat, NEW m \in Nat, NEW x \in SUBSET Worlds,
             \A m2, x2 : Means(blob, e, l, m2, x2) => m2 = m /\ x2 = x
      PROVE  <<e, l, m, x>> \in E
  BY <1>1 DEF Tuples
<1>2. \A e, l, m, x : <<e, l, m, x>> \in E =>
        \A m2, x2 : Means(blob, e, l, m2, x2) => m2 = m /\ x2 = x
  OBVIOUS
<1> HIDE DEF E
<1>3. DeepRule(E)
  <2> SUFFICES ASSUME NEW e \in Nat, NEW l \in Nat, e > MaxDepth
               PROVE  <<e, l, l, Holds(<<"deep">>)>> \in E
    BY DEF DeepRule
  <2>1. ASSUME NEW m2, NEW x2, Means(blob, e, l, m2, x2) PROVE ByDeep(e, l, m2, x2)
    BY <2>1, RuleAt
  <2> QED BY <1>1, <2>1, SetTypes DEF ByDeep
<1>4. LeafRule(blob, E)
  <2> SUFFICES ASSUME NEW e \in Nat, NEW l \in Nat, Begins(blob, e, l),
                      OpAt(blob, l) \notin {And, Or, Not}, Operands(blob, l).ok
               PROVE  <<e, l, Operands(blob, l).next,
                        Holds(<<"leaf", OpAt(blob, l), Operands(blob, l).values>>)>> \in E
    BY DEF LeafRule
  <2>1. Operands(blob, l).next \in Nat
    BY OperandsRead DEF IsRead
  <2>2. ASSUME NEW m2, NEW x2, Means(blob, e, l, m2, x2) PROVE ByLeaf(blob, e, l, m2, x2)
    BY <2>2, RuleAt
  <2> QED BY <1>1, <2>1, <2>2, SetTypes DEF ByLeaf
<1>5. NotRule(blob, E)
  <2> SUFFICES ASSUME NEW e \in Nat, NEW l \in Nat, NEW m \in Nat, NEW x \in SUBSET Worlds,
                      Begins(blob, e, l), OpAt(blob, l) = Not, <<e + 1, l + 1, m, x>> \in E
               PROVE  <<e, l, m, Worlds \ x>> \in E
    BY DEF NotRule
  <2>1. ASSUME NEW m2, NEW x2, Means(blob, e, l, m2, x2) PROVE m2 = m /\ x2 = Worlds \ x
    <3>1. ByNot(blob, e, l, m2, x2)
      BY <2>1, RuleAt
    <3>2. PICK u \in SUBSET Worlds : Means(blob, e + 1, l + 1, m2, u) /\ x2 = Worlds \ u
      BY <3>1 DEF ByNot
    <3> QED BY <1>2, <3>2
  <2> QED BY <1>1, <2>1, SetTypes
<1>6. NodeRule(blob, E)
  <2> USE DEF NodeRule
  <2> TAKE e, l, mid, m \in Nat
  <2> TAKE x, y \in SUBSET Worlds
  <2> HAVE /\ Begins(blob, e, l) /\ OpAt(blob, l) \in {And, Or}
           /\ <<e + 1, l + 1, mid, x>> \in E /\ <<e + 1, mid, m, y>> \in E
  <2> DEFINE z == Combine(OpAt(blob, l), x, y)
  <2>1. ASSUME NEW m2, NEW x2, Means(blob, e, l, m2, x2) PROVE m2 = m /\ x2 = z
    <3>1. ByNode(blob, e, l, m2, x2)
      BY <2>1, RuleAt
    <3>2. PICK mid2 \in Nat, u \in SUBSET Worlds, w \in SUBSET Worlds :
            /\ Means(blob, e + 1, l + 1, mid2, u) /\ Means(blob, e + 1, mid2, m2, w)
            /\ x2 = Combine(OpAt(blob, l), u, w)
      BY <3>1 DEF ByNode
    <3>3. mid2 = mid /\ u = x
      BY <1>2, <3>2
    <3>4. m2 = m /\ w = y
      BY <1>2, <3>2, <3>3
    <3> QED BY <3>2, <3>3, <3>4
  <2>2. z \in SUBSET Worlds
    BY SetTypes
  <2> HIDE DEF z
  <2>3. <<e, l, m, z>> \in E
    BY <1>1, <2>1, <2>2
  <2> QED BY <2>3 DEF z
<1>7. <<d, k, to, v>> \in E
  BY <1>3, <1>4, <1>5, <1>6, Closed
<1> QED BY <1>2, <1>7
-----------------------------------------------------------------------------
(* What the text means *)

Mark == {Left, Right, <<"not">>, <<"and">>, <<"or">>}

LEMMA TextFacts ==
  /\ \A a \in Atom : <<a>> \in Text /\ <<a>> # <<>>
  /\ \A t \in Text : <<<<"not">>>> \o t \in Text /\ <<<<"not">>>> \o t # <<>>
  /\ \A t \in Text : <<Left>> \o t \o <<Right>> \in Text /\ <<Left>> \o t \o <<Right>> # <<>>
  /\ \A t, s \in Text : /\ t \o <<<<"and">>>> \o s \in Text /\ t \o <<<<"and">>>> \o s # <<>>
                        /\ t \o <<<<"or">>>> \o s \in Text /\ t \o <<<<"or">>>> \o s # <<>>
<1> DEFINE Token == Atom \cup Mark
           neg == <<"not">>
           conj == <<"and">>
           disj == <<"or">>
<1>1. Text = Seq(Token) /\ {Left, Right, neg, conj, disj} \subseteq Token
  BY DEF Text, Mark
<1>2. ASSUME NEW S, NEW x \in S, NEW y \in S, NEW t \in Seq(S), NEW s \in Seq(S)
      PROVE  /\ <<x>> \in Seq(S) /\ <<x>> # <<>>
             /\ <<x>> \o t \in Seq(S) /\ <<x>> \o t # <<>>
             /\ t \o <<x>> \o s \in Seq(S) /\ t \o <<x>> \o s # <<>>
             /\ <<x>> \o t \o <<y>> \in Seq(S) /\ <<x>> \o t \o <<y>> # <<>>
  OBVIOUS
<1>3. \A a \in Atom : a \in Token
  OBVIOUS
<1> HIDE DEF Token, neg, conj, disj
<1>4. \A a \in Atom : <<a>> \in Text /\ <<a>> # <<>>
  BY <1>1, <1>2, <1>3
<1>5. \A t \in Text : <<neg>> \o t \in Text /\ <<neg>> \o t # <<>>
  BY <1>1, <1>2
<1>6. \A t \in Text : <<Left>> \o t \o <<Right>> \in Text /\ <<Left>> \o t \o <<Right>> # <<>>
  BY <1>1, <1>2
<1>7. \A t, s \in Text : /\ t \o <<conj>> \o s \in Text /\ t \o <<conj>> \o s # <<>>
                         /\ t \o <<disj>> \o s \in Text /\ t \o <<disj>> \o s # <<>>
  BY <1>1, <1>2
<1> QED BY <1>4, <1>5, <1>6, <1>7 DEF neg, conj, disj

LEMMA AtomReads ==
  ASSUME NEW a \in Atom
  PROVE  Reads(0, <<a>>, Holds(a))
BY DEF Reads, ReadingRules, AtomRule

LEMMA NegationReads ==
  ASSUME NEW t \in Text, NEW v \in SUBSET Worlds, Reads(0, t, v)
  PROVE  Reads(0, <<<<"not">>>> \o t, Worlds \ v)
BY DEF Reads, ReadingRules, NegationRule

LEMMA ParenthesesRead ==
  ASSUME NEW t \in Text, NEW v \in SUBSET Worlds, Reads(2, t, v)
  PROVE  Reads(0, <<Left>> \o t \o <<Right>>, v)
BY DEF Reads, ReadingRules, ParenthesesRule

LEMMA AndReads ==
  ASSUME NEW t \in Text, NEW s \in Text, NEW v \in SUBSET Worlds, NEW u \in SUBSET Worlds,
         Reads(1, t, v), Reads(1, s, u)
  PROVE  Reads(1, t \o <<<<"and">>>> \o s, v \cap u)
BY DEF Reads, ReadingRules, AndRule

LEMMA OrReads ==
  ASSUME NEW t \in Text, NEW s \in Text, NEW v \in SUBSET Worlds, NEW u \in SUBSET Worlds,
         Reads(2, t, v), Reads(2, s, u)
  PROVE  Reads(2, t \o <<<<"or">>>> \o s, v \cup u)
BY DEF Reads, ReadingRules, OrRule

LEMMA LevelsNest ==
  ASSUME NEW t \in Text, NEW v \in SUBSET Worlds, NEW i \in 0 .. 2, NEW j \in 0 .. 2, i <= j,
         Reads(i, t, v)
  PROVE  Reads(j, t, v)
BY DEF Reads, ReadingRules, LevelRule

(* Only texts mean something, and what they mean is a set of worlds. *)
LEMMA ReadsTyped ==
  ASSUME NEW level, NEW text, NEW v, Reads(level, text, v)
  PROVE  level \in 0 .. 2 /\ text \in Text /\ v \in SUBSET Worlds
<1> DEFINE R == (0 .. 2) \X Text \X SUBSET Worlds
<1>1. \A i, t, x : <<i, t, x>> \in R <=> i \in 0 .. 2 /\ t \in Text /\ x \in SUBSET Worlds
  OBVIOUS
<1> HIDE DEF R
<1>2. 0 \in 0 .. 2 /\ 1 \in 0 .. 2 /\ 2 \in 0 .. 2
  OBVIOUS
<1>3. AtomRule(R)
  BY <1>1, <1>2, SetTypes, TextFacts DEF AtomRule
<1>4. NegationRule(R)
  BY <1>1, <1>2, SetTypes, TextFacts DEF NegationRule
<1>5. ParenthesesRule(R)
  BY <1>1, <1>2, TextFacts DEF ParenthesesRule
<1>6. AndRule(R)
  <2>1. \A x, y \in SUBSET Worlds : x \cap y \in SUBSET Worlds
    OBVIOUS
  <2> QED BY <1>1, <1>2, <2>1, TextFacts DEF AndRule
<1>7. OrRule(R)
  <2>1. \A x, y \in SUBSET Worlds : x \cup y \in SUBSET Worlds
    OBVIOUS
  <2> QED BY <1>1, <1>2, <2>1, TextFacts DEF OrRule
<1>8. LevelRule(R)
  BY <1>1 DEF LevelRule
<1> QED BY <1>1, <1>3, <1>4, <1>5, <1>6, <1>7, <1>8 DEF Reads, ReadingRules
-----------------------------------------------------------------------------
(* The evaluation: the operators on the stack and where each begins        *)

Frame == [op: {And, Or, Not}, left: Text]

HasMeaning(blob, d, k) ==
  \E to \in Nat : \E v \in SUBSET Worlds : Means(blob, d, k, to, v)

(* The operator at word k and depth d is the frame's, and its operand to   *)
(* come begins at word next: the first one, or the one after the text.     *)
Opened(blob, frame, d, k, next) ==
  /\ Begins(blob, d, k) /\ OpAt(blob, k) = frame.op
  /\ frame.left = <<>> => next = k + 1
  /\ frame.left # <<>> =>
       /\ frame.op # Not
       /\ \E v \in SUBSET Worlds :
            Means(blob, d + 1, k + 1, next, v) /\ Reads(Level(frame.op), frame.left, v)

(* b is where the expressions begin that are being evaluated.  If the      *)
(* outermost has a meaning, then all of them have.                         *)
Evaluates(blob, s, b) ==
  /\ b \in [Nat -> Nat] /\ b[1] = 0
  /\ \A i \in 1 .. Len(s) : Opened(blob, s[i], i - 1, b[i], b[i + 1])
  /\ HasMeaning(blob, 0, 0) =>
       \A i \in 1 .. (Len(s) + 1) : HasMeaning(blob, i - 1, b[i])

(* The level a text is asked for at. *)
Asked(s) == IF s = <<>> THEN 2 ELSE Level(s[Len(s)].op)

(* The text reads as the innermost expression, which ends before word to. *)
Says(blob, s, b, to, text) ==
  /\ text # <<>>
  /\ \E v \in SUBSET Worlds :
       Means(blob, Len(s), b[Len(s) + 1], to, v) /\ Reads(Asked(s), text, v)

LEMMA LevelFacts ==
  /\ Level(Not) = 0 /\ Level(And) = 1 /\ Level(Or) = 2
  /\ \A s \in Seq(Frame) : Asked(s) \in 0 .. 2
<1>1. Level(Not) = 0 /\ Level(And) = 1 /\ Level(Or) = 2
  BY DEF Level, Not, And, Or
<1>2. ASSUME NEW s \in Seq(Frame) PROVE Asked(s) \in 0 .. 2
  <2>1. CASE s = <<>>
    BY <2>1 DEF Asked
  <2>2. CASE s # <<>>
    <3>1. s[Len(s)] \in Frame
      BY <2>2
    <3> QED BY <1>1, <2>2, <3>1 DEF Asked, Frame
  <2> QED BY <2>1, <2>2
<1> QED BY <1>1, <1>2

LEMMA PopFacts ==
  ASSUME NEW S, NEW s \in Seq(S), s # <<>>
  PROVE  /\ Len(s) \in Nat \ {0} /\ Front(s) \in Seq(S) /\ Len(Front(s)) = Len(s) - 1
         /\ \A i \in 1 .. (Len(s) - 1) : Front(s)[i] = s[i]
         /\ Last(s) = s[Len(s)] /\ s[Len(s)] \in S
         /\ Front(s) = <<>> <=> Len(s) = 1
<1> DEFINE n == Len(s)
           t == SubSeq(s, 1, n - 1)
<1>1. n \in Nat \ {0} /\ \A i \in 1 .. n : s[i] \in S
  OBVIOUS
<1>2. t \in Seq(S) /\ Len(t) = n - 1 /\ \A i \in 1 .. (n - 1) : t[i] = s[i]
  <2> HIDE DEF n
  <2>1. 1 \in Int /\ n - 1 \in Int /\ \A i \in 1 .. (n - 1) : s[i] \in S
    BY <1>1
  <2> HIDE DEF t
  <2>2. /\ t \in Seq(S) /\ Len(t) = IF 1 <= n - 1 THEN (n - 1) - 1 + 1 ELSE 0
        /\ \A i \in 1 .. (n - 1) - 1 + 1 : t[i] = s[1 + i - 1]
    BY <2>1, SubSeqProperties DEF t
  <2>3. \A i \in 1 .. (n - 1) : i \in 1 .. (n - 1) - 1 + 1 /\ 1 + i - 1 = i
    BY <1>1
  <2> QED BY <1>1, <2>2, <2>3
<1>3. Front(s) = t /\ Last(s) = s[n]
  BY DEF Front, Last
<1> HIDE DEF t
<1>4. t = <<>> <=> Len(t) = 0
  BY <1>2
<1> QED BY <1>1, <1>2, <1>3, <1>4

LEMMA UpdateFacts ==
  ASSUME NEW b \in [Nat -> Nat], NEW i \in Nat, NEW x \in Nat
  PROVE  /\ [b EXCEPT ![i] = x] \in [Nat -> Nat]
         /\ [b EXCEPT ![i] = x][i] = x
         /\ \A j \in Nat : j # i => [b EXCEPT ![i] = x][j] = b[j]
OBVIOUS

LEMMA LeftFacts ==
  ASSUME NEW s \in Seq(Frame), NEW n \in 1 .. Len(s), NEW text \in Text
  PROVE  LET t == [s EXCEPT ![n].left = text]
         IN  /\ t \in Seq(Frame) /\ Len(t) = Len(s)
             /\ t[n] = [op |-> s[n].op, left |-> text]
             /\ \A i \in 1 .. Len(s) : i # n => t[i] = s[i]
<1> DEFINE frame == [s[n] EXCEPT !.left = text]
<1>1. s[n] \in Frame
  BY SeqFacts
<1>2. frame \in Frame /\ frame = [op |-> s[n].op, left |-> text]
  BY <1>1 DEF Frame
<1> HIDE DEF frame
<1>3. LET t == [s EXCEPT ![n] = frame]
      IN  /\ t \in Seq(Frame) /\ Len(t) = Len(s) /\ t[n] = frame
          /\ \A i \in 1 .. Len(s) : i # n => t[i] = s[i]
  BY <1>2
<1> QED BY <1>2, <1>3 DEF frame

LEMMA Opening ==
  ASSUME NEW blob
  PROVE  Evaluates(blob, <<>>, [i \in Nat |-> 0])
<1> DEFINE b == [i \in Nat |-> 0]
<1>1. b \in [Nat -> Nat] /\ b[1] = 0
  OBVIOUS
<1>2. Len(<<>>) = 0 /\ 1 .. 0 = {} /\ 1 .. (0 + 1) = {1} /\ 1 - 1 = 0
  OBVIOUS
<1> HIDE DEF b
<1> QED BY <1>1, <1>2 DEF Evaluates, b

(* A whole operator has whole operands. *)
LEMMA FirstOperand ==
  ASSUME NEW blob, IsWords(blob), NEW d \in Nat, NEW k \in Nat, Begins(blob, d, k),
         OpAt(blob, k) \in {And, Or, Not}, HasMeaning(blob, d, k)
  PROVE  HasMeaning(blob, d + 1, k + 1)
<1>1. PICK to \in Nat, v \in SUBSET Worlds : Means(blob, d, k, to, v)
  BY DEF HasMeaning
<1>2. CASE OpAt(blob, k) = Not
  <2>1. ByNot(blob, d, k, to, v)
    BY <1>1, <1>2, RuleAt
  <2> QED BY <2>1 DEF ByNot, HasMeaning
<1>3. CASE OpAt(blob, k) \in {And, Or}
  <2>1. ByNode(blob, d, k, to, v)
    BY <1>1, <1>3, RuleAt
  <2> QED BY <2>1 DEF ByNode, HasMeaning
<1> QED BY <1>2, <1>3

LEMMA SecondOperand ==
  ASSUME NEW blob, IsWords(blob), NEW d \in Nat, NEW k \in Nat, Begins(blob, d, k),
         OpAt(blob, k) \in {And, Or}, HasMeaning(blob, d, k),
         NEW mid, NEW x, Means(blob, d + 1, k + 1, mid, x)
  PROVE  HasMeaning(blob, d + 1, mid)
<1>1. PICK to \in Nat, v \in SUBSET Worlds : Means(blob, d, k, to, v)
  BY DEF HasMeaning
<1>2. ByNode(blob, d, k, to, v)
  BY <1>1, RuleAt
<1>3. PICK mid2 \in Nat, y \in SUBSET Worlds, z \in SUBSET Worlds :
        Means(blob, d + 1, k + 1, mid2, y) /\ Means(blob, d + 1, mid2, to, z)
  BY <1>2 DEF ByNode
<1>4. mid2 = mid
  BY <1>3, Determined
<1> QED BY <1>3, <1>4 DEF HasMeaning

(* The operator at hand goes onto the stack. *)
LEMMA Push ==
  ASSUME NEW blob, IsWords(blob), NEW s \in Seq(Frame), NEW b, Evaluates(blob, s, b),
         Begins(blob, Len(s), b[Len(s) + 1]), OpAt(blob, b[Len(s) + 1]) \in {And, Or, Not}
  PROVE  \E c : /\ Evaluates(blob, Append(s, [op |-> OpAt(blob, b[Len(s) + 1]), left |-> <<>>]), c)
                /\ c[Len(s) + 2] = b[Len(s) + 1] + 1
<1> DEFINE n == Len(s)
           k == b[n + 1]
           frame == [op |-> OpAt(blob, k), left |-> <<>>]
           t == Append(s, frame)
           c == [b EXCEPT ![n + 2] = k + 1]
<1>1. n \in Nat /\ b \in [Nat -> Nat] /\ b[1] = 0 /\ k \in Nat
  BY DEF Evaluates
<1>2. frame \in Frame /\ frame.left = <<>> /\ frame.op = OpAt(blob, k)
  BY DEF Frame, Text
<1>3. t \in Seq(Frame) /\ Len(t) = n + 1 /\ (\A i \in 1 .. n : t[i] = s[i]) /\ t[n + 1] = frame
  BY <1>2, AppendFacts
<1> HIDE DEF n, k
<1>4. c \in [Nat -> Nat] /\ c[n + 2] = k + 1 /\ \A i \in 1 .. (n + 1) : c[i] = b[i]
  <2>1. n + 2 \in Nat /\ k + 1 \in Nat /\ \A i \in 1 .. (n + 1) : i \in Nat /\ i # n + 2
    BY <1>1
  <2> HIDE DEF c
  <2>2. c \in [Nat -> Nat] /\ c[n + 2] = k + 1 /\ \A j \in Nat : j # n + 2 => c[j] = b[j]
    BY <1>1, <2>1, UpdateFacts DEF c
  <2> QED BY <2>1, <2>2
<1> HIDE DEF frame, t, c
<1>5. c[1] = 0
  BY <1>1, <1>4
<1>6. ASSUME NEW i \in 1 .. (n + 1) PROVE Opened(blob, t[i], i - 1, c[i], c[i + 1])
  <2>1. CASE i \in 1 .. n
    <3>1. t[i] = s[i] /\ c[i] = b[i] /\ c[i + 1] = b[i + 1]
      <4>1. i \in 1 .. (n + 1) /\ i + 1 \in 1 .. (n + 1)
        BY <1>1, <2>1
      <4> QED BY <1>3, <1>4, <2>1, <4>1
    <3> QED BY <2>1, <3>1 DEF Evaluates, n
  <2>2. CASE i = n + 1
    <3>1. t[i] = frame /\ c[i] = k /\ c[i + 1] = k + 1 /\ i - 1 = n
      <4>1. i \in 1 .. (n + 1) /\ i + 1 = n + 2 /\ i - 1 = n
        BY <1>1, <2>2
      <4>2. c[i] = b[n + 1]
        BY <1>4, <2>2, <4>1
      <4> QED BY <1>3, <1>4, <2>2, <4>1, <4>2 DEF k
    <3>2. Opened(blob, frame, n, k, k + 1)
      BY <1>2 DEF Opened, n, k
    <3> QED BY <3>1, <3>2
  <2> QED BY <1>1, <2>1, <2>2
<1>7. ASSUME HasMeaning(blob, 0, 0), NEW i \in 1 .. (n + 2)
      PROVE  HasMeaning(blob, i - 1, c[i])
  <2>1. \A h \in 1 .. (n + 1) : HasMeaning(blob, h - 1, b[h])
    BY <1>7 DEF Evaluates, n
  <2>2. CASE i \in 1 .. (n + 1)
    BY <1>4, <2>1, <2>2
  <2>3. CASE i = n + 2
    <3>1. HasMeaning(blob, (n + 1) - 1, k)
      BY <1>1, <2>1 DEF k
    <3>2. HasMeaning(blob, n, k)
      BY <1>1, <3>1
    <3>3. HasMeaning(blob, n + 1, k + 1)
      BY <1>1, <3>2, FirstOperand DEF n, k
    <3> QED BY <1>1, <1>4, <2>3, <3>3
  <2> QED BY <1>1, <2>2, <2>3
<1>8. Evaluates(blob, t, c)
  <2>1. (n + 1) + 1 = n + 2
    BY <1>1
  <2> QED BY <1>3, <1>4, <1>5, <1>6, <1>7, <2>1 DEF Evaluates
<1> QED BY <1>4, <1>8 DEF t, frame, n, k

(* The text becomes the left operand of the innermost operator. *)
LEMMA Advance ==
  ASSUME NEW blob, IsWords(blob), NEW s \in Seq(Frame), s # <<>>, NEW b, Evaluates(blob, s, b),
         NEW n, n = Len(s), s[n].op # Not, s[n].left = <<>>,
         NEW to \in Nat, NEW text \in Text, Says(blob, s, b, to, text),
         NEW t, Len(t) = n, t[n] = [op |-> s[n].op, left |-> text],
         \A i \in 1 .. (n - 1) : t[i] = s[i]
  PROVE  \E c : Evaluates(blob, t, c) /\ c[n + 1] = to
<1> DEFINE k == b[n]
           frame == [op |-> s[n].op, left |-> text]
           c == [b EXCEPT ![n + 1] = to]
<1>1. n \in Nat \ {0} /\ n \in 1 .. Len(s) /\ n \in 1 .. n /\ s[n] \in Frame
  BY PopFacts
<1>2. b \in [Nat -> Nat] /\ b[1] = 0 /\ k \in Nat
  BY <1>1 DEF Evaluates
<1>3. frame \in Frame /\ frame.left = text /\ frame.op = s[n].op
  BY <1>1 DEF Frame
<1>4. Len(t) = n /\ (\A i \in 1 .. (n - 1) : t[i] = s[i]) /\ t[n] = frame
  OBVIOUS
<1>5. c \in [Nat -> Nat] /\ c[n + 1] = to /\ \A i \in 1 .. n : c[i] = b[i]
  <2>1. n + 1 \in Nat /\ \A i \in 1 .. n : i \in Nat /\ i # n + 1
    BY <1>1
  <2> HIDE DEF c
  <2>2. c \in [Nat -> Nat] /\ c[n + 1] = to /\ \A j \in Nat : j # n + 1 => c[j] = b[j]
    BY <1>2, <2>1, UpdateFacts DEF c
  <2> QED BY <2>1, <2>2
<1>6. Opened(blob, s[n], n - 1, k, b[n + 1])
  BY <1>1 DEF Evaluates
<1> HIDE DEF frame, c
<1>7. PICK v \in SUBSET Worlds : Means(blob, n, k + 1, to, v) /\ Reads(Level(s[n].op), text, v)
  <2>1. b[n + 1] = k + 1
    BY <1>6 DEF Opened
  <2> QED BY <2>1 DEF Says, Asked
<1>8. (n - 1) + 1 = n
  BY <1>1
<1>9. Opened(blob, frame, n - 1, k, to)
  BY <1>3, <1>6, <1>7, <1>8 DEF Opened, Says
<1>10. ASSUME NEW i \in 1 .. n PROVE Opened(blob, t[i], i - 1, c[i], c[i + 1])
  <2>1. CASE i \in 1 .. (n - 1)
    <3>1. t[i] = s[i] /\ c[i] = b[i] /\ c[i + 1] = b[i + 1] /\ i \in 1 .. n
      <4>1. i + 1 \in 1 .. n
        BY <1>1, <2>1
      <4> QED BY <1>4, <1>5, <2>1, <4>1
    <3> QED BY <3>1 DEF Evaluates
  <2>2. CASE i = n
    BY <1>1, <1>4, <1>5, <1>9, <2>2
  <2> QED BY <1>1, <2>1, <2>2
<1>11. ASSUME HasMeaning(blob, 0, 0), NEW i \in 1 .. (n + 1)
       PROVE  HasMeaning(blob, i - 1, c[i])
  <2>1. \A h \in 1 .. (n + 1) : HasMeaning(blob, h - 1, b[h])
    BY <1>11 DEF Evaluates
  <2>2. CASE i \in 1 .. n
    BY <1>5, <2>1, <2>2
  <2>3. CASE i = n + 1
    <3>1. HasMeaning(blob, n - 1, k) /\ n - 1 \in Nat
      <4>1. n \in 1 .. (n + 1) /\ n - 1 \in Nat
        BY <1>1
      <4> QED BY <2>1, <4>1
    <3>2. Begins(blob, n - 1, k) /\ OpAt(blob, k) \in {And, Or}
      BY <1>1, <1>6 DEF Opened, Frame
    <3>3. HasMeaning(blob, n, to)
      BY <1>2, <1>7, <1>8, <3>1, <3>2, SecondOperand
    <3> QED BY <1>1, <1>5, <2>3, <3>3
  <2> QED BY <1>1, <2>2, <2>3
<1>12. Evaluates(blob, t, c)
  <2>1. c[1] = 0
    <3>1. 1 \in 1 .. n
      BY <1>1
    <3> QED BY <1>2, <1>5, <3>1
  <2> QED BY <1>4, <1>5, <1>10, <1>11, <2>1 DEF Evaluates
<1> QED BY <1>5, <1>12

LEMMA Pop ==
  ASSUME NEW blob, NEW s \in Seq(Frame), s # <<>>, NEW b, Evaluates(blob, s, b)
  PROVE  Evaluates(blob, Front(s), b)
<1> DEFINE t == Front(s)
           n == Len(s)
<1>1. n \in Nat \ {0} /\ Len(t) = n - 1 /\ \A i \in 1 .. (n - 1) : t[i] = s[i]
  BY PopFacts
<1> HIDE DEF n, t
<1>2. \A i \in 1 .. (n - 1) : i \in 1 .. n /\ t[i] = s[i]
  BY <1>1
<1>3. \A i \in 1 .. ((n - 1) + 1) : i \in 1 .. (n + 1)
  BY <1>1
<1> QED BY <1>1, <1>2, <1>3 DEF Evaluates, n, t

(* Texts at the level they are asked for, or at a lower one. *)
LEMMA SaysAt ==
  ASSUME NEW blob, NEW s \in Seq(Frame), NEW b, NEW to, NEW text \in Text, text # <<>>,
         NEW v \in SUBSET Worlds, Means(blob, Len(s), b[Len(s) + 1], to, v),
         NEW i \in 0 .. 2, i <= Asked(s), Reads(i, text, v)
  PROVE  Says(blob, s, b, to, text)
<1>1. Reads(Asked(s), text, v)
  BY LevelFacts, LevelsNest
<1> QED BY <1>1 DEF Says

(* The operator on top, with its operands. *)
LEMMA TopFacts ==
  ASSUME NEW blob, NEW s \in Seq(Frame), s # <<>>, NEW b, Evaluates(blob, s, b),
         NEW n, n = Len(s)
  PROVE  /\ n \in Nat \ {0} /\ n - 1 \in Nat /\ (n - 1) + 1 = n
         /\ s[n] \in Frame /\ s[n] = Last(s) /\ b[n] \in Nat /\ b[n + 1] \in Nat
         /\ Opened(blob, s[n], n - 1, b[n], b[n + 1])
         /\ Front(s) \in Seq(Frame) /\ Len(Front(s)) = n - 1
         /\ Asked(s) = Level(s[n].op)
<1>1. n \in Nat \ {0} /\ n \in 1 .. n /\ s[n] \in Frame
  BY PopFacts
<1>2. b \in [Nat -> Nat] /\ Opened(blob, s[n], n - 1, b[n], b[n + 1])
  BY <1>1 DEF Evaluates
<1>3. Asked(s) = Level(s[n].op)
  BY DEF Asked
<1>4. Front(s) \in Seq(Frame) /\ Len(Front(s)) = n - 1 /\ s[n] = Last(s)
  BY PopFacts
<1>5. n - 1 \in Nat /\ (n - 1) + 1 = n /\ n + 1 \in Nat /\ n \in Nat
  BY <1>1
<1>6. b[n] \in Nat /\ b[n + 1] \in Nat
  BY <1>2, <1>5
<1> QED BY <1>1, <1>2, <1>3, <1>4, <1>5, <1>6

LEMMA Negated ==
  ASSUME NEW blob, NEW s \in Seq(Frame), s # <<>>, NEW b, Evaluates(blob, s, b),
         Last(s).op = Not,
         NEW to \in Nat, NEW text \in Text, Says(blob, s, b, to, text)
  PROVE  Says(blob, Front(s), b, to, <<<<"not">>>> \o text)
<1> DEFINE n == Len(s)
           t == Front(s)
           negation == <<<<"not">>>> \o text
<1>1. /\ n \in Nat \ {0} /\ n - 1 \in Nat /\ (n - 1) + 1 = n
      /\ s[n] \in Frame /\ s[n] = Last(s) /\ b[n] \in Nat
      /\ Opened(blob, s[n], n - 1, b[n], b[n + 1])
      /\ t \in Seq(Frame) /\ Len(t) = n - 1 /\ Asked(s) = Level(s[n].op)
  BY TopFacts
<1>2. PICK v \in SUBSET Worlds : Means(blob, n, b[n + 1], to, v) /\ Reads(Asked(s), text, v)
  BY DEF Says
<1>3. /\ Begins(blob, n - 1, b[n]) /\ OpAt(blob, b[n]) = Not /\ b[n + 1] = b[n] + 1
  BY <1>1 DEF Opened
<1> HIDE DEF n, t, negation
<1>4. Means(blob, n - 1, b[n], to, Worlds \ v)
  <2>1. Means(blob, (n - 1) + 1, b[n] + 1, to, v)
    BY <1>1, <1>2, <1>3
  <2> QED BY <1>1, <1>3, <2>1, NotMeans
<1>5. Reads(0, negation, Worlds \ v)
  <2>1. Reads(0, text, v)
    BY <1>1, <1>2, <1>3, LevelFacts DEF n
  <2> QED BY <2>1, NegationReads DEF negation
<1>6. negation \in Text /\ negation # <<>>
  BY TextFacts DEF negation
<1>7. Means(blob, Len(t), b[Len(t) + 1], to, Worlds \ v)
  BY <1>1, <1>4
<1>8. 0 \in 0 .. 2 /\ 0 <= Asked(t)
  BY <1>1, LevelFacts
<1>9. Says(blob, t, b, to, negation)
  BY <1>1, <1>5, <1>6, <1>7, <1>8, SetTypes, SaysAt
<1> QED BY <1>9 DEF t, negation

Connective(op) == IF op = And THEN <<"and">> ELSE <<"or">>

(* In parentheses where the context binds tighter. *)
Wrapped(s, op, text) ==
  IF Asked(s) < Level(op) THEN <<Left>> \o text \o <<Right>> ELSE text

LEMMA Joined ==
  ASSUME NEW blob, NEW s \in Seq(Frame), s # <<>>, NEW b, Evaluates(blob, s, b),
         Last(s).op # Not, Last(s).left # <<>>,
         NEW to \in Nat, NEW text \in Text, Says(blob, s, b, to, text)
  PROVE  LET op == Last(s).op
             joined == Last(s).left \o <<Connective(op)>> \o text
         IN  Says(blob, Front(s), b, to, Wrapped(Front(s), op, joined))
<1> DEFINE n == Len(s)
           t == Front(s)
           op == Last(s).op
           left == Last(s).left
           joined == left \o <<Connective(op)>> \o text
           level == Level(op)
<1>1. /\ n \in Nat \ {0} /\ n - 1 \in Nat /\ (n - 1) + 1 = n
      /\ s[n] \in Frame /\ s[n] = Last(s) /\ b[n] \in Nat /\ b[n + 1] \in Nat
      /\ Opened(blob, s[n], n - 1, b[n], b[n + 1])
      /\ t \in Seq(Frame) /\ Len(t) = n - 1 /\ Asked(s) = Level(s[n].op)
  BY TopFacts
<1>2. PICK v \in SUBSET Worlds : Means(blob, n, b[n + 1], to, v) /\ Reads(Asked(s), text, v)
  BY DEF Says
<1>3. /\ Begins(blob, n - 1, b[n]) /\ OpAt(blob, b[n]) = op
      /\ op \in {And, Or} /\ left \in Text
      /\ \E u \in SUBSET Worlds :
           Means(blob, (n - 1) + 1, b[n] + 1, b[n + 1], u) /\ Reads(level, left, u)
  <2>1. op \in {And, Or} /\ left \in Text
    BY <1>1 DEF Frame
  <2> QED BY <1>1, <2>1 DEF Opened
<1>4. PICK u \in SUBSET Worlds :
        Means(blob, (n - 1) + 1, b[n] + 1, b[n + 1], u) /\ Reads(level, left, u)
  BY <1>3
<1>5. Reads(level, text, v)
  BY <1>1, <1>2
<1> HIDE DEF n, t, op, left, joined, level
<1>6. Means(blob, n - 1, b[n], to, Combine(op, u, v))
  <2>1. Means(blob, (n - 1) + 1, b[n + 1], to, v)
    BY <1>1, <1>2
  <2>2. Means(blob, n - 1, b[n], to, Combine(OpAt(blob, b[n]), u, v))
    BY <1>1, <1>3, <1>4, <2>1, NodeMeans
  <2> QED BY <1>3, <2>2
<1>7. /\ joined \in Text /\ joined # <<>> /\ Reads(level, joined, Combine(op, u, v))
      /\ level \in 0 .. 2
  <2>1. CASE op = And
    <3>1. joined = left \o <<<<"and">>>> \o text /\ level = 1 /\ Combine(op, u, v) = u \cap v
      BY <2>1, LevelFacts DEF joined, Connective, Combine, level
    <3>2. Reads(1, left \o <<<<"and">>>> \o text, u \cap v)
      BY <1>3, <1>4, <1>5, <3>1, AndReads
    <3> QED BY <1>3, <3>1, <3>2, TextFacts
  <2>2. CASE op = Or
    <3>1. joined = left \o <<<<"or">>>> \o text /\ level = 2 /\ Combine(op, u, v) = u \cup v
      BY <2>2, LevelFacts DEF joined, Connective, Combine, level, And, Or
    <3>2. Reads(2, left \o <<<<"or">>>> \o text, u \cup v)
      BY <1>3, <1>4, <1>5, <3>1, OrReads
    <3> QED BY <1>3, <3>1, <3>2, TextFacts
  <2> QED BY <1>3, <2>1, <2>2
<1>8. Combine(op, u, v) \in SUBSET Worlds
  BY SetTypes
<1>9. Means(blob, Len(t), b[Len(t) + 1], to, Combine(op, u, v))
  BY <1>1, <1>6
<1>10. Asked(t) \in 0 .. 2
  BY <1>1, LevelFacts
<1>11. CASE Asked(t) < level
  <2> DEFINE whole == <<Left>> \o joined \o <<Right>>
  <2>1. whole \in Text /\ whole # <<>>
    BY <1>7, TextFacts
  <2>2. Reads(2, joined, Combine(op, u, v))
    <3>1. 2 \in 0 .. 2 /\ level <= 2
      BY <1>7
    <3> QED BY <1>7, <1>8, <3>1, LevelsNest
  <2>3. Reads(0, whole, Combine(op, u, v))
    BY <1>7, <1>8, <2>2, ParenthesesRead
  <2>4. Wrapped(t, op, joined) = whole
    BY <1>11 DEF Wrapped, level
  <2> HIDE DEF whole
  <2>5. 0 \in 0 .. 2 /\ 0 <= Asked(t)
    BY <1>10
  <2>6. Says(blob, t, b, to, whole)
    BY <1>1, <1>8, <1>9, <2>1, <2>3, <2>5, SaysAt
  <2> QED BY <2>4, <2>6 DEF t, op, joined, left
<1>12. CASE ~(Asked(t) < level)
  <2>1. Wrapped(t, op, joined) = joined
    BY <1>12 DEF Wrapped, level
  <2>2. level <= Asked(t)
    BY <1>7, <1>10, <1>12
  <2>3. Says(blob, t, b, to, joined)
    BY <1>1, <1>7, <1>8, <1>9, <2>2, SaysAt
  <2> QED BY <2>1, <2>3 DEF t, op, joined, left
<1> QED BY <1>11, <1>12
-----------------------------------------------------------------------------
(* The invariant of the walk over the requirements *)

Row == [kind: Nat, text: Text]

ReqTypeOK ==
  /\ IsVector(vector)
  /\ reqPhase \in {"idle", "entries", "call", "return", "done"}
  /\ entry \in Nat /\ pos \in Nat
  /\ stack \in Seq(Frame) /\ answer \in Text /\ decoded \in Seq(Row)

EntriesInv ==
  /\ \A limit \in Limits : entry <= limit
  /\ reqPhase = "done" => entry \in Limits
  /\ reqPhase = "idle" => entry = 0 /\ decoded = <<>>
  /\ reqPhase \in {"call", "return"} => Blob.opens /\ \A limit \in Limits : entry < limit

RowsInv == \E p : RowsAgree(decoded, vector, entry, p)

EvaluationInv ==
  /\ reqPhase = "call" =>
       \E b : Evaluates(Blob, stack, b) /\ pos = b[Len(stack) + 1]
  /\ reqPhase = "return" =>
       \E b : Evaluates(Blob, stack, b) /\ Says(Blob, stack, b, pos, answer)

RequirementsInv == ReqTypeOK /\ EntriesInv /\ RowsInv /\ EvaluationInv

LEMMA VectorFacts ==
  ASSUME ReqTypeOK
  PROVE  /\ Limits \subseteq Nat /\ Len(vector.index) \in Nat
         /\ HasEntry <=> reqPhase = "entries" /\ \A limit \in Limits : entry < limit
         /\ (\A limit \in Limits : entry < limit) =>
              /\ entry + 1 \in 1 .. Len(vector.index)
              /\ IsWords(Blob) /\ vector.index[entry + 1].type \in Nat
<1>1. /\ vector.count \in Nat /\ MaxEntries \in Nat /\ Len(vector.index) \in Nat
      /\ entry \in Nat
      /\ \A i \in 1 .. Len(vector.index) :
           vector.index[i].type \in Nat /\ IsWords(vector.index[i].blob)
  BY SizesAssumption DEF ReqTypeOK, IsVector, IsWords
<1>2. Limits \subseteq Nat
  BY <1>1 DEF Limits
<1>3. HasEntry <=> reqPhase = "entries" /\ \A limit \in Limits : entry < limit
  BY DEF HasEntry, Limits
<1>4. ASSUME \A limit \in Limits : entry < limit
      PROVE  entry + 1 \in 1 .. Len(vector.index)
  BY <1>1, <1>4 DEF Limits
<1> QED BY <1>1, <1>2, <1>3, <1>4 DEF Blob

(* The loop leaves an entry behind, with its row if it has one. *)
LEMMA RowsPast ==
  ASSUME NEW v, NEW rows \in Seq(Row), NEW n \in Nat, NEW p, RowsAgree(rows, v, n, p)
  PROVE  /\ ~Meaningful(v.index[n + 1]) => RowsAgree(rows, v, n + 1, p)
         /\ \A row \in Row :
              Meaningful(v.index[n + 1]) /\ Agrees(row, v.index[n + 1]) =>
                \E q : RowsAgree(Append(rows, row), v, n + 1, q)
<1> DEFINE m == Len(rows)
           e == v.index[n + 1]
<1>1. /\ p \in [1 .. m -> 1 .. n]
      /\ \A i, j \in 1 .. m : i < j => p[i] < p[j]
      /\ \A k \in 1 .. n : Meaningful(v.index[k]) <=> \E i \in 1 .. m : p[i] = k
      /\ \A i \in 1 .. m : Agrees(rows[i], v.index[p[i]])
  BY DEF RowsAgree
<1>2. m \in Nat
  OBVIOUS
<1>3. ASSUME ~Meaningful(e) PROVE RowsAgree(rows, v, n + 1, p)
  <2> HIDE DEF m
  <2>1. p \in [1 .. m -> 1 .. (n + 1)]
    BY <1>1, <1>2
  <2>2. ASSUME NEW k \in 1 .. (n + 1)
        PROVE  Meaningful(v.index[k]) <=> \E i \in 1 .. m : p[i] = k
    <3>1. CASE k \in 1 .. n
      BY <1>1, <3>1
    <3>2. CASE k = n + 1
      <4>1. \A i \in 1 .. m : p[i] # k
        BY <1>1, <1>2, <3>2
      <4> QED BY <1>3, <3>2, <4>1
    <3> QED BY <3>1, <3>2
  <2> QED BY <1>1, <2>1, <2>2 DEF RowsAgree, m
<1>4. ASSUME NEW row \in Row, Meaningful(e), Agrees(row, e)
      PROVE  \E q : RowsAgree(Append(rows, row), v, n + 1, q)
  <2> DEFINE more == Append(rows, row)
             q == [i \in 1 .. (m + 1) |-> IF i = m + 1 THEN n + 1 ELSE p[i]]
  <2>1. Len(more) = m + 1 /\ more[m + 1] = row /\ \A i \in 1 .. m : more[i] = rows[i]
    BY AppendFacts
  <2> HIDE DEF m, more
  <2>2. /\ \A i \in 1 .. m : i # m + 1 /\ p[i] \in 1 .. n /\ i \in 1 .. (m + 1)
        /\ \A i \in 1 .. (m + 1) : i = m + 1 \/ i \in 1 .. m
        /\ m + 1 \in 1 .. (m + 1)
    <3>1. \A i \in 1 .. m : p[i] \in 1 .. n
      BY <1>1
    <3>2. /\ \A i \in 1 .. m : i # m + 1 /\ i \in 1 .. (m + 1)
          /\ \A i \in 1 .. (m + 1) : i = m + 1 \/ i \in 1 .. m
          /\ m + 1 \in 1 .. (m + 1)
      BY <1>2
    <3> QED BY <3>1, <3>2
  <2>3. q[m + 1] = n + 1 /\ \A i \in 1 .. m : q[i] = p[i]
    BY <2>2
  <2>4. q \in [1 .. (m + 1) -> 1 .. (n + 1)]
    BY <1>2, <2>2
  <2> HIDE DEF q
  <2>5. ASSUME NEW i \in 1 .. (m + 1), NEW j \in 1 .. (m + 1), i < j PROVE q[i] < q[j]
    <3>1. i \in 1 .. m
      BY <1>2, <2>5
    <3>2. CASE j = m + 1
      <4>1. q[i] \in 1 .. n /\ q[j] = n + 1
        BY <2>2, <2>3, <3>1, <3>2
      <4> QED BY <4>1
    <3>3. CASE j \in 1 .. m
      BY <1>1, <2>3, <2>5, <3>1, <3>3
    <3> QED BY <2>2, <3>2, <3>3
  <2>6. ASSUME NEW k \in 1 .. (n + 1)
        PROVE  Meaningful(v.index[k]) <=> \E i \in 1 .. (m + 1) : q[i] = k
    <3>1. CASE k \in 1 .. n
      <4>1. q[m + 1] # k
        BY <2>3, <3>1
      <4>2. Meaningful(v.index[k]) <=> \E i \in 1 .. m : q[i] = k
        BY <1>1, <2>3, <3>1
      <4> QED BY <2>2, <4>1, <4>2
    <3>2. CASE k = n + 1
      BY <1>4, <2>2, <2>3, <3>2
    <3> QED BY <3>1, <3>2
  <2>7. ASSUME NEW i \in 1 .. (m + 1) PROVE Agrees(more[i], v.index[q[i]])
    <3>1. CASE i = m + 1
      BY <1>4, <2>1, <2>3, <3>1
    <3>2. CASE i \in 1 .. m
      BY <1>1, <2>1, <2>3, <3>2
    <3> QED BY <2>2, <3>1, <3>2
  <2>8. RowsAgree(more, v, n + 1, q)
    BY <2>1, <2>4, <2>5, <2>6, <2>7 DEF RowsAgree
  <2> QED BY <2>8 DEF more
<1> QED BY <1>3, <1>4

LEMMA EntryPast ==
  ASSUME ReqTypeOK, \A limit \in Limits : entry < limit,
         vector' = vector, entry' = entry + 1, reqPhase' = "entries"
  PROVE  EntriesInv'
<1>1. Limits \subseteq Nat /\ entry \in Nat /\ Limits' = Limits
  BY VectorFacts DEF Limits, ReqTypeOK
<1>2. \A limit \in Limits : entry + 1 <= limit
  BY <1>1
<1> QED BY <1>1, <1>2 DEF EntriesInv
-----------------------------------------------------------------------------
(* The steps of the walk *)

LEMMA RequirementsKept ==
  ASSUME RequirementsInv, UNCHANGED reqVars
  PROVE  RequirementsInv'
BY DEF RequirementsInv, ReqTypeOK, EntriesInv, RowsInv, EvaluationInv, Limits, Blob, reqVars

LEMMA BeginStep ==
  ASSUME RequirementsInv, NEW blob, IsVector(blob), BeginRequirements(blob)
  PROVE  RequirementsInv'
<1> USE DEF BeginRequirements
<1>1. ReqTypeOK /\ EntriesInv
  BY DEF RequirementsInv
<1>2. ReqTypeOK'
  BY <1>1 DEF ReqTypeOK
<1>3. entry' = 0 /\ decoded' = <<>> /\ Len(<<>>) = 0 /\ reqPhase' = "entries"
  BY <1>1 DEF EntriesInv
<1>4. EntriesInv'
  <2>1. blob.count \in Nat /\ MaxEntries \in Nat /\ Len(blob.index) \in Nat
    BY SizesAssumption DEF IsVector
  <2> QED BY <1>3, <2>1 DEF EntriesInv, Limits
<1>5. RowsInv'
  <2> DEFINE p == [i \in {} |-> 0]
  <2>1. 1 .. 0 = {} /\ p \in [{} -> {}]
    OBVIOUS
  <2> HIDE DEF p
  <2>2. RowsAgree(<<>>, blob, 0, p)
    BY <2>1 DEF RowsAgree
  <2> QED BY <1>3, <2>2 DEF RowsInv
<1>6. EvaluationInv'
  BY <1>3 DEF EvaluationInv
<1> QED BY <1>2, <1>4, <1>5, <1>6 DEF RequirementsInv

(* What is known while an entry is evaluated. *)
LEMMA EntryFacts ==
  ASSUME RequirementsInv, HasEntry \/ reqPhase \in {"call", "return"}
  PROVE  /\ \A limit \in Limits : entry < limit
         /\ entry + 1 \in 1 .. Len(vector.index) /\ entry \in Nat
         /\ IsWords(Blob) /\ vector.index[entry + 1].type \in Nat
<1>1. ReqTypeOK /\ EntriesInv
  BY DEF RequirementsInv
<1>2. \A limit \in Limits : entry < limit
  BY <1>1, VectorFacts DEF EntriesInv
<1> QED BY <1>1, <1>2, VectorFacts DEF ReqTypeOK

(* Leaving an entry behind that has no meaning. *)
LEMMA NoRowStep ==
  ASSUME RequirementsInv, \A limit \in Limits : entry < limit,
         UNCHANGED <<vector, pos, answer, decoded>>, entry' = entry + 1,
         reqPhase' = "entries", stack' \in {stack, <<>>},
         ~Meaningful(vector.index[entry + 1])
  PROVE  RequirementsInv'
<1>1. ReqTypeOK /\ RowsInv
  BY DEF RequirementsInv
<1>2. ReqTypeOK'
  <2>1. stack \in Seq(Frame) /\ <<>> \in Seq(Frame)
    BY <1>1 DEF ReqTypeOK
  <2>2. entry + 1 \in Nat
    BY <1>1 DEF ReqTypeOK
  <2> QED BY <1>1, <2>1, <2>2 DEF ReqTypeOK
<1>3. EntriesInv'
  BY <1>1, EntryPast
<1>4. RowsInv'
  <2>1. PICK p : RowsAgree(decoded, vector, entry, p)
    BY <1>1 DEF RowsInv
  <2>2. RowsAgree(decoded, vector, entry + 1, p)
    BY <1>1, <2>1, RowsPast DEF ReqTypeOK
  <2> QED BY <2>2 DEF RowsInv
<1>5. EvaluationInv'
  BY DEF EvaluationInv
<1> QED BY <1>2, <1>3, <1>4, <1>5 DEF RequirementsInv

LEMMA SkipBlobStep ==
  ASSUME RequirementsInv, SkipBlob
  PROVE  RequirementsInv'
<1> USE DEF SkipBlob
<1>1. \A limit \in Limits : entry < limit
  BY EntryFacts
<1>2. ~Meaningful(vector.index[entry + 1])
  BY DEF Meaningful, Blob
<1>3. reqPhase' = "entries"
  BY DEF HasEntry
<1> QED BY <1>1, <1>2, <1>3, NoRowStep

(* Steps within an entry: only the evaluation goes on. *)
LEMMA Within ==
  ASSUME RequirementsInv, UNCHANGED <<vector, entry, decoded>>,
         \A limit \in Limits : entry < limit, Blob.opens,
         reqPhase' \in {"call", "return"}, pos' \in Nat,
         stack' \in Seq(Frame), answer' \in Text, EvaluationInv'
  PROVE  RequirementsInv'
<1>1. ReqTypeOK'
  BY DEF RequirementsInv, ReqTypeOK
<1>2. EntriesInv'
  <2>1. Limits' = Limits /\ Blob' = Blob
    BY DEF Limits, Blob
  <2> QED BY <2>1 DEF RequirementsInv, EntriesInv
<1>3. RowsInv'
  BY DEF RequirementsInv, RowsInv
<1> QED BY <1>1, <1>2, <1>3 DEF RequirementsInv

LEMMA OpenBlobStep ==
  ASSUME RequirementsInv, OpenBlob
  PROVE  RequirementsInv'
<1> USE DEF OpenBlob
<1>1. \A limit \in Limits : entry < limit
  BY EntryFacts
<1>2. answer' \in Text
  BY DEF RequirementsInv, ReqTypeOK
<1>3. EvaluationInv'
  <2> DEFINE b == [i \in Nat |-> 0]
  <2>1. Evaluates(Blob', <<>>, b)
    BY Opening
  <2>2. b[Len(<<>>) + 1] = 0
    OBVIOUS
  <2> HIDE DEF b
  <2> QED BY <2>1, <2>2 DEF EvaluationInv
<1> QED BY <1>1, <1>2, <1>3, Within

LEMMA EndEntriesStep ==
  ASSUME RequirementsInv, EndEntries
  PROVE  RequirementsInv'
<1> USE DEF EndEntries
<1>1. ReqTypeOK /\ EntriesInv /\ RowsInv
  BY DEF RequirementsInv
<1>2. ReqTypeOK'
  BY <1>1 DEF ReqTypeOK
<1>3. EntriesInv'
  <2>1. Limits' = Limits
    BY DEF Limits
  <2>2. PICK limit \in Limits : ~(entry < limit)
    BY <1>1, VectorFacts
  <2>3. entry \in Nat /\ limit \in Nat /\ entry <= limit
    BY <1>1, <2>2, VectorFacts DEF ReqTypeOK, EntriesInv
  <2>4. entry \in Limits
    BY <2>2, <2>3
  <2> QED BY <1>1, <2>1, <2>4 DEF EntriesInv
<1>4. RowsInv'
  BY <1>1 DEF RowsInv
<1>5. EvaluationInv'
  BY DEF EvaluationInv
<1> QED BY <1>2, <1>3, <1>4, <1>5 DEF RequirementsInv

(* The start of a call. *)
LEMMA CallFacts ==
  ASSUME RequirementsInv, Calling
  PROVE  /\ IsWords(Blob) /\ Blob.opens /\ \A limit \in Limits : entry < limit
         /\ stack \in Seq(Frame) /\ Len(stack) \in Nat /\ pos \in Nat /\ answer \in Text
         /\ MaxDepth \in Nat
         /\ \E b : Evaluates(Blob, stack, b) /\ pos = b[Len(stack) + 1]
<1>1. IsWords(Blob) /\ \A limit \in Limits : entry < limit
  BY EntryFacts DEF Calling
<1>2. stack \in Seq(Frame) /\ pos \in Nat /\ answer \in Text /\ Blob.opens
  BY DEF RequirementsInv, ReqTypeOK, EntriesInv, Calling
<1>3. \E b : Evaluates(Blob, stack, b) /\ pos = b[Len(stack) + 1]
  BY DEF RequirementsInv, EvaluationInv, Calling
<1> QED BY <1>1, <1>2, <1>3, SizesAssumption

(* A call that comes back with an atom. *)
LEMMA AtomStep ==
  ASSUME RequirementsInv, Calling, NEW atom \in Atom, NEW to \in Nat,
         Means(Blob, Len(stack), pos, to, Holds(atom)),
         Answer(<<atom>>), pos' = to, UNCHANGED <<vector, entry, stack, decoded>>
  PROVE  RequirementsInv'
<1>1. PICK b : Evaluates(Blob, stack, b) /\ pos = b[Len(stack) + 1]
  BY CallFacts
<1>2. <<atom>> \in Text /\ <<atom>> # <<>>
  BY TextFacts
<1>3. stack \in Seq(Frame) /\ Blob.opens /\ \A limit \in Limits : entry < limit
  BY CallFacts
<1>4. Says(Blob, stack, b, to, <<atom>>)
  <2>1. 0 \in 0 .. 2 /\ 0 <= Asked(stack)
    BY <1>3, LevelFacts
  <2>2. Reads(0, <<atom>>, Holds(atom))
    BY AtomReads
  <2> QED BY <1>1, <1>2, <1>3, <2>1, <2>2, SetTypes, SaysAt
<1>5. EvaluationInv'
  <2>1. Blob' = Blob /\ stack' = stack /\ pos' = to /\ answer' = <<atom>> /\ reqPhase' = "return"
    BY DEF Blob, Answer
  <2> QED BY <1>1, <1>4, <2>1 DEF EvaluationInv
<1> QED BY <1>2, <1>3, <1>5, Within DEF Answer

LEMMA TooDeepStep ==
  ASSUME RequirementsInv, TooDeep
  PROVE  RequirementsInv'
<1>1. Means(Blob, Len(stack), pos, pos, Holds(<<"deep">>)) /\ pos \in Nat
  BY CallFacts, DeepMeans DEF TooDeep
<1>2. <<"deep">> \in Atom
  BY DEF Atom
<1>3. Calling /\ Answer(<<<<"deep">>>>) /\ pos' = pos /\ UNCHANGED <<vector, entry, stack, decoded>>
  BY DEF TooDeep
<1> QED BY <1>1, <1>2, <1>3, AtomStep

LEMMA EvalLeafStep ==
  ASSUME RequirementsInv, EvalLeaf
  PROVE  RequirementsInv'
<1> DEFINE atom == <<"leaf", Operator, Operation.values>>
<1>1. /\ Calling /\ Len(stack) <= MaxDepth /\ HasWord(Blob, pos)
      /\ Operator \notin {And, Or, Not} /\ Operation.ok
      /\ Answer(<<atom>>) /\ pos' = Operation.next
      /\ UNCHANGED <<vector, entry, stack, decoded>>
  BY DEF EvalLeaf, Readable
<1>2. IsWords(Blob) /\ pos \in Nat /\ Len(stack) \in Nat
  BY <1>1, CallFacts
<1>3. Operator = OpAt(Blob, pos) /\ Operator \in Nat
  BY <1>1, <1>2, WordFacts DEF Operator, OpAt
<1>4. Operation.next \in Nat /\ Operation.values \in Seq(Operand)
  BY <1>1, <1>2, OperandsRead DEF IsRead, Operation
<1>5. Means(Blob, Len(stack), pos, Operation.next, Holds(atom))
  BY <1>1, <1>2, <1>3, LeafMeans DEF Begins, Operation
<1>6. atom \in Atom
  BY <1>3, <1>4 DEF Atom
<1> HIDE DEF atom
<1> QED BY <1>1, <1>4, <1>5, <1>6, AtomStep

LEMMA EvalNodeStep ==
  ASSUME RequirementsInv, EvalNode
  PROVE  RequirementsInv'
<1> USE DEF EvalNode, Readable
<1>1. /\ IsWords(Blob) /\ Blob.opens /\ \A limit \in Limits : entry < limit
      /\ stack \in Seq(Frame) /\ Len(stack) \in Nat /\ pos \in Nat /\ answer \in Text
  BY CallFacts
<1>2. PICK b : Evaluates(Blob, stack, b) /\ pos = b[Len(stack) + 1]
  BY CallFacts
<1>3. Operator = OpAt(Blob, pos) /\ Begins(Blob, Len(stack), pos)
  BY DEF Operator, OpAt, Begins
<1>4. [op |-> Operator, left |-> <<>>] \in Frame
  BY DEF Frame, Text
<1>5. stack' \in Seq(Frame) /\ Len(stack') = Len(stack) + 1
  BY <1>1, <1>4, AppendFacts
<1>6. PICK c : Evaluates(Blob, stack', c) /\ c[Len(stack) + 2] = pos + 1
  BY <1>1, <1>2, <1>3, Push
<1>7. EvaluationInv'
  <2>1. Blob' = Blob /\ reqPhase' = "call" /\ pos' = pos + 1
    BY DEF Blob, Calling
  <2>2. Len(stack') + 1 = Len(stack) + 2
    BY <1>1, <1>5
  <2> QED BY <1>6, <2>1, <2>2 DEF EvaluationInv
<1>8. reqPhase' = "call" /\ pos' \in Nat /\ answer' \in Text
  BY <1>1 DEF Calling
<1> QED BY <1>1, <1>5, <1>7, <1>8, Within

(* An operator without an operand of its own is always readable. *)
LEMMA ShapeOfNode ==
  ASSUME NEW blob, NEW k, OpAt(blob, k) \in {And, Or, Not}
  PROVE  Operands(blob, k).ok
<1>1. Shape(blob.words[k + 1]) = <<>>
  BY DEF Shape, OpAt, And, Or, Not
<1> QED BY <1>1 DEF Operands

LEMMA FailStep ==
  ASSUME RequirementsInv, Fail
  PROVE  RequirementsInv'
<1> USE DEF Fail
<1>1. /\ IsWords(Blob) /\ \A limit \in Limits : entry < limit
      /\ Len(stack) \in Nat /\ pos \in Nat /\ MaxDepth \in Nat
  BY CallFacts
<1>2. PICK b : Evaluates(Blob, stack, b) /\ pos = b[Len(stack) + 1]
  BY CallFacts
<1>3. ~HasMeaning(Blob, Len(stack), pos)
  <2> SUFFICES ASSUME NEW to, NEW v, Means(Blob, Len(stack), pos, to, v) PROVE FALSE
    BY DEF HasMeaning
  <2>1. Begins(Blob, Len(stack), pos)
    BY <1>1, RuleAt
  <2>2. ~Operands(Blob, pos).ok
    BY <2>1 DEF Begins, Operation
  <2>3. OpAt(Blob, pos) \notin {And, Or, Not}
    BY <2>2, ShapeOfNode
  <2>4. ByLeaf(Blob, Len(stack), pos, to, v)
    BY <1>1, <2>1, <2>3, RuleAt
  <2> QED BY <2>2, <2>4 DEF ByLeaf
<1>4. ~HasMeaning(Blob, 0, 0)
  <2>1. Len(stack) + 1 \in 1 .. (Len(stack) + 1) /\ (Len(stack) + 1) - 1 = Len(stack)
    BY <1>1
  <2> QED BY <1>2, <1>3, <2>1 DEF Evaluates
<1>5. ~Meaningful(vector.index[entry + 1])
  BY <1>4 DEF Meaningful, HasMeaning, Blob
<1> QED BY <1>1, <1>5, NoRowStep

(* The end of a call. *)
LEMMA ReturnFacts ==
  ASSUME RequirementsInv, reqPhase = "return"
  PROVE  /\ IsWords(Blob) /\ Blob.opens /\ \A limit \in Limits : entry < limit
         /\ stack \in Seq(Frame) /\ pos \in Nat /\ answer \in Text
         /\ \E b : Evaluates(Blob, stack, b) /\ Says(Blob, stack, b, pos, answer)
<1>1. IsWords(Blob) /\ \A limit \in Limits : entry < limit
  BY EntryFacts
<1>2. stack \in Seq(Frame) /\ pos \in Nat /\ answer \in Text /\ Blob.opens
  BY DEF RequirementsInv, ReqTypeOK, EntriesInv
<1>3. \E b : Evaluates(Blob, stack, b) /\ Says(Blob, stack, b, pos, answer)
  BY DEF RequirementsInv, EvaluationInv
<1> QED BY <1>1, <1>2, <1>3

LEMMA TakeLeftStep ==
  ASSUME RequirementsInv, TakeLeft
  PROVE  RequirementsInv'
<1>1. /\ reqPhase = "return" /\ stack # <<>> /\ Last(stack).op # Not /\ Last(stack).left = <<>>
      /\ stack' = [stack EXCEPT ![Len(stack)].left = answer]
      /\ reqPhase' = "call" /\ UNCHANGED <<vector, entry, pos, answer, decoded>>
  BY DEF TakeLeft, Returning
<1>2. /\ IsWords(Blob) /\ Blob.opens /\ \A limit \in Limits : entry < limit
      /\ stack \in Seq(Frame) /\ pos \in Nat /\ answer \in Text
  BY <1>1, ReturnFacts
<1>3. PICK b : Evaluates(Blob, stack, b) /\ Says(Blob, stack, b, pos, answer)
  BY <1>1, ReturnFacts
<1>4. PICK n : n = Len(stack)
  OBVIOUS
<1> DEFINE t == [stack EXCEPT ![n].left = answer]
<1>5. Last(stack) = stack[n] /\ n \in 1 .. Len(stack)
  <2>1. Last(stack) = stack[Len(stack)] /\ Len(stack) \in Nat \ {0}
    BY <1>1, <1>2, PopFacts
  <2> QED BY <1>4, <2>1
<1>6. /\ t \in Seq(Frame) /\ Len(t) = Len(stack) /\ t[n] = [op |-> stack[n].op, left |-> answer]
      /\ \A i \in 1 .. Len(stack) : i # n => t[i] = stack[i]
  BY <1>2, <1>5, LeftFacts
<1>7. PICK c : Evaluates(Blob, t, c) /\ c[n + 1] = pos
  <2>1. stack # <<>> /\ stack[n].op # Not /\ stack[n].left = <<>>
    BY <1>1, <1>5
  <2> HIDE DEF t
  <2>2. Len(t) = n /\ \A i \in 1 .. (n - 1) : t[i] = stack[i]
    BY <1>4, <1>5, <1>6
  <2>3. t[n] = [op |-> stack[n].op, left |-> answer]
    BY <1>6
  <2>4. IsWords(Blob) /\ stack \in Seq(Frame) /\ pos \in Nat /\ answer \in Text
    BY <1>2
  <2> QED BY <1>3, <1>4, <2>1, <2>2, <2>3, <2>4, Advance
<1>8. stack' = t
  BY <1>1, <1>4
<1> HIDE DEF t
<1>9. EvaluationInv'
  <2>1. Blob' = Blob
    BY <1>1 DEF Blob
  <2> QED BY <1>1, <1>4, <1>6, <1>7, <1>8, <2>1 DEF EvaluationInv
<1> QED BY <1>1, <1>2, <1>6, <1>8, <1>9, Within

(* The operator on top is done: its text is the answer of the one below. *)
LEMMA PopStep ==
  ASSUME RequirementsInv, Returning, stack' = Front(stack),
         UNCHANGED <<vector, reqPhase, entry, pos, decoded>>, NEW text \in Text, answer' = text,
         \A b : Evaluates(Blob, stack, b) /\ Says(Blob, stack, b, pos, answer) =>
                  Says(Blob, Front(stack), b, pos, text)
  PROVE  RequirementsInv'
<1> USE DEF Returning
<1>1. /\ Blob.opens /\ \A limit \in Limits : entry < limit
      /\ stack \in Seq(Frame) /\ pos \in Nat
  BY ReturnFacts
<1>2. PICK b : Evaluates(Blob, stack, b) /\ Says(Blob, stack, b, pos, answer)
  BY ReturnFacts
<1>3. Evaluates(Blob, Front(stack), b) /\ Says(Blob, Front(stack), b, pos, text)
  BY <1>1, <1>2, Pop
<1>4. EvaluationInv'
  <2>1. Blob' = Blob
    BY DEF Blob
  <2> QED BY <1>3, <2>1 DEF EvaluationInv
<1>5. stack' \in Seq(Frame)
  BY <1>1, PopFacts
<1> QED BY <1>1, <1>4, <1>5, Within

LEMMA NegateStep ==
  ASSUME RequirementsInv, Negate
  PROVE  RequirementsInv'
<1> USE DEF Negate
<1>1. stack \in Seq(Frame) /\ pos \in Nat /\ answer \in Text
  BY ReturnFacts DEF Returning
<1>2. <<<<"not">>>> \o answer \in Text
  BY <1>1, TextFacts
<1>3. \A b : Evaluates(Blob, stack, b) /\ Says(Blob, stack, b, pos, answer) =>
               Says(Blob, Front(stack), b, pos, <<<<"not">>>> \o answer)
  BY <1>1, Negated DEF Returning
<1> QED BY <1>2, <1>3, PopStep

(* The code compares with the context of the call, here the level that is  *)
(* asked for: the outermost call has none, and asks for any text.          *)
LEMMA WrapIs ==
  ASSUME NEW text, stack \in Seq(Frame), stack # <<>>
  PROVE  Wrap(Last(stack).op, text) = Wrapped(Front(stack), Last(stack).op, text)
<1> DEFINE n == Len(stack)
           t == Front(stack)
           op == Last(stack).op
<1>1. /\ n \in Nat \ {0} /\ Len(t) = n - 1 /\ t \in Seq(Frame)
      /\ \A i \in 1 .. (n - 1) : t[i] = stack[i]
      /\ t = <<>> <=> n = 1
  BY PopFacts
<1>2. op \in {And, Or, Not}
  <2>1. Last(stack) \in Frame
    BY PopFacts
  <2> QED BY <2>1 DEF Frame
<1>3. CASE n = 1
  <2>1. Context = 3 /\ Asked(t) = 2
    BY <1>1, <1>3 DEF Context, Asked, TopLevel
  <2>2. Level(op) \in 0 .. 2
    BY <1>2, LevelFacts
  <2>3. ~(3 < Level(op)) /\ ~(2 < Level(op))
    BY <2>2
  <2> QED BY <2>1, <2>3 DEF Wrap, Wrapped
<1>4. CASE n # 1
  <2>1. n - 1 \in 1 .. (n - 1)
    BY <1>1, <1>4
  <2>2. Context = Level(stack[n - 1].op)
    BY <1>4 DEF Context
  <2>3. Asked(t) = Level(t[n - 1].op)
    BY <1>1, <1>4 DEF Asked
  <2>4. Context = Asked(t)
    BY <1>1, <2>1, <2>2, <2>3
  <2> QED BY <2>4 DEF Wrap, Wrapped
<1> QED BY <1>3, <1>4

LEMMA JoinStep ==
  ASSUME RequirementsInv, Join
  PROVE  RequirementsInv'
<1> USE DEF Join
<1> DEFINE op == Last(stack).op
           left == Last(stack).left
           joined == left \o <<Connective(op)>> \o answer
           text == Wrapped(Front(stack), op, joined)
<1>1. stack \in Seq(Frame) /\ stack # <<>> /\ pos \in Nat /\ answer \in Text
  BY ReturnFacts DEF Returning
<1>2. answer' = text
  <2>1. answer' = Wrap(op, joined)
    BY DEF Connective
  <2> HIDE DEF joined
  <2> QED BY <1>1, <2>1, WrapIs
<1>3. op \in {And, Or} /\ left \in Text
  <2>1. Last(stack) \in Frame
    BY <1>1, PopFacts
  <2> QED BY <2>1 DEF Frame
<1> HIDE DEF op, left
<1>4. joined \in Text
  BY <1>1, <1>3, TextFacts DEF Connective
<1>5. text \in Text
  BY <1>4, TextFacts DEF Wrapped
<1>6. \A b : Evaluates(Blob, stack, b) /\ Says(Blob, stack, b, pos, answer) =>
               Says(Blob, Front(stack), b, pos, text)
  BY <1>1, Joined DEF op, left
<1> HIDE DEF text
<1> QED BY <1>2, <1>5, <1>6, PopStep

LEMMA PushRowStep ==
  ASSUME RequirementsInv, PushRow
  PROVE  RequirementsInv'
<1> USE DEF PushRow
<1> DEFINE e == vector.index[entry + 1]
           row == [kind |-> e.type, text |-> answer]
<1>1. /\ ReqTypeOK /\ RowsInv /\ stack = <<>>
      /\ \A limit \in Limits : entry < limit
      /\ entry \in Nat /\ answer \in Text /\ decoded \in Seq(Row) /\ e.type \in Nat
      /\ Blob.opens /\ e.blob = Blob
  BY ReturnFacts, EntryFacts DEF RequirementsInv, ReqTypeOK, Blob
<1>2. PICK b : Evaluates(Blob, <<>>, b) /\ Says(Blob, <<>>, b, pos, answer)
  BY <1>1, ReturnFacts
<1>3. PICK v \in SUBSET Worlds : Means(Blob, 0, 0, pos, v) /\ Reads(2, answer, v)
  <2>1. b[1] = 0
    BY <1>2 DEF Evaluates
  <2>2. Len(<<>>) = 0 /\ 0 + 1 = 1 /\ Asked(<<>>) = 2
    BY DEF Asked
  <2> QED BY <1>2, <2>1, <2>2 DEF Says
<1>4. pos \in Nat
  BY <1>1 DEF ReqTypeOK
<1>5. row \in Row /\ row.kind = e.type /\ row.text = answer
  BY <1>1 DEF Row
<1>6. decoded' = Append(decoded, row) /\ entry' = entry + 1 /\ vector' = vector
  OBVIOUS
<1>7. ReqTypeOK'
  <2>1. Append(decoded, row) \in Seq(Row) /\ entry + 1 \in Nat
    BY <1>1, <1>5, AppendFacts
  <2> HIDE DEF row
  <2> QED BY <1>1, <1>6, <2>1 DEF ReqTypeOK
<1> HIDE DEF row, e
<1>8. Agrees(row, e) /\ Meaningful(e)
  BY <1>1, <1>3, <1>4, <1>5 DEF Agrees, Meaningful
<1>9. EntriesInv'
  BY <1>1, EntryPast
<1>10. RowsInv'
  <2>1. PICK p : RowsAgree(decoded, vector, entry, p)
    BY <1>1 DEF RowsInv
  <2>2. \E q : RowsAgree(Append(decoded, row), vector, entry + 1, q)
    BY <1>1, <1>5, <1>8, <2>1, RowsPast DEF e
  <2> QED BY <1>6, <2>2 DEF RowsInv
<1>11. EvaluationInv'
  BY DEF EvaluationInv
<1> QED BY <1>7, <1>9, <1>10, <1>11 DEF RequirementsInv

LEMMA WalkStep ==
  ASSUME RequirementsInv, WalkRequirements
  PROVE  RequirementsInv'
BY SkipBlobStep, OpenBlobStep, EndEntriesStep, TooDeepStep, EvalLeafStep, EvalNodeStep, FailStep,
   NegateStep, TakeLeftStep, JoinStep, PushRowStep DEF WalkRequirements
-----------------------------------------------------------------------------
(* The walk over the requirements within the signature *)

LEMMA RequirementsInit == Init => RequirementsInv
<1> SUFFICES ASSUME Init PROVE RequirementsInv
  OBVIOUS
<1> USE DEF Init, ReqInit
<1>1. vector.count = 0 /\ vector.index = <<>> /\ Len(<<>>) = 0
  OBVIOUS
<1>2. ReqTypeOK
  BY <1>1 DEF ReqTypeOK, IsVector, Text
<1>3. EntriesInv
  BY <1>1, SizesAssumption DEF EntriesInv, Limits
<1>4. RowsInv
  <2> DEFINE p == [i \in {} |-> 0]
  <2>1. 1 .. 0 = {} /\ p \in [{} -> {}]
    OBVIOUS
  <2> HIDE DEF p
  <2>2. RowsAgree(<<>>, vector, 0, p)
    BY <1>1, <2>1 DEF RowsAgree
  <2> QED BY <2>2 DEF RowsInv
<1>5. EvaluationInv
  BY DEF EvaluationInv
<1> QED BY <1>2, <1>3, <1>4, <1>5 DEF RequirementsInv

LEMMA RequirementsStep == SignatureInv /\ RequirementsInv /\ [Next]_vars => RequirementsInv'
<1> SUFFICES ASSUME SignatureInv, RequirementsInv, [Next]_vars PROVE RequirementsInv'
  OBVIOUS
<1>1. CASE TakeRequirements
  <2>1. Hit /\ call = "requirements" /\ BeginRequirements(Found.body)
    BY <1>1 DEF TakeRequirements
  <2>2. Found \in FileBlobs(file) /\ IsUse(file, call)
    BY <2>1, FoundFacts DEF SignatureInv, TypeOK
  <2>3. Found.magic = "requirements"
    BY <2>1 DEF Hit, Decodes, Found
  <2>4. IsVector(Found.body)
    BY <2>2, <2>3, FileFacts DEF IsBlob
  <2> QED BY <2>1, <2>4, BeginStep
<1>2. CASE DecodeRequirements
  BY <1>2, WalkStep DEF DecodeRequirements
<1>3. CASE ~TakeRequirements /\ ~DecodeRequirements
  <2>1. UNCHANGED reqVars
    BY <1>3 DEF Next, Work, Returned, vars, Parse, Look, TakePrimary, TakeAlternate,
                SkipAlternate, TakeDer, TakePayload, NotFound, TakeSpecial, EndSpecial, TakeCode,
                EndCode, TakeHash, DecodeEntitlements, Decoded
  <2> QED BY <2>1, RequirementsKept
<1> QED BY <1>1, <1>2, <1>3

(* codesign.rs: Requirements::decoded, eval_expression.  For every vector, *)
(* every tree and every limit of the depth: the rows are the entries whose *)
(* expression can be read to its end, and each text, read with the usual   *)
(* precedence, holds in the same worlds as the words it was made from.     *)
THEOREM TextsRead == Spec => []TextsAgree
<1>1. RequirementsInv => TextsAgree
  BY DEF RequirementsInv, EntriesInv, RowsInv, TextsAgree
<1> QED BY <1>1, RequirementsInit, RequirementsStep, SignatureAlways, PTL DEF Spec
=============================================================================
