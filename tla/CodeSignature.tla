---------------------------- MODULE CodeSignature ----------------------------
(***************************************************************************)
(* The embedded signature: Signature::parse opens the SuperBlob, and every *)
(* accessor looks its slot up in the index, takes the bytes of the blob    *)
(* and decodes them: code directories and their hashes here, requirements  *)
(* in RequirementText, entitlements in DerEntitlements.  Lengths are in    *)
(* bytes or in any other unit.                                             *)
(***************************************************************************)
EXTENDS RequirementText, DerEntitlements

CONSTANTS
  Uses,           \* the files signature() may be called on, each with an
                  \* accessor called on it
  HeaderSize,     \* SUPERBLOB_HEADER_SIZE
  IndexSize,      \* BLOB_INDEX_SIZE
  BlobHeader,     \* BLOB_HEADER_SIZE
  CdHeader,       \* a code directory up to its pageSize: 40
  MaxAlternates,  \* CSSLOT_ALTERNATE_CODEDIRECTORY_MAX
  FirstAlternate  \* CSSLOT_ALTERNATE_CODEDIRECTORIES

ASSUME LayoutAssumption ==
  /\ {HeaderSize, IndexSize, BlobHeader, CdHeader} \subseteq Nat
  /\ MaxAlternates \in Nat \ {0} /\ FirstAlternate \in Nat

(* CodeDirectory::parse *)
IsDirectory(blob) == blob.magic = "directory" /\ blob.len >= CdHeader

(* Offsets, lengths and counts are unsigned; a code directory has its      *)
(* fields if its header is whole.                                          *)
IsBlob(blob) ==
  /\ blob.len \in Nat
  /\ IsDirectory(blob) =>
       {blob.hashOffset, blob.hashSize, blob.nSpecial, blob.nCode} \subseteq Nat
  /\ blob.magic = "requirements" => IsVector(blob.body)

ASSUME UsesAssumption ==
  \A use \in Uses :
    /\ {use.file.size, use.file.base, use.file.length} \subseteq Nat
    /\ use.file.index \in Seq([type: Nat, offset: Nat])
    /\ \A i \in DOMAIN use.file.index :
         /\ use.file.index[i].offset \in DOMAIN use.file.blobs
         /\ IsBlob(use.file.blobs[use.file.index[i].offset])

VARIABLES
  file,           \* size, base, magic, length and index of the SuperBlob, and
                  \* the blob that starts at each offset
  call,           \* the accessor
  phase,          \* "parse", "find", "special", "code", "decode" or "done"
  looked,         \* index entries BlobIter has yielded
  alternate,      \* cursor of CodeDirectoryIter
  directory,      \* the code directory, or NoBlob
  hashed,         \* cursor of the hash iterator
  hashes,         \* rows of special_hashes(), then of code_hashes()
  directories,    \* what alternate_code_directories() has yielded
  content         \* the payload of a blob without inner structure, or NoBlob

sigVars == <<file, call, phase, looked, alternate, directory, hashed, hashes,
             directories, content>>

vars == <<sigVars, reqVars, derVars>>

NoBlob == [magic |-> "none"]

(* Slot::from_raw *)
SlotNames == {<<0, "CodeDirectory">>, <<2, "Requirements">>, <<5, "Entitlements">>,
              <<7, "DerEntitlements">>, <<65536, "SignatureSlot">>}

SlotOf(raw) ==
  IF raw \in FirstAlternate .. FirstAlternate + MaxAlternates - 1
  THEN <<"Alternate", raw - FirstAlternate>>
  ELSE IF \E n \in SlotNames : n[1] = raw
  THEN <<(CHOOSE n \in SlotNames : n[1] = raw)[2], 0>>
  ELSE <<"Other", raw>>

(* What each accessor looks for, and the magic its decoder demands. *)
Target ==
  CASE call = "primary"      -> <<"CodeDirectory", 0>>
    [] call = "alternates"   -> <<"Alternate", alternate>>
    [] call = "requirements" -> <<"Requirements", 0>>
    [] call = "der"          -> <<"DerEntitlements", 0>>
    [] call = "xml"          -> <<"Entitlements", 0>>
    [] call = "cms"          -> <<"SignatureSlot", 0>>

Init ==
  /\ \E use \in Uses : file = use.file /\ call = use.call
  /\ phase = "parse" /\ looked = 0 /\ alternate = 0
  /\ directory = NoBlob /\ hashed = 0 /\ hashes = <<>>
  /\ directories = <<>> /\ content = NoBlob
  /\ vector = [count |-> 0, index |-> <<>>] /\ ReqInit
  /\ entries = <<>> /\ DerInit
-----------------------------------------------------------------------------
(* Signature::parse *)
Opens ==
  LET count == Len(file.index)
  IN  /\ file.base + HeaderSize <= file.size
      /\ file.magic \in {"embedded", "embedded_old"}
      /\ HeaderSize + count * IndexSize <= file.length
      /\ file.base + file.length <= file.size

Parse ==
  /\ phase = "parse"
  /\ phase' = IF Opens THEN "find" ELSE "done"
  /\ UNCHANGED <<file, call, looked, alternate, directory, hashed, hashes,
                 directories, content, reqVars, derVars>>
-----------------------------------------------------------------------------
(* find_blob_bytes: the first entry of the slot decides, for good or bad. *)

HasMore == phase = "find" /\ looked < Len(file.index)

Slot == SlotOf(file.index[looked + 1].type)

BlobAt(offset) == file.blobs[offset]

(* blob_bytes_at: header and blob have to be in the file, not in the       *)
(* SuperBlob.                                                              *)
HasBytes(offset) ==
  /\ file.base + offset + BlobHeader <= file.size
  /\ BlobAt(offset).len >= BlobHeader
  /\ file.base + offset + BlobAt(offset).len <= file.size

(* The decoder behind the accessor takes the blob. *)
Decodes(offset) ==
  /\ HasBytes(offset)
  /\ CASE call \in {"primary", "alternates"} -> IsDirectory(BlobAt(offset))
       [] OTHER -> BlobAt(offset).magic = call

(* Mutant: the iterator does not move on. *)
LookStuck == HasMore /\ Slot # Target /\ UNCHANGED vars

Look ==
  /\ HasMore
  /\ Slot # Target
  /\ looked' = looked + 1
  /\ UNCHANGED <<file, call, phase, alternate, directory, hashed, hashes,
                 directories, content, reqVars, derVars>>

Hit == HasMore /\ Slot = Target /\ Decodes(file.index[looked + 1].offset)

Miss ==
  /\ phase = "find"
  /\ looked < Len(file.index) =>
       Slot = Target /\ ~Decodes(file.index[looked + 1].offset)

Found == BlobAt(file.index[looked + 1].offset)

TakePrimary ==
  /\ Hit /\ call = "primary"
  /\ directory' = Found /\ phase' = "special"
  /\ UNCHANGED <<file, call, looked, alternate, hashed, hashes, directories,
                 content, reqVars, derVars>>

(* CodeDirectoryIter: one slot after the other, each looked up anew. *)
TakeAlternate ==
  /\ Hit /\ call = "alternates"
  /\ directories' = Append(directories, [slot |-> alternate, blob |-> Found])
  /\ alternate' = alternate + 1 /\ looked' = 0
  /\ phase' = IF alternate + 1 < MaxAlternates THEN "find" ELSE "done"
  /\ UNCHANGED <<file, call, directory, hashed, hashes, content, reqVars, derVars>>

(* Mutant: a slot without a directory ends the iteration. *)
EndAtMiss ==
  /\ Miss /\ call = "alternates"
  /\ phase' = "done"
  /\ UNCHANGED <<file, call, looked, alternate, directory, hashed, hashes,
                 directories, content, reqVars, derVars>>

SkipAlternate ==
  /\ Miss /\ call = "alternates"
  /\ alternate' = alternate + 1 /\ looked' = 0
  /\ phase' = IF alternate + 1 < MaxAlternates THEN "find" ELSE "done"
  /\ UNCHANGED <<file, call, directory, hashed, hashes, directories, content,
                 reqVars, derVars>>

TakeRequirements ==
  /\ Hit /\ call = "requirements"
  /\ BeginRequirements(Found.body)
  /\ phase' = "decode"
  /\ UNCHANGED <<file, call, looked, alternate, directory, hashed, hashes,
                 directories, content, derVars>>

TakeDer ==
  /\ Hit /\ call = "der"
  /\ BeginEntitlements(Found.body)
  /\ phase' = "decode"
  /\ UNCHANGED <<file, call, looked, alternate, directory, hashed, hashes,
                 directories, content, reqVars>>

(* Entitlements and CmsSignature keep the bytes behind the header. *)
TakePayload ==
  /\ Hit /\ call \in {"xml", "cms"}
  /\ content' = Found /\ phase' = "done"
  /\ UNCHANGED <<file, call, looked, alternate, directory, hashed, hashes,
                 directories, reqVars, derVars>>

NotFound ==
  /\ Miss /\ call # "alternates"
  /\ phase' = "done"
  /\ UNCHANGED <<file, call, looked, alternate, directory, hashed, hashes,
                 directories, content, reqVars, derVars>>
-----------------------------------------------------------------------------
(* SpecialHashIter, then CodeHashIter, over the same directory. *)

(* Where slot s is: the special ones have negative numbers. *)
HashAt(s) == directory.hashOffset + s * directory.hashSize

(* Mutant: the last byte of the directory is out of reach. *)
HashFitsShort(s) == HashAt(s) >= 0 /\ HashAt(s) + directory.hashSize < directory.len

HashFits(s) == HashAt(s) >= 0 /\ HashAt(s) + directory.hashSize <= directory.len

Special == -(hashed + 1)

TakeHash(s) ==
  /\ HashFits(s)
  /\ hashes' = Append(hashes, [slot |-> s, start |-> HashAt(s)])
  /\ hashed' = hashed + 1
  /\ UNCHANGED <<file, call, phase, looked, alternate, directory, directories,
                 content, reqVars, derVars>>

TakeSpecial ==
  phase = "special" /\ hashed < directory.nSpecial /\ TakeHash(Special)

EndSpecial ==
  /\ phase = "special"
  /\ hashed < directory.nSpecial => ~HashFits(Special)
  /\ phase' = "code" /\ hashed' = 0
  /\ UNCHANGED <<file, call, looked, alternate, directory, hashes, directories,
                 content, reqVars, derVars>>

TakeCode == phase = "code" /\ hashed < directory.nCode /\ TakeHash(hashed)

EndCode ==
  /\ phase = "code"
  /\ hashed < directory.nCode => ~HashFits(hashed)
  /\ phase' = "done"
  /\ UNCHANGED <<file, call, looked, alternate, directory, hashed, hashes,
                 directories, content, reqVars, derVars>>
-----------------------------------------------------------------------------
DecodeRequirements ==
  /\ phase = "decode"
  /\ WalkRequirements
  /\ UNCHANGED <<sigVars, derVars>>

DecodeEntitlements ==
  /\ phase = "decode"
  /\ WalkEntitlements
  /\ UNCHANGED <<sigVars, reqVars>>

Decoded ==
  /\ phase = "decode"
  /\ "done" \in {reqPhase, derPhase}
  /\ phase' = "done"
  /\ UNCHANGED <<file, call, looked, alternate, directory, hashed, hashes,
                 directories, content, reqVars, derVars>>

Work ==
  \/ Parse \/ Look
  \/ TakePrimary \/ TakeAlternate \/ SkipAlternate
  \/ TakeRequirements \/ TakeDer \/ TakePayload \/ NotFound
  \/ TakeSpecial \/ EndSpecial \/ TakeCode \/ EndCode
  \/ DecodeRequirements \/ DecodeEntitlements \/ Decoded

Returned == phase = "done" /\ UNCHANGED vars

Next == Work \/ Returned

Spec == Init /\ [][Next]_vars /\ WF_vars(Work)
-----------------------------------------------------------------------------
(* What is guaranteed on any bytes, whatever was signed *)

(* codesign.rs: "slot -i is at hash_offset - i * hash_size", "slot j ...   *)
(* is at byte offset hash_offset + j * hash_size".  As long as slot 0 is   *)
(* not beyond the blob, every slot whose hash lies in the blob is listed,  *)
(* special ones first, each group outward from slot 0, and each hash is    *)
(* the one at its place: no special slot is mistaken for a page.           *)
EveryHashListed ==
  phase = "done" /\ directory # NoBlob /\ directory.hashOffset <= directory.len =>
    LET size == directory.hashSize
        fits(s) == LET start == directory.hashOffset + s * size
                   IN  start >= 0 /\ start + size <= directory.len
        listed == {hashes[i].slot : i \in DOMAIN hashes}
    IN  /\ listed = {s \in -directory.nSpecial .. directory.nCode - 1 : fits(s)}
        /\ \A i \in DOMAIN hashes :
             hashes[i].start = directory.hashOffset + hashes[i].slot * size
        /\ \A i, j \in DOMAIN hashes :
             i < j => \/ hashes[i].slot < 0 /\ hashes[j].slot >= 0
                      \/ hashes[j].slot < hashes[i].slot /\ hashes[i].slot < 0
                      \/ hashes[j].slot > hashes[i].slot /\ hashes[i].slot >= 0

(* codesign.rs: "Iterator over alternate CodeDirectories".  Slots that are *)
(* missing or cannot be decoded cost nothing but themselves: the rows are  *)
(* the decodable slots, in order, each from the first entry of its slot.   *)
AlternatesAlone ==
  LET first(i) == {k \in DOMAIN file.index :
                     /\ file.index[k].type = FirstAlternate + i
                     /\ \A h \in 1 .. k - 1 : file.index[h].type # FirstAlternate + i}
      good(i) == \E k \in first(i) : LET offset == file.index[k].offset
                                     IN  HasBytes(offset) /\ IsDirectory(BlobAt(offset))
      rows == DOMAIN directories
  IN  call = "alternates" /\ Opens /\ phase # "parse" =>
        /\ {directories[k].slot : k \in rows} = {i \in 0 .. alternate - 1 : good(i)}
        /\ \A j, k \in rows : j < k => directories[j].slot < directories[k].slot
        /\ \A k \in rows : \A h \in first(directories[k].slot) :
             directories[k].blob = BlobAt(file.index[h].offset)
        /\ phase = "done" => alternate = MaxAlternates

(* keys() and pairs() see the same entries, whatever the bytes are. *)
KeysArePairsKeys ==
  derPhase = "done" => keys = {pairs[i].key : i \in DOMAIN pairs}
=============================================================================
