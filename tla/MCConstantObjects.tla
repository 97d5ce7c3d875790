-------------------------- MODULE MCConstantObjects --------------------------
(***************************************************************************)
(* Small images.  A word is two bytes.  The file is 44 bytes:              *)
(*   0 text, 4 text         12 block A   20 block B                        *)
(*   28 descriptor (6 words; the strings overlap it where they are used)   *)
(* and the data segment is at 64, its file part 12 .. 43.                  *)
(***************************************************************************)
EXTENDS ConstantObjects, TLC

Segments == <<[vmaddr |-> 0, vmsize |-> 32, fileoff |-> 0, filesize |-> 0],
              [vmaddr |-> 32, vmsize |-> 12, fileoff |-> 0, filesize |-> 12],
              [vmaddr |-> 64, vmsize |-> 48, fileoff |-> 12, filesize |-> 32]>>

FileSize == 44

Texts == (0 :> 3 @@ 4 :> 2)

OffsetOf(va) == va - 52

(* Pointers as a linker leaves them: chained, plain, or signed in place.   *)
Formats == {"chained", "plain", "signed"}

RawOf(format, target) ==
  CASE format = "chained" -> PacUnit + 7 [] format = "plain" -> target
    [] format = "signed" -> 3 * PacUnit + target

(* An image from its numbers and its pointers, both by address. *)
ImageOf(numbers, pointers, format, imports, tables) ==
  [is64 |-> TRUE, segments |-> Segments, size |-> FileSize, text |-> Texts,
   words |-> [o \in {OffsetOf(va) : va \in DOMAIN numbers \cup DOMAIN pointers} |->
                LET va == o + 52
                IN  IF va \in DOMAIN numbers THEN numbers[va]
                    ELSE RawOf(format, pointers[va])],
   rebases |-> LET slots == SelectSeq([i \in 1..48 |-> 63 + i], LAMBDA va : va \in DOMAIN pointers)
               IN  IF format = "chained"
                   THEN [k \in DOMAIN slots |-> [va |-> slots[k], target |-> pointers[slots[k]]]]
                   ELSE <<>>,
   imports |-> imports, tables |-> tables, bad8 |-> {8}, bad16 |-> {5},
   blocks |-> Empty, cfstrings |-> Empty]

(* ---- blocks ------------------------------------------------------------ *)
A == 64     B == 72     D == 80

FlagSets == {0, Copies, Signed, Copies + Signed}

Imported(va, anchor, inFile) == [va |-> va, anchor |-> anchor, inFile |-> inFile]

(* Two literals, of the same flags, with one descriptor at D. *)
Numbers(flags, size) ==
  (A + 2 :> HalfUnit + flags) @@ (A + 3 :> 1) @@ (B + 2 :> flags) @@ (D + 2 :> size)

Helpers(flags) ==
  IF flags \div Copies % 2 = 1 THEN (D + 4 :> 33) @@ (D + 6 :> 34) ELSE Empty

StringSlots(flags) ==
  LET at == IF flags \div Copies % 2 = 1 THEN D + 8 ELSE D + 4
  IN  IF flags \div Signed % 2 = 1 THEN (at :> 36) @@ (at + 2 :> 0) ELSE Empty

Pointers(flags, target) ==
  (A + 4 :> 32) @@ (A + 6 :> D) @@ (B + 4 :> 40) @@ (B + 6 :> target)
    @@ Helpers(flags) @@ StringSlots(flags)

Compiled(site, flags, reserved, invoke, target, whole, size) ==
  LET copies == flags \div Copies % 2 = 1
      signed == flags \div Signed % 2 = 1
  IN  [address |-> site, flags |-> flags, reserved |-> reserved, invoke |-> invoke,
       target |-> target,
       descriptor |-> IF ~whole THEN None
         ELSE [size |-> size, copy |-> IF copies THEN 33 ELSE None,
               dispose |-> IF copies THEN 34 ELSE None,
               signature |-> IF signed THEN <<4, 2>> ELSE None, layout |-> None]]

(* The second literal's descriptor may be null, unmapped or cut off.       *)
BlockImages ==
  {[ImageOf(Numbers(flags, size), Pointers(flags, target), format, imports, <<>>)
      EXCEPT !.blocks =
        (A :> Compiled(A, flags, 1, 32, D, size >= LayoutSize, size))
          @@ (B :> Compiled(B, flags, 0, 40, target, target = D /\ size >= LayoutSize, size))] :
     flags \in FlagSets, size \in {LayoutSize - 1, LayoutSize, LayoutSize + 2},
     target \in {D, 0, 50, 94}, format \in Formats,
     imports \in {<<Imported(B, "Global", TRUE), Imported(84, "Stack", TRUE),
                    Imported(A, "Global", TRUE)>>}}

Imports ==
  {Imported(A, "Global", TRUE), Imported(B, "Global", FALSE), Imported(76, "Global", TRUE),
   Imported(90, "Global", TRUE), Imported(84, "Stack", TRUE), Imported(86, "other", TRUE)}

ImportImages ==
  {ImageOf(Numbers(Copies, LayoutSize), Pointers(Copies, D), "chained", imports, <<>>) :
     imports \in UNION {[1..n -> Imports] : n \in 0..3}}

(* ---- strings ----------------------------------------------------------- *)
Section(name, size) ==
  [malformed |-> FALSE, name |-> name, address |-> 64, offset |-> 12, size |-> size]

Malformed == [malformed |-> TRUE]

Quadruple(k, flags, length) ==
  (64 + 8 * k + 2 :> HalfUnit + flags) @@ (64 + 8 * k + 6 :> length)

(* The text a quadruple is for; bytes 8 of the file, and 5 of UTF-16, are  *)
(* no text, and a length beyond the file falls back on the terminator.     *)
Written(flags, target, length) ==
  LET offset == target - 32
      ascii == Encoding(flags) = AsciiFlag
      bytes == IF ascii THEN length ELSE 2 * length
      bad == IF ascii THEN 8 ELSE 5
  IN  CASE target \notin 32..43 \/ Encoding(flags) \notin {AsciiFlag, Utf16Flag} -> None
        [] target \in 32..43 /\ Encoding(flags) \in {AsciiFlag, Utf16Flag} ->
             IF offset + bytes > FileSize
             THEN IF ascii /\ offset \in {0, 4} THEN <<offset, Texts[offset]>> ELSE None
             ELSE IF bad \in offset .. offset + bytes - 1 THEN None ELSE <<offset, bytes>>

StringImages ==
  {[ImageOf(Quadruple(0, flags, length) @@ Quadruple(1, AsciiFlag, 3),
            (68 :> target) @@ (76 :> 36), format, <<>>, tables)
      EXCEPT !.cfstrings = (64 :> Written(flags, target, length)
                              @@ 72 :> Written(AsciiFlag, 36, 3))] :
     flags \in {AsciiFlag, Utf16Flag, EncodingBits + AsciiFlag + 1, 0}, length \in {0, 2, 3, 9, 60},
     target \in {0, 32, 36, 40, 50}, format \in Formats,
     tables \in {<<<<Section("cfstring", 16)>>>>,
                 <<<<>>, <<Section("other", 24), Section("cfstring", 17)>>,
                   <<Section("cfstring", 8)>>>>}}

(* Every two tables of up to two rows. *)
TableImages ==
  LET rows == {Malformed, Section("other", 24), Section("cfstring", 8), Section("cfstring", 7)}
      ones == UNION {[1..n -> rows] : n \in 0..2}
  IN  {ImageOf(Quadruple(0, AsciiFlag, 2), (68 :> 36), "plain", <<>>, tables) :
         tables \in UNION {[1..n -> ones] : n \in 0..2}}

NarrowImages == {[i EXCEPT !.is64 = FALSE] : i \in {CHOOSE i \in StringImages : TRUE}}

AllImages ==
  BlockImages \cup ImportImages \cup StringImages \cup TableImages \cup NarrowImages
=============================================================================
