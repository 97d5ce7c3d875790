---------------------------- MODULE MCMachoHeader ----------------------------
(***************************************************************************)
(* Every file of up to three slices of two types, two subtypes with and    *)
(* without capability bits, readable or not; thin files with every list of *)
(* up to three load commands; and thin files with one stream of function   *)
(* starts each: up to four bytes of two bits, for numbers of five bits, or *)
(* five bytes that begin with the longest of paddings, so that the third   *)
(* byte of a number has one bit that fits and one that does not, the       *)
(* fourth is beyond the width, and a fifth is one too many.                *)
(***************************************************************************)
EXTENDS MachoHeader

CONSTANTS v1, v2, v3, path

Command1(kind, value) == [kind |-> kind, value |-> value]

NoCommands == [commands |-> <<>>, text |-> None]

SliceOf(r, t, s, body) == [readable |-> r, type |-> t, subtype |-> s,
                           commands |-> body.commands, text |-> body.text]

FatFiles == {[slices |-> ss] :
  ss \in UNION {[1..n -> {SliceOf(r, t, s, NoCommands) :
                            r \in BOOLEAN, t \in {1, 2}, s \in {0, 1, 5}}] : n \in 0..3}}

Bits(b, m) == [bits |-> b, more |-> m]

(* One function, then a 0; two functions and a cut-off number; nothing. *)
StartCommands ==
  {Command1("starts", [inFile |-> TRUE, bytes |-> bytes]) :
     bytes \in {<<Bits(1, FALSE), Bits(0, FALSE), Bits(1, FALSE)>>,
                <<Bits(3, TRUE), Bits(1, FALSE), Bits(2, FALSE), Bits(1, TRUE)>>}}
    \cup {Command1("starts", [inFile |-> FALSE, bytes |-> <<>>])}

VersionCommands ==
  {[kind |-> "build", version |-> v1, sdk |-> 1, tools |-> <<1, 2>>, ntools |-> 1],
   [kind |-> "build", version |-> v2, sdk |-> 0, tools |-> <<2>>, ntools |-> 3],
   [kind |-> "min", version |-> v2, sdk |-> 0],
   [kind |-> "min", version |-> v3, sdk |-> 3]}

OtherCommands ==
  {Command1("uuid", v1), Command1("other", None),
   Command1("dylinker", path), Command1("dylinker", None)}

ThinFiles ==
  {[slices |-> <<SliceOf(TRUE, 1, 0, [commands |-> cs, text |-> t])>>] :
     cs \in UNION {[1..n -> VersionCommands \cup StartCommands \cup OtherCommands] : n \in 0..3},
     t \in {None, 20}}

ShortStreams == UNION {[1..n -> Byte] : n \in 0..4}

LongStreams ==
  {<<first>> \o rest : first \in [bits: {0, 3}, more: {TRUE}],
                       rest \in [1..4 -> [bits: {0, 1, 2}, more: BOOLEAN]]}

(* No selection but Any finds these. *)
StreamFiles ==
  {[slices |-> <<SliceOf(TRUE, 2, 1,
       [commands |-> <<Command1("starts", [inFile |-> TRUE, bytes |-> bytes])>>, text |-> t])>>] :
     bytes \in ShortStreams \cup LongStreams, t \in {0, 20}}

MachoFiles == FatFiles \cup ThinFiles \cup StreamFiles

Selections == {Any, [type |-> 1, subtype |-> AnySubtype], [type |-> 1, subtype |-> 1],
               [type |-> 2, subtype |-> 4]}
=============================================================================
