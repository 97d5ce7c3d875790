---------------------------- MODULE MachoHeader ----------------------------
(***************************************************************************)
(* MachoBinary::parse and parse_with_arch: the choice of a slice of a fat  *)
(* file, then MachoBinary::new, which absorbs the load commands into the   *)
(* header fields one after the other, and last walks LC_FUNCTION_STARTS    *)
(* (module FunctionStarts) to count it.                                    *)
(***************************************************************************)
EXTENDS FunctionStarts

CONSTANTS
  Files,        \* the files parse may be called on
  Wants,        \* the selections: Any, or a type and a subtype
  Any,          \* parse: every slice will do
  AnySubtype,   \* CPU_SUBTYPE_ANY
  CapsUnit,     \* 2^24: above it are the capability bits of a subtype
  Versions,     \* versions of the minimum OS
  Values,       \* what the other fields hold
  None          \* the Option that holds nothing

(* Fields the last command of their kind decides. *)
LastWins == {"uuid", "source", "fixups", "signature", "starts"}

StartsValue == [inFile: BOOLEAN, bytes: Seq(Byte)]

(* What new() makes of a load command; None, of a name it cannot read. *)
LoadCommand ==
  [kind: {"build"}, version: Versions, sdk: Nat, tools: Seq(Nat), ntools: Nat]
    \cup [kind: {"min"}, version: Versions, sdk: Nat]
    \cup [kind: {"starts"}, value: StartsValue]
    \cup [kind: LastWins \ {"starts"}, value: Values]
    \cup [kind: {"dylinker", "other"}, value: Values \cup {None}]

(* readable: goblin can decode the slice; type, subtype, commands: its     *)
(* header; text: vmaddr of its first __TEXT, or None.                      *)
FatSlice == [readable: BOOLEAN, type: Nat, subtype: Nat,
             commands: Seq(LoadCommand), text: Nat \cup {None}]

(* A thin file has one slice. *)
File == [slices: Seq(FatSlice)]

ASSUME HeaderAssumption ==
  /\ Files \subseteq File
  /\ Wants \subseteq {Any} \cup [type: Nat, subtype: Nat]
  /\ CapsUnit \in Nat \ {0}
  /\ None \notin Versions \cup Values \cup Nat \cup StartsValue

VARIABLES
  file,         \* the file, never written
  want,         \* the selection
  phase,        \* "slices", "commands", "walk", "done" or "failed"
  tried,        \* slices the loop has left behind
  taken,        \* load commands absorbed
  header,       \* the fields new() fills
  count         \* function_starts_count

parseVars == <<file, want, phase, tried, taken, header, count>>

vars == <<parseVars, walkVars>>

NoHeader == [uuid |-> None, source |-> None, fixups |-> None, signature |-> None,
             starts |-> None, minOs |-> None, sdk |-> None, tools |-> <<>>,
             dylinker |-> None]

Init ==
  /\ file \in Files /\ want \in Wants
  /\ phase = "slices" /\ tried = 0 /\ taken = 0
  /\ header = NoHeader /\ count = None
  /\ WalkInit
-----------------------------------------------------------------------------
Slice == file.slices[tried + 1]

(* arch_matches, or the predicate of parse. *)
ArchMatches(slice) ==
  IF want = Any THEN TRUE
  ELSE /\ slice.type = want.type
       /\ \/ want.subtype = AnySubtype
          \/ slice.subtype % CapsUnit = want.subtype % CapsUnit

Chosen(slice) == slice.readable /\ ArchMatches(slice)

PickSlice ==
  /\ phase = "slices"
  /\ tried < Len(file.slices)
  /\ Chosen(Slice)
  /\ phase' = "commands"
  /\ UNCHANGED <<file, want, tried, taken, header, count, walkVars>>

(* Mutant: `?` for continue. *)
GiveUpAtSlice ==
  /\ phase = "slices"
  /\ tried < Len(file.slices)
  /\ ~Chosen(Slice)
  /\ tried' = Len(file.slices)
  /\ UNCHANGED <<file, want, phase, taken, header, count, walkVars>>

SkipSlice ==
  /\ phase = "slices"
  /\ tried < Len(file.slices)
  /\ ~Chosen(Slice)
  /\ tried' = tried + 1
  /\ UNCHANGED <<file, want, phase, taken, header, count, walkVars>>

NoSlice ==
  /\ phase = "slices"
  /\ tried = Len(file.slices)
  /\ phase' = "failed"
  /\ UNCHANGED <<file, want, tried, taken, header, count, walkVars>>
-----------------------------------------------------------------------------
Command == Slice.commands[taken + 1]

Absorb(kind) ==
  /\ phase = "commands"
  /\ taken < Len(Slice.commands)
  /\ Command.kind = kind
  /\ taken' = taken + 1
  /\ UNCHANGED <<file, want, phase, tried, count, walkVars>>

(* Mutant: the first command of a kind decides. *)
TakeFirst ==
  \E kind \in LastWins :
    /\ Absorb(kind)
    /\ header' = IF header[kind] = None
                 THEN [header EXCEPT ![kind] = Command.value] ELSE header

TakeLast ==
  \E kind \in LastWins :
    Absorb(kind) /\ header' = [header EXCEPT ![kind] = Command.value]

(* The tool entries that lie in the file, up to ntools of them. *)
ToolsOf(command) ==
  SubSeq(command.tools, 1, IF command.ntools < Len(command.tools)
                           THEN command.ntools ELSE Len(command.tools))

TakeBuildVersion ==
  /\ Absorb("build")
  /\ header' = [header EXCEPT !.minOs = Command.version, !.sdk = Command.sdk,
                              !.tools = @ \o ToolsOf(Command)]

(* Mutant: a later LC_VERSION_MIN replaces what is there. *)
TakeVersionMinAlways ==
  /\ Absorb("min")
  /\ header' = [header EXCEPT
       !.minOs = Command.version,
       !.sdk = IF @ = None /\ Command.sdk # 0 THEN Command.sdk ELSE @]

TakeVersionMin ==
  /\ Absorb("min")
  /\ header' = [header EXCEPT
       !.minOs = IF @ = None THEN Command.version ELSE @,
       !.sdk = IF @ = None /\ Command.sdk # 0 THEN Command.sdk ELSE @]

(* A name that cannot be read leaves the field alone. *)
TakeDylinker ==
  /\ Absorb("dylinker")
  /\ header' = [header EXCEPT !.dylinker =
                  IF Command.value = None THEN @ ELSE Command.value]

TakeOther == Absorb("other") /\ UNCHANGED header

(* The iterator is empty when the command points outside the file or there *)
(* is no __TEXT.                                                           *)
BeginWalk ==
  /\ phase = "commands"
  /\ taken = Len(Slice.commands)
  /\ header.starts # None
  /\ IF header.starts.inFile /\ Slice.text # None
     THEN WalkFrom(header.starts.bytes, Slice.text) ELSE WalkNothing
  /\ phase' = "walk"
  /\ UNCHANGED <<file, want, tried, taken, header, count>>

NothingToWalk ==
  /\ phase = "commands"
  /\ taken = Len(Slice.commands)
  /\ header.starts = None
  /\ phase' = "done"
  /\ UNCHANGED <<file, want, tried, taken, header, count, walkVars>>

WalkStarts == phase = "walk" /\ Walk /\ UNCHANGED parseVars

Count ==
  /\ phase = "walk" /\ status # "walking"
  /\ count' = Len(starts)
  /\ phase' = "done"
  /\ UNCHANGED <<file, want, tried, taken, header, walkVars>>

Parsed == phase \in {"done", "failed"} /\ UNCHANGED vars

Work == \/ PickSlice \/ SkipSlice \/ NoSlice
        \/ TakeLast \/ TakeBuildVersion \/ TakeVersionMin \/ TakeDylinker \/ TakeOther
        \/ BeginWalk \/ NothingToWalk \/ WalkStarts \/ Count

Next == Work \/ Parsed

Spec == Init /\ [][Next]_vars /\ WF_vars(Work)
-----------------------------------------------------------------------------
(* parse "returns the first successfully decoded slice", parse_with_arch   *)
(* the first of them that matches with capability bits stripped; an error  *)
(* means that there is none.                                               *)
FirstMatchingSlice ==
  LET good == {k \in DOMAIN file.slices :
                 /\ file.slices[k].readable
                 /\ want # Any =>
                      /\ file.slices[k].type = want.type
                      /\ want.subtype # AnySubtype =>
                           (file.slices[k].subtype - want.subtype) % CapsUnit = 0}
  IN  /\ phase = "failed" => good = {}
      /\ phase \in {"commands", "walk", "done"} =>
           tried + 1 \in good /\ \A k \in good : tried + 1 <= k

CommandsOf(kinds) == {k \in 1..taken : Slice.commands[k].kind \in kinds}

LastOf(ks) == CHOOSE k \in ks : \A h \in ks : h <= k

FirstOf(ks) == CHOOSE k \in ks : \A h \in ks : k <= h

(* "LC_BUILD_VERSION wins over any LC_VERSION_MIN_*", in whatever order    *)
(* they come: minimum OS and SDK are then those of one and the same        *)
(* LC_BUILD_VERSION.  Without one, the first legacy command decides.       *)
BuildVersionWins ==
  phase \in {"commands", "walk", "done"} =>
    LET build  == CommandsOf({"build"})
        legacy == CommandsOf({"min"})
        cmd(k) == Slice.commands[k]
    IN  IF build # {}
        THEN \E k \in build : header.minOs = cmd(k).version /\ header.sdk = cmd(k).sdk
        ELSE IF legacy # {} THEN header.minOs = cmd(FirstOf(legacy)).version
        ELSE header.minOs = None /\ header.sdk = None

(* function_starts_count: "Returns None when the load command is absent";  *)
(* else it counts the addresses that the last such command encodes.        *)
CountsStarts ==
  phase = "done" =>
    LET cmds == CommandsOf({"starts"})
    IN  IF cmds = {} THEN count = None
        ELSE LET last == Slice.commands[LastOf(cmds)].value
             IN  IF last.inFile /\ Slice.text # None
                 THEN stream = last.bytes /\ text = Slice.text /\ count = Len(starts)
                 ELSE count = 0
=============================================================================
