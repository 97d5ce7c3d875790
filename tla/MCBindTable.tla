----------------------------- MODULE MCBindTable -----------------------------
(***************************************************************************)
(* Small files for BindTable: ordinals of 2 and 3 bits, two libraries, two *)
(* symbols.                                                                *)
(***************************************************************************)
EXTENDS BindTable, SequencesExt

Cmd(kind, name) == [kind |-> kind, name |-> name]

Commands == {Cmd("IdDylib", "libA"), Cmd("LoadDylib", "libA"),
             Cmd("LoadWeakDylib", "libB"), Cmd("ReexportDylib", Blank),
             Cmd("LoadUpwardDylib", Unreadable)}

Bound(ordinal, va) == [ordinal |-> ordinal, addend |-> 1, va |-> va, file |-> 0]

Entry(lib, name) ==
  [lib |-> lib, weak |-> name = "f", name |-> name, addend |-> MaxAddend]

Old(va) == [name |-> "g", dylib |-> "weak", weak |-> FALSE, lazy |-> TRUE,
            addend |-> 0, va |-> va, file |-> 0]

(* Every list of up to three load commands, every ordinal of either width, *)
(* against a table that may be shorter than its count.                     *)
BindFiles ==
  {[commands |-> commands, format |-> format, count |-> count,
    entries |-> <<Entry(lib, "f"), Entry(1, name)>>, inPayload |-> 1,
    slots |-> <<Bound(0, 10), Bound(1, 11), Bound(2, 12)>>,
    legacy |-> legacy] :
     commands \in SeqOf(Commands, 3),
     format \in {"Plain", "Addend64", "Other"},
     count \in {1, 3},
     lib \in 0 .. (2 * LongHalf - 1),
     name \in {"g", Unreadable},
     legacy \in {<<>>, <<Old(8), Old(9)>>}}
==============================================================================
