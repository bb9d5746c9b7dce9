------------------------------ MODULE YamlDump -------------------------------
(***************************************************************************)
(* pkg/yamldiff: what is printed of the diffs that YamlDiff finds.         *)
(*                                                                         *)
(* A dump is the sequence of its data lines, each with its sign and the    *)
(* path that leads to it; the headings between them, indentation, the tree *)
(* levels that only serve it, and colours are left out.                    *)
(***************************************************************************)
EXTENDS YamlDiff

VARIABLE dump    \* the lines that are printed

dumpVars == <<diffVars, dump>>

-----------------------------------------------------------------------------
RECURSIVE DumpData(_, _, _)
DumpData(sign, path, v) ==
    CASE v.kind = "map" -> FlattenSeq([i \in DOMAIN v.entries |-> DumpData(sign,
             Append(path, IF v.entries[i].key \in StringKeys THEN v.entries[i].key ELSE ""),
             v.entries[i].value)])
      [] v.kind = "array" -> FlattenSeq([i \in DOMAIN v.items |->
             DumpData(sign, Append(path, "-"), v.items[i])])
      [] OTHER -> <<[sign |-> sign, path |-> path, datum |-> v]>>

\* Faulty: what A lacks is printed as removed.
DumpPlainSwapped(d, path) ==
    CASE d.status = "Same" -> DumpData(" ", path, d.a)
      [] d.status = "Diff" -> DumpData("-", path, d.a) \o DumpData("+", path, d.b)
      [] OTHER -> DumpData("-", path, IF d.a = Nil THEN d.b ELSE d.a)

\* Inside a collection both sides of a difference are printed, also one that is nil.
DumpPlain(d, path) ==
    CASE d.status = "Same" -> DumpData(" ", path, d.a)
      [] d.status = "Diff" -> DumpData("-", path, d.a) \o DumpData("+", path, d.b)
      [] d.status = "1Missing" -> DumpData("+", path, d.b)
      [] d.status = "2Missing" -> DumpData("-", path, d.a)

\* The children of a map come in some order (that of A, then that of B).
RECURSIVE DumpBelow(_, _)
DumpBelow(d, path) ==
    CASE d.kind = "array" -> FlattenSeq([n \in DOMAIN d.children |->
             DumpBelow(d.children[n], Append(path, "-"))])
      [] d.kind = "map" -> LET keys == SetToSeq(DOMAIN d.children) IN
             FlattenSeq([n \in DOMAIN keys |->
                 DumpBelow(d.children[keys[n]], Append(path, keys[n]))])
      [] OTHER -> DumpPlain(d, path)

Dump(d) ==
    IF d.kind = "plain" /\ d.status = "Diff"
    THEN (IF d.a # Nil THEN DumpData("-", <<>>, d.a) ELSE <<>>)
         \o (IF d.b # Nil THEN DumpData("+", <<>>, d.b) ELSE <<>>)
    ELSE DumpBelow(d, <<>>)

-----------------------------------------------------------------------------
DumpInit == DiffInit /\ dump = <<>>

DumpResult ==
    /\ phase = "print"
    /\ phase' = "done"
    /\ dump' = FlattenSeq([n \in DOMAIN shown |-> Dump(shown[n].d)])
    /\ UNCHANGED <<rawA, rawB, option, diffs, picked, shown>>

DumpNext == (DiffNext /\ UNCHANGED dump) \/ DumpResult

DumpSpec == DumpInit /\ [][DumpNext]_dumpVars

-----------------------------------------------------------------------------
\* The lines of one side: those without a sign and those with its own.
LinesOf(sign) ==
    LET lines == SelectSeq(dump, LAMBDA l : l.sign \in {" ", sign} /\ l.datum # Nil)
    IN  ToBag([n \in DOMAIN lines |-> <<lines[n].path, lines[n].datum>>])

DataOf(documents) ==
    LET data == FlattenSeq([i \in DOMAIN documents |-> DumpData(" ", <<>>, documents[i])])
        lines == SelectSeq(data, LAMBDA l : l.datum # Nil)
    IN  ToBag([n \in DOMAIN lines |-> <<lines[n].path, lines[n].datum>>])

\* The dump is a patch: without the added lines it has every datum of A at its path,
\* as often as A has it, and without the removed lines those of B, however the
\* elements of arrays were paired.
DumpIsPatch ==
    (phase = "done" /\ RegularInput) =>
        LinesOf("-") = DataOf(rawA) /\ LinesOf("+") = DataOf(rawB)
=============================================================================
