----------------------------- MODULE MCLibrary -------------------------------
(* Inputs for one run of the parts that are algorithms: YamlDiff, YamlValidator and
   ConfigChecksum, each on its own variables, one of them per behaviour. *)
EXTENDS YamlDump, YamlValidator, ConfigChecksum

VARIABLE task    \* the part that is tried in this behaviour

-----------------------------------------------------------------------------
(* Documents of the diff. *)

YamlKeys == {"a", "b"}

int(n) == [kind |-> "leaf", type |-> "int", text |-> <<n>>]
no == [kind |-> "leaf", type |-> "bool", text |-> <<"f", "a", "l", "s", "e">>]
str(s) == [kind |-> "leaf", type |-> "string", text |-> s]
map(entries) == [kind |-> "map", entries |-> [i \in DOMAIN entries |->
                    [key |-> entries[i][1], value |-> entries[i][2]]]]
arr(items) == [kind |-> "array", items |-> items]
nil == [kind |-> "nil"]

OneTwo == map(<< <<"a", int("1")>>, <<"b", int("2")>> >>)
TwoOne == map(<< <<"b", int("2")>>, <<"a", int("1")>> >>)
JustA == map(<< <<"a", int("1")>> >>)
Deep(x, y) == map(<< <<"a", arr(<<x, y, arr(<<int("3")>>)>>)>>, <<"b", map(<<>>)>> >>)
Values ==
    {nil, int("1"), str(<<"1">>), str(<<"1", "2">>), OneTwo, TwoOne, JustA,
     map(<< <<"a", nil>> >>), map(<< <<"a", int("1")>>, <<"b", nil>> >>),
     map(<< <<"a", OneTwo>> >>), map(<< <<"a", int("0")>>, <<"b", arr(<<>>)>> >>),
     arr(<<int("1"), int("2")>>), arr(<<int("2"), int("1")>>),
     arr(<<int("2"), int("3"), OneTwo>>), arr(<<JustA, int("1")>>),
     Deep(OneTwo, int("1")), Deep(int("1"), TwoOne), Deep(JustA, int("2"))}

\* Integer keys, elements twice, empty and zero values.
Irregular ==
    {map(<< <<"1", int("1")>>, <<"2", int("2")>> >>), arr(<<int("1"), int("1")>>),
     map(<< <<"a", no>>, <<"b", str(<<>>)>> >>),
     arr(<<map(<<>>), map(<< <<"a", nil>> >>)>>), map(<< <<"a", map(<<>>)>>, <<"b", int("0")>> >>)}

Several == {int("1"), str(<<"1">>), OneTwo, TwoOne, nil}

Call(a, b, opt) == [rawA |-> a, rawB |-> b, option |-> opt]

DiffInputs ==
    {Call(<<a>>, <<b>>, {}) : a \in Values, b \in Values}
        \cup {Call(<<a>>, <<b>>, o) : a \in Irregular, b \in Irregular, o \in SUBSET Options}
        \cup {Call(<<a, b>>, <<c, d>>, {}) : a \in Several, b \in Several, c \in Several, d \in Several}
        \cup {Call(<<a, b, OneTwo>>, <<c>>, {}) : a \in Several, b \in Several, c \in Several}

\* All their parts, and how deep they are.
RECURSIVE PartsWithin(_), DepthOf(_)
PartsWithin(v) == {v} \cup UNION {PartsWithin(w) : w \in ToSet(Parts(v))}
DepthOf(v) == Max({0} \cup {1 + DepthOf(w) : w \in ToSet(Parts(v))})

DiffValues == UNION {PartsWithin(v) : v \in Values \cup Irregular \cup Several}
DiffDepth == [v \in DiffValues |-> DepthOf(v)]

-----------------------------------------------------------------------------
(* Documents of the validator: up to two fields, one level below them, and lists. *)

V0 == {[kind |-> "blank"], [kind |-> "scalar", value |-> "x"], [kind |-> "scalar", value |-> "y"]}
MapOf(fields) == [kind |-> "map", fields |-> fields]
MapsOf(values) == {MapOf(f) : f \in UNION {[S -> values] : S \in SUBSET {"k", "l"}}}
ListOf(items) == [kind |-> "list", items |-> items]
Inner == {MapOf(f) : f \in UNION {[S -> V0] : S \in SUBSET {"k"}}} \cup {MapOf([l |-> [kind |-> "scalar", value |-> "x"]])}
Lists == {ListOf(<<>>)} \cup {ListOf(<<v>>) : v \in V0 \cup Inner}
             \cup {ListOf(<<v, [kind |-> "scalar", value |-> "x"]>>) : v \in Inner}
ValidatorDocuments ==
    {[kind |-> "malformed"], [kind |-> "null"]} \cup MapsOf(V0)
        \cup {MapOf([k |-> v]) : v \in Inner \cup Lists}
        \cup {MapOf([k |-> v, l |-> [kind |-> "blank"]]) : v \in Inner}
        \cup {MapOf([k |-> MapOf([l |-> v])]) : v \in Lists}

\* All their parts, also with less in them; and how deep they are.
RECURSIVE Fewer(_), WithinDocument(_), HeightOf(_)
Fewer(v) ==
    IF v.kind # "map" THEN {v}
    ELSE {MapOf(f) : f \in UNION {{g \in [S -> UNION {Fewer(v.fields[k]) : k \in S}] :
              \A k \in S : g[k] \in Fewer(v.fields[k])} : S \in SUBSET DOMAIN v.fields}}
Within(v) ==
    CASE v.kind = "map" -> {v.fields[k] : k \in DOMAIN v.fields}
      [] v.kind = "list" -> ToSet(v.items)
      [] OTHER -> {}
WithinDocument(v) == {v} \cup UNION {WithinDocument(w) : w \in Within(v)}
HeightOf(v) == Max({0} \cup {1 + HeightOf(w) : w \in Within(v)})

ValidatorValues ==
    UNION {Fewer(v) : v \in UNION {WithinDocument(w) : w \in ValidatorDocuments}}
        \ {[kind |-> "malformed"]}
ValidatorHeight == [v \in ValidatorValues |-> HeightOf(v)]

-----------------------------------------------------------------------------
(* Data of a ConfigMap with two keys; values also read like an entry of the other. *)

Line == {<<>>, <<"v">>, <<"b", "=", "v">>, <<"=">>}
DataKeys == <<"a", "b">>
DataTokens == {"a", "b", "=", "v", Newline}
Configs == UNION {[S -> Line \cup {<<"v", Newline, "b", "=", "v">>}] : S \in SUBSET {"a", "b"}}

-----------------------------------------------------------------------------
NoValidation == desired = [kind |-> "null"] /\ current = desired /\ verdict = TRUE
NoConfig == wanted = <<>> /\ data = wanted /\ stamped = <<>> /\ running = wanted

Idle ==
    /\ rawA = <<>> /\ rawB = <<>> /\ option = {} /\ phase = "done"
    /\ diffs = {} /\ picked = {} /\ shown = <<>> /\ dump = <<>>

LibraryInit ==
    \/ task = "diff" /\ DumpInit /\ NoValidation /\ NoConfig
    \/ task = "validate" /\ ValidatorInit /\ Idle /\ NoConfig
    \/ task = "checksum" /\ ChecksumInit /\ Idle /\ NoValidation

LibraryNext ==
    /\ \/ task = "diff" /\ DumpNext /\ UNCHANGED <<validatorVars, checksumVars>>
       \/ task = "validate" /\ ValidatorNext /\ UNCHANGED <<dumpVars, checksumVars>>
       \/ task = "checksum" /\ ChecksumNext /\ UNCHANGED <<dumpVars, validatorVars>>
    /\ UNCHANGED task

LibrarySpec ==
    LibraryInit /\ [][LibraryNext]_<<dumpVars, validatorVars, checksumVars, task>>
=============================================================================
