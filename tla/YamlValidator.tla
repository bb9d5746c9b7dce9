---------------------------- MODULE YamlValidator ----------------------------
(***************************************************************************)
(* pkg/validator: is what is desired in what exists?  Both documents are   *)
(* stripped of empty values, what exists is stripped of what is not        *)
(* desired, and the two are compared.                                      *)
(*                                                                         *)
(* A document is Malformed, Null (an empty document, which leaves the map  *)
(* nil) or a map; a value is a map, a list, Blank ("", 0 or null) or       *)
(* another leaf.                                                           *)
(***************************************************************************)
EXTENDS Integers, Sequences

CONSTANTS
    Desired,     \* the documents that may be desired
    Current,     \* the documents that may exist
    YamlValues,  \* the values that are met: maps, lists, and what is in them
    Height,      \* how deep each of them is nested
    Highest,     \* and at most
    Pending      \* the verdict that is not there yet

VARIABLES
    desired,   \* the desired document
    current,   \* the document that exists
    verdict    \* what ValidateYaml says of them

validatorVars == <<desired, current, verdict>>

Malformed == [kind |-> "malformed"]
Null == [kind |-> "null"]
Blank == [kind |-> "blank"]
List(items) == [kind |-> "list", items |-> items]
Map(fields) == [kind |-> "map", fields |-> fields]

IsMap(v) == v.kind = "map"
IsList(v) == v.kind = "list"
IsEmptyMap(v) == IsMap(v) /\ DOMAIN v.fields = {}
YamlMaps == {v \in YamlValues : IsMap(v)}

-----------------------------------------------------------------------------
(* The two passes and the comparison. *)

\* Faulty: the maps below are not filtered.
FilterTopFields(v) ==
    IF ~IsMap(v) THEN v
    ELSE LET kept == {k \in DOMAIN v.fields : v.fields[k] # Blank /\ ~IsEmptyMap(v.fields[k])}
         IN  Map([k \in kept |-> v.fields[k]])

\* Maps that become empty go too; lists are not looked into.
FilterFrom(filter, v) ==
    IF ~IsMap(v) THEN v
    ELSE LET kept == {k \in DOMAIN v.fields :
                         filter[v.fields[k]] # Blank /\ ~IsEmptyMap(filter[v.fields[k]])}
         IN  Map([k \in kept |-> filter[v.fields[k]]])

FilterEmptyFields(v) ==
    LET filter[w \in YamlValues] == FilterFrom(filter, w)
    IN  filter[v]

\* What becomes of one value, and whether its field is deleted.
CleanValue(clean, v, ref) ==
    CASE IsMap(v) /\ IsMap(ref) -> clean[v][ref]
      [] IsList(v) /\ IsList(ref) -> List([i \in DOMAIN v.items |->
             IF i \in DOMAIN ref.items /\ IsMap(v.items[i]) /\ IsMap(ref.items[i])
             THEN clean[v.items[i]][ref.items[i]] ELSE v.items[i]])
      [] OTHER -> v
Gone(clean, v, ref) ==
    /\ IsMap(v)
    /\ IsMap(ref) => (IsEmptyMap(CleanValue(clean, v, ref)) /\ ~IsEmptyMap(ref))

CleanFrom(clean, base, reference) ==
    LET shared == DOMAIN base.fields \cap DOMAIN reference.fields
        kept == {k \in shared : ~Gone(clean, base.fields[k], reference.fields[k])}
    IN  Map([k \in kept |-> CleanValue(clean, base.fields[k], reference.fields[k])])

CleanMapBasedOnAnother(base, reference) ==
    LET clean[v \in YamlMaps] == [ref \in YamlMaps |-> CleanFrom(clean, v, ref)]
    IN  clean[base][reference]

\* A nil map has nothing to clean, and as a reference no key.
Cleaned(base, reference) ==
    IF base = Null THEN Null
    ELSE CleanMapBasedOnAnother(base, IF reference = Null THEN Map(<<>>) ELSE reference)

\* A nil map is not deeply equal to an empty one.
Verdict(want, have) ==
    /\ Malformed \notin {want, have}
    /\ LET filtered == FilterEmptyFields(want)
       IN  Cleaned(FilterEmptyFields(have), filtered) = filtered

\* Values are finite trees of these kinds, and what filtering leaves of one is one.
ASSUME ValidatorAssumption ==
    /\ Highest \in Nat /\ Height \in [YamlValues -> 0 .. Highest]
    /\ Null \in YamlValues /\ Map(<<>>) \in YamlValues
    /\ \A v \in YamlValues :
           /\ v.kind \in {"null", "blank", "scalar", "map", "list"}
           /\ IsMap(v) => /\ v = Map(v.fields)
                          /\ v.fields \in [DOMAIN v.fields -> YamlValues]
                          /\ \A k \in DOMAIN v.fields : Height[v.fields[k]] < Height[v]
           /\ IsList(v) => /\ v = List(v.items)
                           /\ v.items \in Seq(YamlValues)
                           /\ \A i \in DOMAIN v.items : Height[v.items[i]] < Height[v]
           /\ FilterEmptyFields(v) \in YamlValues
    /\ \A document \in Desired \cup Current :
           \/ document \in {Malformed, Null}
           \/ document \in YamlValues /\ IsMap(document)
    /\ Pending \notin BOOLEAN

-----------------------------------------------------------------------------
(* A call. *)

ValidatorInit ==
    /\ desired \in Desired
    /\ current \in Current
    /\ verdict = Pending

ValidateYaml ==
    /\ verdict = Pending
    /\ verdict' = Verdict(desired, current)
    /\ UNCHANGED <<desired, current>>

ValidatorNext == ValidateYaml

ValidatorSpec == ValidatorInit /\ [][ValidatorNext]_validatorVars

-----------------------------------------------------------------------------
(* What the verdict means. *)

\* Nothing is left of it when the empty values are taken out.
Vanishes[v \in YamlValues] ==
    v = Blank \/ (IsMap(v) /\ \A k \in DOMAIN v.fields : Vanishes[v.fields[k]])

\* What is desired is in what exists.  Outside lists a desired value that vanishes is
\* met by anything; in lists, whose elements are matched one to one, none does.
HasFrom(has, have, want, inList) ==
    CASE IsMap(want) /\ IsMap(have) ->
             \A k \in DOMAIN want.fields :
                 \/ ~inList /\ Vanishes[want.fields[k]]
                 \/ k \in DOMAIN have.fields /\ has[have.fields[k]][want.fields[k]][inList]
      [] IsList(want) /\ IsList(have) ->
             /\ Len(want.items) = Len(have.items)
             /\ \A i \in DOMAIN want.items :
                    IF IsMap(want.items[i]) THEN has[have.items[i]][want.items[i]][TRUE]
                    ELSE have.items[i] = want.items[i]
      [] OTHER -> have = want

Has[have \in YamlValues] ==
    [want \in YamlValues |-> [inList \in BOOLEAN |-> HasFrom(Has, have, want, inList)]]

\* The verdict is positive exactly when everything that is desired and not empty exists
\* with that value: neither of the two passes, which change both documents in place,
\* takes out a field that the comparison needs, and nothing that exists beyond what is
\* desired, at any depth, makes it negative.  (An empty desired document, whose map is
\* nil, is met by an empty one only.)
VerdictMeansHas ==
    verdict # Pending =>
        (verdict = TRUE <=>
            CASE Malformed \in {desired, current} -> FALSE
              [] Null \in {desired, current} -> desired = current
              [] OTHER -> Has[current][desired][FALSE])
=============================================================================
