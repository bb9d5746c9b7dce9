---------------------------- MODULE ConfigChecksum ---------------------------
(***************************************************************************)
(* The two comparisons that decide what an edit of the configuration does: *)
(* isDataEqual, by which reconcileConfigMap updates the ConfigMap, and the *)
(* checksum of the ConfigMap, by which the pods are restarted.  Elsewhere  *)
(* the checksum is the contents itself; here it is the text that is        *)
(* hashed.  (That the hash of different texts differs is taken as given.)  *)
(*                                                                         *)
(* A value is a sequence of tokens, among them Newline and what may also   *)
(* be read as a key or as the sign that follows it.                        *)
(***************************************************************************)
EXTENDS Integers, Sequences, SequencesExt, FiniteSetsExt

CONSTANTS
    Tokens,    \* what keys and values are made of
    Keys,      \* the keys in the order in which they are sorted
    Wanted,    \* the data that users may ask for: from keys to sequences of tokens
    Newline    \* the token that ends a line

Equals == "="

\* No key is there twice, and data have keys of these and sequences of tokens as values.
ASSUME ConfigAssumption ==
    /\ Keys \in Seq(Tokens) /\ Equals \in Tokens /\ Newline \in Tokens
    /\ \A m, n \in DOMAIN Keys : Keys[m] = Keys[n] => m = n
    /\ \A d \in Wanted : d \in [DOMAIN d -> Seq(Tokens)] /\ DOMAIN d \subseteq ToSet(Keys)

VARIABLES
    wanted,    \* the data that the Phare asks for
    data,      \* the data of the ConfigMap
    stamped,   \* the text whose checksum is on the pod template
    running    \* the data with which the pods were started

checksumVars == <<wanted, data, stamped, running>>

-----------------------------------------------------------------------------
\* Same number of keys, and every key of the first in the second with its value.
IsDataEqual(map1, map2) ==
    /\ Cardinality(DOMAIN map1) = Cardinality(DOMAIN map2)
    /\ \A k \in DOMAIN map1 : k \in DOMAIN map2 /\ map1[k] = map2[k]

\* Faulty: nothing ends a pair.
HashedTextUnended(map) ==
    FlattenSeq([n \in DOMAIN Keys |->
        IF Keys[n] \in DOMAIN map THEN <<Keys[n], Equals>> \o map[Keys[n]] ELSE <<>>])

\* The data as "key=value\n" pairs, by key.
HashedText(map) ==
    FlattenSeq([n \in DOMAIN Keys |->
        IF Keys[n] \in DOMAIN map THEN <<Keys[n], Equals>> \o map[Keys[n]] \o <<Newline>> ELSE <<>>])

-----------------------------------------------------------------------------
ChecksumInit ==
    /\ wanted \in Wanted
    /\ data = wanted
    /\ stamped = HashedText(data)
    /\ running = data

\* The user edits the configuration.
EditConfig ==
    /\ \E d \in Wanted \ {wanted} : wanted' = d
    /\ UNCHANGED <<data, stamped, running>>

\* A pass in which nothing fails: reconcileConfigMap copies the data when it is not
\* equal, and the workload gets the checksum of what is then stored; another one
\* restarts its pods.
Pass ==
    /\ data' = IF IsDataEqual(data, wanted) THEN data ELSE wanted
    /\ stamped' = HashedText(data')
    /\ running' = IF stamped' # stamped THEN data' ELSE running
    /\ UNCHANGED wanted

ChecksumNext == EditConfig \/ Pass

ChecksumSpec == ChecksumInit /\ [][ChecksumNext]_checksumVars

-----------------------------------------------------------------------------
SingleLine(map) == \A k \in DOMAIN map : Newline \notin ToSet(map[k])

\* With values of one line, after a pass the pods run with the data that the Phare
\* asks for, whatever keys the edits before it added, dropped or renamed and whatever
\* text they moved from one value to another: a change that is one for isDataEqual is
\* one for the checksum.
PassDeliversEdits ==
    [][(Pass /\ SingleLine(wanted) /\ SingleLine(running)) => running' = wanted]_checksumVars
=============================================================================
