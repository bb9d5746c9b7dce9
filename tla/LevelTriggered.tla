--------------------------- MODULE LevelTriggered ---------------------------
(***************************************************************************)
(* What the operator promises, without caches of the children, pending     *)
(* requests, resource versions on the wire, verbs, queues or errors: a     *)
(* level-triggered controller.  It hears the states of the Phare in order, *)
(* works from one of them at a time, may at any moment of that work set    *)
(* any child to what that state asks for, or remove one it does not ask    *)
(* for, and may end the work with a status only if the Phare is still the  *)
(* one it worked from.  It never invents a field, never takes an object    *)
(* over from its owner, and never makes a child nobody asked for.          *)
(***************************************************************************)
EXTENDS PhareObjects, Sequences

CONSTANTS
    Meddling,    \* what others may do to a child: pairs <<verb, kind>>
    MaxMeddling  \* bound on that

VARIABLES
    heard,  \* the states of the Phare from the one the operator knows to the live one
    work,   \* the state being worked from, or None
    child,  \* the children, by kind
    left    \* how often others may still meddle: a step that leaves it alone is not theirs

vars == <<heard, work, child, left>>

Init ==
    /\ heard = <<[rv |-> 0, val |-> None]>>
    /\ work = None
    /\ child = [k \in ChildKinds |-> None]
    /\ left = MaxMeddling

Phare == heard[Len(heard)]

\* The Phare becomes v.
Becomes(v) == heard' = Append(heard, [rv |-> Phare.rv + 1, val |-> v])

-----------------------------------------------------------------------------
(* The users and the others *)

\* Users create the Phare without a status, change its specification, or delete it.
Ask ==
    /\ \/ Phare.val = None /\ \E s \in Specs : Becomes([uid |-> Phare.rv + 1, spec |-> s, status |-> ""])
       \/ Phare.val # None /\ \E s \in Specs : Becomes([Phare.val EXCEPT !.spec = s])
       \/ Phare.val # None /\ Becomes(None)
    /\ UNCHANGED <<work, child, left>>

\* A child whose owner is gone disappears.
Collect(k) ==
    /\ child[k] # None /\ child[k].owner # Foreign
    /\ Phare.val = None \/ child[k].owner # Phare.val.uid
    /\ child' = [child EXCEPT ![k] = None]
    /\ UNCHANGED <<heard, work, left>>

\* Others change the contents of a child, take its label off, delete it, or put one of
\* their own where there is none.
Meddle(verb, k) ==
    /\ <<verb, k>> \in Meddling
    /\ child[k] # None <=> verb # "plant"
    /\ left > 0 /\ left' = left - 1
    /\ \E v \in Values :
         child' = [child EXCEPT ![k] =
                     CASE verb = "edit"    -> [child[k] EXCEPT !.val = v]
                       [] verb = "unlabel" -> [child[k] EXCEPT !.label = FALSE]
                       [] verb = "delete"  -> None
                       [] verb = "plant"   -> [owner |-> Foreign, val |-> v, label |-> FALSE, sum |-> None]]
    /\ UNCHANGED <<heard, work>>

-----------------------------------------------------------------------------
(* The operator *)

\* The operator learns the next state of the Phare, never skipping back.
Hear ==
    /\ Len(heard) > 1
    /\ heard' = Tail(heard)
    /\ UNCHANGED <<work, child, left>>

\* A restart makes it learn the live state, and drop what it was doing.
Restart ==
    /\ heard' = <<Phare>>
    /\ work' = None
    /\ UNCHANGED <<child, left>>

Start ==
    /\ work = None
    /\ Head(heard).val # None
    /\ work' = Head(heard)
    /\ UNCHANGED <<heard, child, left>>

Stop == work' = None /\ UNCHANGED <<heard, child, left>>

\* The pods get a checksum if, and only if, the Phare has a config.
Checksums == IF HasConfig(work.val.spec) THEN Contents ELSE {None}

\* What a write may leave of child c, when want is asked for: every field is as it
\* was or as it is asked for, except that a policy may lose its label.
Between(k, c, want) ==
    [owner : {c.owner},
     val   : {c.val, want.val},
     label : {c.label, want.label} \cup (IF k \in PolicyKinds THEN {FALSE} ELSE {}),
     sum   : {c.sum, want.sum}]

\* A child is brought to what is asked for, or nearer to it.
Write(k) ==
    /\ work # None
    /\ Wanted(k, work.val.spec)
    /\ \E h \in Checksums :
         LET want == Desired(k, work.val, h)
         IN  IF child[k] = None
             THEN child' = [child EXCEPT ![k] = want]
             ELSE \E new \in Between(k, child[k], want) : child' = [child EXCEPT ![k] = new]
    /\ UNCHANGED <<heard, work, left>>

\* A child that is not asked for is removed.
Remove(k) ==
    /\ work # None
    /\ ~Wanted(k, work.val.spec)
    /\ child' = [child EXCEPT ![k] = None]
    /\ UNCHANGED <<heard, work, left>>

\* The work ends with a status on the very state it was done for.
Report ==
    /\ work # None
    /\ Phare = work
    /\ \E status \in Statuses : Becomes([work.val EXCEPT !.status = status])
    /\ work' = None
    /\ UNCHANGED <<child, left>>

Next ==
    \/ Ask \/ Hear \/ Restart \/ Start \/ Stop \/ Report
    \/ \E k \in ChildKinds : Collect(k) \/ Write(k) \/ Remove(k)
    \/ \E verb \in {"edit", "unlabel", "delete", "plant"}, k \in ChildKinds : Meddle(verb, k)

Spec == Init /\ [][Next]_vars
=============================================================================
