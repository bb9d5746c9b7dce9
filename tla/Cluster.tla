------------------------------ MODULE Cluster -------------------------------
(***************************************************************************)
(* What surrounds the reconciler: the API server with the objects of one   *)
(* Phare name, the informers that carry its events to the operator's       *)
(* cache, the work queue they fill through the predicates of               *)
(* SetupWithManager, the garbage collector, and the people and controllers *)
(* that change the same objects.                                           *)
(*                                                                         *)
(* The API server and the informers are libraries and services outside     *)
(* this repository, modelled as the code relies on them: every write that  *)
(* changes an object gives it a new resource version and one watch event;  *)
(* the events of one kind arrive in order, those of different kinds in any *)
(* order and arbitrarily late.                                             *)
(***************************************************************************)
EXTENDS PhareObjects, Sequences

CONSTANTS
    Meddling,     \* what others may do to a child: pairs <<verb, kind>>
    MaxEdits,     \* bound on the changes users make to a Phare
    MaxDeletes,   \* bound on the Phares users delete
    MaxMeddling,  \* bound on what others do to the children
    MaxFaults,    \* bound on failed API calls
    MaxCrashes,   \* bound on restarts of the operator
    MaxRevision   \* the garbage collector stops at an object this old

ASSUME BoundsAssumption ==
    /\ {MaxEdits, MaxDeletes, MaxMeddling, MaxFaults, MaxCrashes, MaxRevision} \subseteq Nat
    /\ Meddling \subseteq {"edit", "unlabel", "delete", "plant"} \X ChildKinds

VARIABLES
    store,   \* the objects in the API server
    watch,   \* per kind: the changes the informer has not delivered yet
    cache,   \* per kind: the object as the informer last saw it
    queued,  \* whether the Phare's name is in the work queue
    budget   \* how often the environment may still interfere

clusterVars == <<store, watch, cache, queued, budget>>

Budgets == [edits : Nat, deletes : Nat, meddling : Nat, faults : Nat, crashes : Nat]

ClusterTypeOK ==
    /\ \A k \in Kinds : /\ store[k] \in Snapshot(k)
                        /\ cache[k] \in Snapshot(k)
                        /\ watch[k] \in Seq(Snapshot(k))
    /\ DOMAIN store = Kinds /\ DOMAIN cache = Kinds /\ DOMAIN watch = Kinds
    /\ queued \in BOOLEAN
    /\ budget \in Budgets

Missing == [rv |-> 0, val |-> None]

ClusterInit ==
    /\ store = [k \in Kinds |-> Missing]
    /\ watch = [k \in Kinds |-> <<>>]
    /\ cache = [k \in Kinds |-> Missing]
    /\ queued = FALSE
    /\ budget = [edits |-> MaxEdits, deletes |-> MaxDeletes, meddling |-> MaxMeddling,
                 faults |-> MaxFaults, crashes |-> MaxCrashes]

Spend(what) == /\ budget[what] > 0
               /\ budget' = [budget EXCEPT ![what] = @ - 1]

Live(k) == store[k].val

Exists(k) == Live(k) # None

-----------------------------------------------------------------------------
(* The API server *)

\* A write: object k becomes v (None: it is deleted).  A write that changes
\* nothing gives no new version and no event.
Put(k, v) ==
    IF v = Live(k)
    THEN UNCHANGED <<store, watch>>
    ELSE LET new == [rv |-> store[k].rv + 1, val |-> v]
         IN  /\ store' = [store EXCEPT ![k] = new]
             /\ watch' = [watch EXCEPT ![k] = Append(@, new)]

LivePhareUid == IF Exists("Phare") THEN Live("Phare").uid ELSE Foreign

Orphaned(k) == /\ Exists(k)
               /\ Live(k).owner # Foreign
               /\ Live(k).owner # LivePhareUid

\* The garbage collector deletes a child whose owner is no longer there.
CollectGarbage(k) ==
    /\ k \in ChildKinds
    /\ Orphaned(k)
    /\ store[k].rv < MaxRevision
    /\ Put(k, None)
    /\ UNCHANGED <<cache, queued, budget>>

-----------------------------------------------------------------------------
(* Informers, predicates and the work queue *)

HasLabel(v) == v # None /\ v.label

\* Faulty: deletions do not pass.
LabelPredicateNoDelete(old, new) == new # None /\ (HasLabel(old) \/ HasLabel(new))

\* defaultLabelPredicate for a change from old to new (None: not there).
LabelPredicate(old, new) == HasLabel(old) \/ HasLabel(new)

\* Faulty: a new generation does not pass either.
StatefulSetPredicateMetadataOnly(old, new) ==
    \/ old = None \/ new = None
    \/ HasLabel(old) # HasLabel(new)

\* statefulSetUpdatePredicate: metadata changes of a StatefulSet pass only when
\* they add or remove the managed label; the generation counts changes of the spec.
StatefulSetPredicate(old, new) ==
    \/ old = None \/ new = None
    \/ HasLabel(old) # HasLabel(new)
    \/ <<old.val, old.sum>> # <<new.val, new.sum>>

\* Owns: an event is mapped to the Phare named in the controller owner reference.
NamesOwner(v) == v # None /\ v.owner # Foreign

\* Whether the change of object k enqueues the Phare.  For(&Phare{}) has no predicate.
Wakes(k, old, new) ==
    IF k = "Phare" THEN TRUE
    ELSE /\ NamesOwner(old) \/ NamesOwner(new)
         /\ LabelPredicate(old, new)
         /\ k = "StatefulSet" => StatefulSetPredicate(old, new)

\* The informer hands the next change of k to the cache and to the event handlers.
Deliver(k) ==
    /\ watch[k] # <<>>
    /\ LET event == Head(watch[k])
       IN  /\ cache' = [cache EXCEPT ![k] = event]
           /\ queued' = (queued \/ Wakes(k, cache[k].val, event.val))
    /\ watch' = [watch EXCEPT ![k] = Tail(@)]
    /\ UNCHANGED <<store, budget>>

\* A start of the operator lists every object and sends a create event for each.
Relist ==
    /\ cache' = store
    /\ watch' = [k \in Kinds |-> <<>>]
    /\ queued' = \E k \in Kinds : Exists(k) /\ Wakes(k, None, Live(k))

\* The informers' periodic resync replays the cache: hours apart, never relied on.
Resync ==
    /\ ~queued
    /\ \E k \in Kinds : cache[k].val # None /\ Wakes(k, cache[k].val, cache[k].val)
    /\ queued' = TRUE
    /\ UNCHANGED <<store, watch, cache, budget>>

-----------------------------------------------------------------------------
(* Users and others *)

CreatePhare ==
    /\ ~Exists("Phare")
    /\ \E s \in Specs : Put("Phare", [uid |-> store["Phare"].rv + 1, spec |-> s, status |-> ""])
    /\ UNCHANGED <<cache, queued, budget>>

\* Users write the spec and the metadata, never the status subresource.
EditPhare ==
    /\ Exists("Phare")
    /\ Spend("edits")
    /\ \E s \in Specs \ {Live("Phare").spec} : Put("Phare", [Live("Phare") EXCEPT !.spec = s])
    /\ UNCHANGED <<cache, queued>>

DeletePhare ==
    /\ Exists("Phare")
    /\ Spend("deletes")
    /\ Put("Phare", None)
    /\ UNCHANGED <<cache, queued>>

\* Somebody else changes, unlabels or deletes a child, or creates one by its name.
Meddle(verb, k) ==
    /\ <<verb, k>> \in Meddling
    /\ Exists(k) <=> verb # "plant"
    /\ Spend("meddling")
    /\ \E v \in Values :
         Put(k, CASE verb = "edit"    -> [Live(k) EXCEPT !.val = v]
                  [] verb = "unlabel" -> [Live(k) EXCEPT !.label = FALSE]
                  [] verb = "delete"  -> None
                  [] verb = "plant"   -> [owner |-> Foreign, val |-> v, label |-> FALSE, sum |-> None])
    /\ UNCHANGED <<cache, queued>>

Environment ==
    \/ CreatePhare \/ EditPhare \/ DeletePhare
    \/ Resync
    \/ \E k \in ChildKinds : CollectGarbage(k)
    \/ \E k \in Kinds : Deliver(k)
    \/ \E verb \in {"edit", "unlabel", "delete", "plant"}, k \in ChildKinds : Meddle(verb, k)
=============================================================================
