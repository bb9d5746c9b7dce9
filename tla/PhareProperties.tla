-------------------------- MODULE PhareProperties ---------------------------
(***************************************************************************)
(* What the operator is for, stated over PhareReconciler.                  *)
(***************************************************************************)
EXTENDS PhareReconciler

-----------------------------------------------------------------------------
(* Vocabulary *)

\* The checksum that belongs to the ConfigMap in the API server.
LiveHash(p) == IF HasConfig(p.spec) /\ Exists("ConfigMap") THEN Live("ConfigMap").val ELSE None

\* Whether a specification asks for child k and for what: said without the builders.
AsksFor(spec, k) == IF k \in WorkloadKinds THEN spec.kind = k ELSE spec.want[k] # None

Asked(p, k) ==
    IF k \in WorkloadKinds THEN [val |-> p.spec.template, sum |-> LiveHash(p)]
                           ELSE [val |-> p.spec.want[k], sum |-> None]

\* Child k is what Phare p asks for.
AsDesired(k, p) == Exists(k) /\ [val |-> Live(k).val, sum |-> Live(k).sum] = Asked(p, k)

\* The operator has no child k; somebody else may.
NotOurs(k) == Exists(k) => Live(k).owner = Foreign

Buildable(p) == p.spec.template \notin BadTemplates

\* The cluster is as the live Phare asks, and its status says so; a Phare whose
\* workload cannot be built has the rest, and a status that says that.
ConvergedTo(p) ==
    /\ \A k \in OptionalKinds : IF AsksFor(p.spec, k) THEN AsDesired(k, p) ELSE NotOurs(k)
    /\ NotOurs(OtherWorkload(p.spec.kind))
    /\ IF Buildable(p)
       THEN AsDesired(p.spec.kind, p) /\ p.status = "Active"
       ELSE p.status = "build"

Converged ==
    IF Exists("Phare") THEN ConvergedTo(Live("Phare"))
                       ELSE \A k \in ChildKinds : NotOurs(k)

Drained == \A k \in Kinds : watch[k] = <<>>

\* Nothing is left that would make the operator or the garbage collector move.
Quiet == /\ ~Busy /\ ~queued
         /\ Drained
         /\ \A k \in ChildKinds : ~Orphaned(k)

-----------------------------------------------------------------------------
(* Safety *)

\* A snapshot of k is a past or the present state of k: the version it carries
\* was k's, and if it still is then so is the value.
Sound(k, snap) ==
    /\ snap.rv <= store[k].rv
    /\ snap.rv = store[k].rv => snap.val = store[k].val

\* Everything the operator has read, or is about to hear, is sound: what
\* resource versions are worth to reconcileConfigMap, reconcileService and updateStatus.
SnapshotsSound ==
    /\ \A k \in Kinds : Sound(k, cache[k])
    /\ \A k \in Kinds : \A i \in 1 .. Len(watch[k]) : Sound(k, watch[k][i])
    /\ Busy => Sound("Phare", ph)
    /\ req # None => Sound(req.kind, req.base)

\* An idle operator with nothing to hear has nothing to do: no event that the
\* predicates of SetupWithManager drop, no skipped write and no swallowed error
\* leaves a child or the status different from what the live Phare asks for.
NoLostWakeup == Quiet => Converged

-----------------------------------------------------------------------------
(* What a step may never do *)

\* The worker has sent the request it had pending, and object k has changed.
Effect(verb, k) == /\ req # None /\ req' = None
                   /\ req.verb = verb /\ req.kind = k
                   /\ store'[k] # store[k]

\* reconcileConfigMap and reconcileService replace the whole object, so they may
\* only ever replace the very object they have read: a change that somebody made
\* between the read from the cache and the Update is never overwritten unseen.
NoLostUpdate ==
    [][\A k \in ChildKinds : Effect("update", k) => req.base = store[k]]_vars

\* updateStatus writes Active only on the Phare it reconciled: the live object has
\* the very spec, labels and uid that reconcileResources worked from, to its end.
ActiveMeansCurrent ==
    [][(/\ Exists("Phare") /\ Live("Phare").status # "Active"
        /\ store'["Phare"].val # None /\ store'["Phare"].val.status = "Active")
       => /\ Busy /\ err = "none" /\ todo = {}
          /\ Live("Phare").spec = ph.val.spec
          /\ Live("Phare").uid = ph.val.uid]_vars

\* deleteIfOwned and deleteIfExists delete an object only when the Phare controls it.
DeletesOnlyOwned ==
    [][\A k \in ChildKinds \ {"ConfigMap", "Service"} :
          Effect("delete", k) => Live(k).owner = ph.val.uid]_vars

\* Every child is exactly what its builder makes of the live Phare, the worker has
\* seen everything, and what it holds is of this state.
AsBuilt(p) ==
    /\ \A k \in ChildKinds : IF AsksFor(p.spec, k)
                             THEN /\ AsDesired(k, p)
                                  /\ Live(k).owner = p.uid
                                  /\ Live(k).label = BuiltLabel(k, p.spec)
                             ELSE ~Exists(k)
    /\ p.status = "Active"

FixedPoint ==
    /\ Exists("Phare") /\ Buildable(Live("Phare"))
    /\ AsBuilt(Live("Phare"))
    /\ cache = store /\ Drained
    /\ req = None /\ err = "none"
    /\ Busy => ph = store["Phare"] /\ hash \in {None, LiveHash(ph.val)}
    /\ Busy /\ "build" \notin todo => hash = LiveHash(ph.val)

\* The reconcile loop is idempotent: from a cluster it has brought to the desired
\* state, further passes (a resync, a restart, a repeated event) change nothing,
\* and do not even send a request.
Idempotent == [][FixedPoint /\ UNCHANGED budget => FixedPoint']_vars

-----------------------------------------------------------------------------
(* Refinement *)

\* What the operator has heard and will hear of the Phare, and the live children.
Heard == <<cache["Phare"]>> \o watch["Phare"]
Children == [k \in ChildKinds |-> Live(k)]

\* The operator as a level-triggered controller, whose work is the pass under way.
LT == INSTANCE LevelTriggered
        WITH heard <- Heard, work <- ph, child <- Children, left <- budget.meddling

\* reconcileResources implements the level-triggered controller: with a stale cache,
\* blind patches, lost answers and restarts in between, every effect it has is one
\* that a controller working from a single state of the Phare could have.
ImplementsLevelTriggered == LT!Spec

-----------------------------------------------------------------------------
(* Liveness *)

\* Whatever users, others and failures did, the cluster ends up as the live Phare
\* asks (or without the Phare's children) and stays so; behaviours that hit the
\* bound on garbage collection are left out.
CollectionBoundHit == \E k \in ChildKinds : store[k].rv >= MaxRevision

EventuallySettles == <>[](Converged \/ CollectionBoundHit)
=============================================================================
