-------------------------- MODULE PhareReconciler ---------------------------
(***************************************************************************)
(* The reconciler of the Phare operator (controllers/): one worker takes   *)
(* the Phare's name from the work queue, copies the Phare from the cache,  *)
(* visits its children in a fixed order and reports a status.  Every API   *)
(* call is a step of its own, so that everything around the operator may   *)
(* happen between a read and the write it leads to.                        *)
(***************************************************************************)
EXTENDS Cluster

CONSTANT Scope  \* optional children of this instance; all others are never there

ASSUME ScopeAssumption ==
    /\ Scope \subseteq OptionalKinds
    /\ \A s \in Specs, k \in OptionalKinds \ Scope : s.want[k] = None
    /\ \A k \in OptionalKinds \ Scope, verb \in {"edit", "unlabel", "delete", "plant"} :
          <<verb, k>> \notin Meddling

VARIABLES
    ph,    \* the snapshot of the Phare being reconciled, or None
    todo,  \* the steps of reconcileResources still to do
    req,   \* the write about to be sent and the read it was decided on, or None
    hash,  \* the ConfigMap checksum for the pod template
    err    \* the error that ended reconcileResources, or "none"

ctlVars == <<ph, todo, req, hash, err>>

vars == <<clusterVars, ctlVars>>

\* The steps, by their place in reconcileResources and reconcileMicroService:
\* "stale" removes the workload of the other kind, "build" makes the desired
\* workload and its checksum, "workload" reconciles it.
Place == [ConfigMap |-> 1, Service |-> 2, HTTPRoute |-> 3, GCPBackendPolicy |-> 4,
          HealthCheckPolicy |-> 5, stale |-> 6, build |-> 7, workload |-> 8]

Steps == DOMAIN Place

Request == [verb : {"create", "update", "patch", "delete"},
            kind : ChildKinds,
            base : [rv : Nat, val : ChildObject \cup {None}]]

TypeOK ==
    /\ ClusterTypeOK
    /\ ph \in Snapshot("Phare") \cup {None}
    /\ todo \subseteq Steps
    /\ req \in Request \cup {None}
    /\ hash \in Contents \cup {None}
    /\ err \in Errors \cup {"none"}

Init ==
    /\ ClusterInit
    /\ ph = None /\ todo = {} /\ req = None /\ hash = None /\ err = "none"

Busy == ph # None

\* The step the reconciler is at: the first one left.
At(s) == /\ Busy /\ err = "none"
         /\ s \in todo
         /\ \A t \in todo : Place[s] <= Place[t]

\* The object a step is about.
Target(s) == CASE s = "stale"    -> OtherWorkload(ph.val.spec.kind)
               [] s = "workload" -> ph.val.spec.kind
               [] OTHER          -> s

\* Typed objects are read from the cache, unstructured ones from the API server.
Read(k) == IF k \in PolicyKinds THEN store[k] ELSE cache[k]

\* Faulty: the write is not preceded by a comparison.
DecideWithoutDiff(k, child) ==
    IF Wanted(k, ph.val.spec)
    THEN IF child = None THEN "create" ELSE ModifyVerb(k)
    ELSE IF child # None /\ MayDelete(k, child, ph.val) THEN "delete" ELSE "none"

\* What a reconciler does about the child it has just read.
Decide(k, child) ==
    LET want == Desired(k, ph.val, hash)
    IN  IF Wanted(k, ph.val.spec)
        THEN CASE child = None                    -> "create"
               [] child # None /\ Merged(k, child, want) # child -> ModifyVerb(k)
               [] OTHER                           -> "none"
        ELSE IF child # None /\ MayDelete(k, child, ph.val) THEN "delete" ELSE "none"

-----------------------------------------------------------------------------
(* Steps of the worker *)

StepDone(s) == todo' = todo \ {s} /\ req' = None /\ UNCHANGED <<ph, hash, err>>

FailWith(e) == err' = e /\ req' = None /\ UNCHANGED <<ph, todo, hash>>

\* The worker takes the name and copies the Phare; one that is gone needs nothing.
Fetch ==
    /\ ~Busy
    /\ queued
    /\ queued' = FALSE
    /\ IF cache["Phare"].val = None
       THEN UNCHANGED <<ph, todo>>
       ELSE ph' = cache["Phare"] /\ todo' = Scope \cup {"stale", "build", "workload"}
    /\ UNCHANGED <<store, watch, cache, budget, req, hash, err>>

\* Faulty: the version of the object now is put on the object that was read.
GetFreshVersion(s) ==
    /\ At(s) /\ s # "build"
    /\ req = None
    /\ LET k == Target(s)
           verb == Decide(k, Read(k).val)
       IN  IF verb = "none"
           THEN StepDone(s)
           ELSE /\ req' = [verb |-> verb, kind |-> k,
                           base |-> [rv |-> store[k].rv, val |-> Read(k).val]]
                /\ UNCHANGED <<ph, todo, hash, err>>
    /\ UNCHANGED clusterVars

\* A step reads its object and decides what to do about it.
Get(s) ==
    /\ At(s) /\ s # "build"
    /\ req = None
    /\ LET k == Target(s)
           verb == Decide(k, Read(k).val)
       IN  IF verb = "none"
           THEN StepDone(s)
           ELSE /\ req' = [verb |-> verb, kind |-> k, base |-> Read(k)]
                /\ UNCHANGED <<ph, todo, hash, err>>
    /\ UNCHANGED clusterVars

\* Only reads that go to the API server can fail.
GetFails(s) ==
    /\ At(s) /\ s \in PolicyKinds
    /\ req = None
    /\ Spend("faults")
    /\ FailWith("api")
    /\ UNCHANGED <<store, watch, cache, queued>>

\* Faulty: a ConfigMap that is not in the cache yet is taken for one without data.
BuildWithoutConfigMap ==
    /\ At("build")
    /\ LET spec == ph.val.spec
           configMap == cache["ConfigMap"].val
       IN  CASE spec.template \in BadTemplates -> FailWith("build")
             [] OTHER -> /\ hash' = IF HasConfig(spec) /\ configMap # None THEN configMap.val ELSE None
                         /\ todo' = todo \ {"build"}
                         /\ UNCHANGED <<ph, req, err>>
    /\ UNCHANGED clusterVars

\* The desired workload is built; its checksum is that of the ConfigMap in the cache.
Build ==
    /\ At("build")
    /\ LET spec == ph.val.spec
           configMap == cache["ConfigMap"].val
       IN  CASE spec.template \in BadTemplates -> FailWith("build")
             [] spec.template \notin BadTemplates /\ HasConfig(spec) /\ configMap = None -> FailWith("hash")
             [] OTHER -> /\ hash' = IF HasConfig(spec) THEN configMap.val ELSE None
                         /\ todo' = todo \ {"build"}
                         /\ UNCHANGED <<ph, req, err>>
    /\ UNCHANGED clusterVars

(***************************************************************************)
(* An API call.  When the server accepts it object req.kind becomes v, and *)
(* the answer may still get lost; when it refuses, the reconciler fails    *)
(* with the refusal, unless that is "none": tolerated.  Or the call fails  *)
(* before it reaches the server.                                           *)
(***************************************************************************)
Call(s, verb, accepts, v, refusal) ==
    /\ At(s) /\ req # None /\ req.verb = verb
    /\ \/ /\ accepts
          /\ Put(req.kind, v)
          /\ \/ StepDone(s) /\ UNCHANGED budget
             \/ FailWith("api") /\ Spend("faults")
       \/ /\ ~accepts
          /\ IF refusal = "none" THEN StepDone(s) ELSE FailWith(refusal)
          /\ UNCHANGED <<store, watch, budget>>
       \/ /\ FailWith("api") /\ Spend("faults")
          /\ UNCHANGED <<store, watch>>
    /\ UNCHANGED <<cache, queued>>

Create(s) ==
    Call(s, "create", ~Exists(req.kind), Desired(req.kind, ph.val, hash), "exists")

\* Faulty: an update without a resource version.
UpdateUnconditional(s) ==
    Call(s, "update", Exists(req.kind),
         Merged(req.kind, req.base.val, Desired(req.kind, ph.val, hash)),
         "notfound")

\* Faulty: the Phare is read again when the child is updated.
UpdateOfNewer(s) ==
    Call(s, "update",
         Exists(req.kind) /\ store[req.kind].rv = req.base.rv,
         Merged(req.kind, req.base.val, Desired(req.kind, cache["Phare"].val, hash)),
         "notfound")

\* Update carries the resource version that was read.
Update(s) ==
    Call(s, "update",
         Exists(req.kind) /\ store[req.kind].rv = req.base.rv,
         Merged(req.kind, req.base.val, Desired(req.kind, ph.val, hash)),
         IF Exists(req.kind) THEN "conflict" ELSE "notfound")

\* A merge patch carries no version: it applies to whatever object is there now.
PatchChild(s) ==
    Call(s, "patch",
         Exists(req.kind),
         Patch(Live(req.kind), req.base.val,
               Merged(req.kind, req.base.val, Desired(req.kind, ph.val, hash))),
         "notfound")

\* A delete carries the name alone.  Only the Service's does not tolerate NotFound.
Delete(s) ==
    Call(s, "delete", Exists(req.kind), None,
         IF req.kind = "Service" THEN "notfound" ELSE "none")

\* Faulty: an error does not queue the name again.
ReturnWithoutRequeue(failed) ==
    /\ UNCHANGED queued
    /\ ph' = None /\ todo' = {} /\ req' = None /\ hash' = None /\ err' = "none"

\* Faulty: what was queued while the worker was busy is forgotten.
ReturnForgetful(failed) ==
    /\ queued' = failed
    /\ ph' = None /\ todo' = {} /\ req' = None /\ hash' = None /\ err' = "none"

\* Reconcile returns; the name is queued again when it returns an error.
Return(failed) ==
    /\ queued' = (queued \/ failed)
    /\ ph' = None /\ todo' = {} /\ req' = None /\ hash' = None /\ err' = "none"

\* Faulty: the message of the error is written whether there is one or not.
OutcomeUnchecked == err

Outcome == IF err = "none" THEN "Active" ELSE err

Finished == Busy /\ req = None /\ (todo = {} \/ err # "none")

\* updateStatus writes nothing when the copy of the Phare already says so.
StatusKnown ==
    /\ Finished
    /\ ph.val.status = Outcome
    /\ Return(err # "none")
    /\ UNCHANGED <<store, watch, cache, budget>>

\* Faulty: the status is patched onto whatever Phare is there.
StatusAlwaysAccepted == Exists("Phare")

\* Faulty: the status is written on the Phare of that uid, whatever has become of it.
StatusAcceptedByUid == Exists("Phare") /\ Live("Phare").uid = ph.val.uid

StatusAccepted == Exists("Phare") /\ store["Phare"].rv = ph.rv

WriteStatus ==
    /\ Finished
    /\ ph.val.status # Outcome
    /\ \/ /\ StatusAccepted
          /\ Put("Phare", [Live("Phare") EXCEPT !.status = Outcome])
          /\ \/ Return(err # "none") /\ UNCHANGED budget
             \/ Return(TRUE) /\ Spend("faults")
       \/ /\ ~StatusAccepted
          /\ Return(TRUE)
          /\ UNCHANGED <<store, watch, budget>>
       \/ /\ Return(TRUE) /\ Spend("faults")
          /\ UNCHANGED <<store, watch>>
    /\ UNCHANGED cache

\* The operator's process ends and starts again; only the API server remembers.
Crash ==
    /\ Spend("crashes")
    /\ Relist
    /\ ph' = None /\ todo' = {} /\ req' = None /\ hash' = None /\ err' = "none"
    /\ UNCHANGED store

Worker ==
    \/ Fetch \/ Build \/ StatusKnown \/ WriteStatus
    \/ \E s \in Steps : \/ Get(s) \/ GetFails(s)
                        \/ Create(s) \/ Update(s) \/ PatchChild(s) \/ Delete(s)

Next ==
    \/ Worker
    \/ Crash
    \/ Environment /\ UNCHANGED ctlVars

Spec == Init /\ [][Next]_vars

(***************************************************************************)
(* The worker, the informers and the garbage collector keep going; nobody  *)
(* has to edit, meddle, fail, crash or resync.  Faults within Worker are   *)
(* bounded by the budget.                                                  *)
(***************************************************************************)
Fairness ==
    /\ WF_vars(Worker)
    /\ \A k \in Kinds : WF_vars(Deliver(k) /\ UNCHANGED ctlVars)
    /\ \A k \in ChildKinds : WF_vars(CollectGarbage(k) /\ UNCHANGED ctlVars)

FairSpec == Spec /\ Fairness
=============================================================================
