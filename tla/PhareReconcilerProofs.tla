----------------------- MODULE PhareReconcilerProofs ------------------------
(***************************************************************************)
(* Types, idempotence and safety of PhareReconciler, for all               *)
(* specifications, values, scopes and bounds.                              *)
(***************************************************************************)
EXTENDS PhareProperties, TLAPS

\* What the worker relies on between a read and its write: a pending request
\* belongs to a Phare that was there, is about a child that Phare asks for unless
\* it is a delete, and was decided on an object that was there unless it is a create.
RequestSound ==
    /\ Busy => ph.val # None
    /\ req # None => /\ Busy
                     /\ req.verb # "create" => req.base.val # None
                     /\ req.verb # "delete" => Wanted(req.kind, ph.val.spec)

TypeInv == TypeOK /\ RequestSound

-----------------------------------------------------------------------------
(* The operators of PhareObjects *)

\* A builder makes a well-formed child of every kind the Phare asks for.
LEMMA DesiredType ==
    ASSUME NEW k \in ChildKinds, NEW p \in PhareObject, NEW h \in Contents \cup {None},
           Wanted(k, p.spec)
    PROVE  Desired(k, p, h) \in ChildObject
<1>1. p.spec \in SpecType /\ p.uid \in Nat
  BY SpecsAssumption DEF PhareObject
<1>2. CASE k \in WorkloadKinds
  BY <1>1, <1>2 DEF Desired, ChildObject, SpecType, Contents, BuiltLabel
<1>3. CASE k \notin WorkloadKinds
  <2>1. k \in OptionalKinds
    BY <1>3 DEF ChildKinds
  <2>2. p.spec.want[k] \in Contents
    BY <1>1, <1>3, <2>1 DEF SpecType, Wanted
  <2> QED
    BY <1>1, <1>3, <2>1, <2>2 DEF Desired, ChildObject, BuiltLabel
<1> QED
  BY <1>2, <1>3

\* Copying the desired fields over a child leaves a well-formed child.
LEMMA MergedType ==
    ASSUME NEW k \in ChildKinds, NEW child \in ChildObject, NEW want \in ChildObject
    PROVE  Merged(k, child, want) \in ChildObject
<1>1. CASE k = "ConfigMap"
  BY <1>1 DEF Merged, ChildObject
<1>2. CASE k \in {"Service", "HTTPRoute"}
  BY <1>2 DEF Merged, ChildObject, PolicyKinds, WorkloadKinds
<1>3. CASE k \in PolicyKinds
  BY <1>3 DEF Merged, ChildObject, PolicyKinds, WorkloadKinds
<1>4. CASE k \in WorkloadKinds
  BY <1>4 DEF Merged, ChildObject, PolicyKinds, WorkloadKinds
<1> QED
  BY <1>1, <1>2, <1>3, <1>4 DEF ChildKinds, OptionalKinds, PolicyKinds

\* A merge patch of a well-formed child leaves a well-formed child.
LEMMA PatchType ==
    ASSUME NEW live \in ChildObject, NEW base \in ChildObject, NEW new \in ChildObject
    PROVE  Patch(live, base, new) \in ChildObject
BY DEF Patch, ChildObject

-----------------------------------------------------------------------------
(* Type correctness *)

\* A write of a well-formed object keeps the store and the watch queues well-formed.
LEMMA PutType ==
    ASSUME ClusterTypeOK, NEW k \in Kinds, NEW v \in ObjectOf(k) \cup {None}, Put(k, v)
    PROVE  /\ \A j \in Kinds : store'[j] \in Snapshot(j) /\ watch'[j] \in Seq(Snapshot(j))
           /\ DOMAIN store' = Kinds /\ DOMAIN watch' = Kinds
<1>1. CASE v = Live(k)
  BY <1>1 DEF Put, ClusterTypeOK
<1>2. CASE v # Live(k)
  <2> DEFINE new == [rv |-> store[k].rv + 1, val |-> v]
  <2>1. new \in Snapshot(k)
    <3>1. store[k] \in Snapshot(k)
      BY DEF ClusterTypeOK
    <3>2. store[k].rv + 1 \in Nat
      BY <3>1 DEF Snapshot
    <3> QED
      BY <3>2 DEF Snapshot
  <2>2. store' = [store EXCEPT ![k] = new] /\ watch' = [watch EXCEPT ![k] = Append(@, new)]
    BY <1>2 DEF Put
  <2>3. Append(watch[k], new) \in Seq(Snapshot(k))
    BY <2>1 DEF ClusterTypeOK
  <2> HIDE DEF new
  <2> QED
    BY <2>1, <2>2, <2>3 DEF ClusterTypeOK
<1> QED
  BY <1>1, <1>2

LEMMA SpendType ==
    ASSUME budget \in Budgets,
           NEW what \in {"edits", "deletes", "meddling", "faults", "crashes"}, Spend(what)
    PROVE  budget' \in Budgets
BY DEF Spend, Budgets

LEMMA InitType == Init => TypeInv
<1> SUFFICES ASSUME Init PROVE TypeInv
  OBVIOUS
<1>1. \A k \in Kinds : Missing \in Snapshot(k) /\ <<>> \in Seq(Snapshot(k))
  BY DEF Missing, Snapshot
<1>2. ClusterTypeOK
  BY <1>1, BoundsAssumption DEF Init, ClusterInit, ClusterTypeOK, Budgets
<1> QED
  BY <1>2 DEF Init, TypeInv, TypeOK, RequestSound, Busy

\* A change to one object by anybody but the worker.
LEMMA OutsideWriteType ==
    ASSUME TypeInv, NEW k \in Kinds, NEW v \in ObjectOf(k) \cup {None}, Put(k, v),
           UNCHANGED <<cache, queued, ctlVars>>, budget' \in Budgets
    PROVE  TypeInv'
<1>1. ClusterTypeOK'
  BY PutType DEF TypeInv, TypeOK, ClusterTypeOK
<1> QED
  BY <1>1 DEF TypeInv, TypeOK, RequestSound, Busy, ctlVars

LEMMA EnvironmentType ==
    ASSUME TypeInv, Environment, UNCHANGED ctlVars
    PROVE  TypeInv'
<1> USE DEF TypeInv
<1>0. budget \in Budgets /\ \A k \in Kinds : store[k] \in Snapshot(k)
  BY DEF TypeOK, ClusterTypeOK
<1>1. store["Phare"].rv \in Nat /\ (Exists("Phare") => Live("Phare") \in PhareObject)
  BY <1>0 DEF Snapshot, Kinds, ObjectOf, Exists, Live
<1>2. \A k \in ChildKinds : Exists(k) => Live(k) \in ChildObject
  <2> SUFFICES ASSUME NEW k \in ChildKinds, Exists(k) PROVE Live(k) \in ChildObject
    OBVIOUS
  <2>1. k \in Kinds /\ k # "Phare"
    BY DEF Kinds, ChildKinds, OptionalKinds, WorkloadKinds
  <2> QED
    BY <1>0, <2>1 DEF Snapshot, ObjectOf, Exists, Live
<1>3. "Phare" \in Kinds /\ ObjectOf("Phare") = PhareObject
  BY DEF Kinds, ObjectOf
<1>4. \A k \in ChildKinds : k \in Kinds /\ ObjectOf(k) = ChildObject
  BY DEF Kinds, ObjectOf, ChildKinds, OptionalKinds, WorkloadKinds
<1>5. CASE CreatePhare
  <2>1. PICK s \in Specs : Put("Phare", [uid |-> store["Phare"].rv + 1, spec |-> s, status |-> ""])
    BY <1>5 DEF CreatePhare
  <2>2. [uid |-> store["Phare"].rv + 1, spec |-> s, status |-> ""] \in PhareObject
    <3>1. store["Phare"].rv + 1 \in Nat \ {Foreign} /\ "" \in Statuses
      BY <1>1 DEF Foreign, Statuses
    <3> QED
      BY <3>1 DEF PhareObject
  <2> QED
    BY <1>0, <1>3, <1>5, <2>1, <2>2, OutsideWriteType DEF CreatePhare
<1>6. CASE EditPhare
  <2>1. PICK s \in Specs : Put("Phare", [Live("Phare") EXCEPT !.spec = s])
    BY <1>6 DEF EditPhare
  <2>2. [Live("Phare") EXCEPT !.spec = s] \in PhareObject
    <3>1. Live("Phare") \in PhareObject
      BY <1>1, <1>6 DEF EditPhare
    <3> QED
      BY <3>1 DEF PhareObject
  <2>3. budget' \in Budgets
    BY <1>0, <1>6, SpendType DEF EditPhare
  <2> QED
    BY <1>3, <1>6, <2>1, <2>2, <2>3, OutsideWriteType DEF EditPhare
<1>7. CASE DeletePhare
  <2>1. budget' \in Budgets
    BY <1>0, <1>7, SpendType DEF DeletePhare
  <2> QED
    BY <1>3, <1>7, <2>1, OutsideWriteType DEF DeletePhare
<1>8. CASE Resync
  BY <1>8 DEF Resync, TypeOK, ClusterTypeOK, RequestSound, Busy, ctlVars
<1>9. ASSUME NEW k \in ChildKinds, CollectGarbage(k) PROVE TypeInv'
  BY <1>0, <1>4, <1>9, OutsideWriteType DEF CollectGarbage
<1>10. ASSUME NEW k \in Kinds, Deliver(k) PROVE TypeInv'
  <2>1. watch[k] \in Seq(Snapshot(k)) /\ watch[k] # <<>>
    BY <1>10 DEF TypeOK, ClusterTypeOK, Deliver
  <2>2. Head(watch[k]) \in Snapshot(k) /\ Tail(watch[k]) \in Seq(Snapshot(k))
    BY <2>1
  <2>3. queued' \in BOOLEAN
    BY <1>10 DEF Deliver
  <2>4. /\ cache' = [cache EXCEPT ![k] = Head(watch[k])]
        /\ watch' = [watch EXCEPT ![k] = Tail(watch[k])]
        /\ UNCHANGED <<store, budget>>
    BY <1>10 DEF Deliver
  <2>5. ClusterTypeOK'
    BY <2>2, <2>3, <2>4 DEF TypeOK, ClusterTypeOK
  <2> QED
    BY <2>5 DEF TypeOK, RequestSound, Busy, ctlVars
<1>11. ASSUME NEW verb \in {"edit", "unlabel", "delete", "plant"}, NEW k \in ChildKinds,
              Meddle(verb, k)
       PROVE  TypeInv'
  <2> DEFINE new(v) == CASE verb = "edit"    -> [Live(k) EXCEPT !.val = v]
                         [] verb = "unlabel" -> [Live(k) EXCEPT !.label = FALSE]
                         [] verb = "delete"  -> None
                         [] verb = "plant"   -> [owner |-> Foreign, val |-> v, label |-> FALSE, sum |-> None]
  <2>1. PICK v \in Values : Put(k, new(v))
    BY <1>11 DEF Meddle
  <2>2. new(v) \in ChildObject \cup {None}
    <3>1. verb # "plant" => Live(k) \in ChildObject
      BY <1>2, <1>11 DEF Meddle
    <3> QED
      BY <3>1 DEF ChildObject, Contents, Foreign
  <2>3. budget' \in Budgets
    BY <1>0, <1>11, SpendType DEF Meddle
  <2> HIDE DEF new
  <2> QED
    BY <1>4, <1>11, <2>1, <2>2, <2>3, OutsideWriteType DEF Meddle
<1> QED
  BY <1>5, <1>6, <1>7, <1>8, <1>9, <1>10, <1>11 DEF Environment

\* The worker's own steps that leave the cluster's objects alone.
LEMMA FetchType == TypeInv /\ Fetch => TypeInv'
<1> SUFFICES ASSUME TypeInv, Fetch PROVE TypeInv'
  OBVIOUS
<1>1. cache["Phare"] \in Snapshot("Phare")
  BY DEF TypeInv, TypeOK, ClusterTypeOK, Kinds
<1>2. ClusterTypeOK'
  BY DEF TypeInv, TypeOK, ClusterTypeOK, Fetch
<1>3. Scope \cup {"stale", "build", "workload"} \subseteq Steps
  BY ScopeAssumption DEF Steps, Place, OptionalKinds
<1>4. req = None
  BY DEF TypeInv, RequestSound, Fetch
<1> QED
  BY <1>1, <1>2, <1>3, <1>4 DEF TypeInv, TypeOK, RequestSound, Busy, Fetch

\* While the worker is busy it holds a Phare; the step it is at is about a child.
LEMMA BusyType ==
    ASSUME TypeInv, NEW s \in Steps, At(s), s # "build"
    PROVE  /\ ph.val \in PhareObject /\ ph.val.spec \in SpecType
           /\ Target(s) \in ChildKinds
           /\ Read(Target(s)) \in [rv : Nat, val : ChildObject \cup {None}]
<1>1. ph.val \in PhareObject
  BY DEF TypeInv, TypeOK, RequestSound, At, Busy, Snapshot, ObjectOf
<1>2. ph.val.spec \in SpecType
  BY <1>1, SpecsAssumption DEF PhareObject
<1>3. ph.val.spec.kind \in WorkloadKinds
  BY <1>2 DEF SpecType
<1>4. Target(s) \in ChildKinds
  BY <1>3 DEF Target, Steps, Place, ChildKinds, OptionalKinds, WorkloadKinds, OtherWorkload
<1>5. Target(s) \in Kinds /\ ObjectOf(Target(s)) = ChildObject
  BY <1>4 DEF Kinds, ObjectOf, ChildKinds, OptionalKinds, WorkloadKinds
<1>6. Read(Target(s)) \in Snapshot(Target(s))
  BY <1>5 DEF TypeInv, TypeOK, ClusterTypeOK, Read
<1> QED
  BY <1>1, <1>2, <1>4, <1>5, <1>6 DEF Snapshot

LEMMA GetType ==
    ASSUME TypeInv, NEW s \in Steps, Get(s)
    PROVE  TypeInv'
<1> DEFINE k == Target(s)
           verb == Decide(k, Read(k).val)
<1>1. At(s) /\ s # "build" /\ req = None /\ UNCHANGED clusterVars
  BY DEF Get
<1>2. k \in ChildKinds /\ Read(k) \in [rv : Nat, val : ChildObject \cup {None}]
  BY <1>1, BusyType
<1>3. ClusterTypeOK'
  BY <1>1 DEF TypeInv, TypeOK, ClusterTypeOK, clusterVars
<1>4. CASE verb = "none"
  BY <1>1, <1>3, <1>4 DEF Get, StepDone, TypeInv, TypeOK, RequestSound, Busy
<1>5. CASE verb # "none"
  <2>1. /\ req' = [verb |-> verb, kind |-> k, base |-> Read(k)]
        /\ UNCHANGED <<ph, todo, hash, err>>
    BY <1>5 DEF Get
  <2>2. /\ verb \in {"create", "update", "patch", "delete"}
        /\ verb # "create" => Read(k).val # None
        /\ verb # "delete" => Wanted(k, ph.val.spec)
    BY <1>5 DEF Decide, ModifyVerb
  <2> HIDE DEF k, verb
  <2>3. req' \in Request
    BY <1>2, <2>1, <2>2 DEF Request
  <2>4. RequestSound'
    BY <1>1, <2>1, <2>2 DEF TypeInv, RequestSound, Busy, At
  <2> QED
    BY <1>3, <2>1, <2>3, <2>4 DEF TypeInv, TypeOK
<1> QED
  BY <1>4, <1>5

LEMMA GetFailsType ==
    ASSUME TypeInv, NEW s \in Steps, GetFails(s)
    PROVE  TypeInv'
<1>1. budget' \in Budgets
  BY SpendType DEF GetFails, TypeInv, TypeOK, ClusterTypeOK
<1> QED
  BY <1>1 DEF GetFails, FailWith, TypeInv, TypeOK, ClusterTypeOK, RequestSound, Busy, Errors

LEMMA BuildType == TypeInv /\ Build => TypeInv'
<1> SUFFICES ASSUME TypeInv, Build PROVE TypeInv'
  OBVIOUS
<1>1. UNCHANGED clusterVars
  BY DEF Build
<1>2. ClusterTypeOK'
  BY <1>1 DEF TypeInv, TypeOK, ClusterTypeOK, clusterVars
<1>3. cache["ConfigMap"].val \in ChildObject \cup {None}
  BY DEF TypeInv, TypeOK, ClusterTypeOK, Kinds, ChildKinds, OptionalKinds, Snapshot, ObjectOf
<1>4. CASE FailWith("build") \/ FailWith("hash")
  BY <1>2, <1>4 DEF FailWith, TypeInv, TypeOK, RequestSound, Busy, Errors
<1>5. CASE ~(FailWith("build") \/ FailWith("hash"))
  <2>1. HasConfig(ph.val.spec) => cache["ConfigMap"].val # None
    BY <1>5 DEF Build
  <2>2. /\ hash' = IF HasConfig(ph.val.spec) THEN cache["ConfigMap"].val.val ELSE None
        /\ todo' = todo \ {"build"}
        /\ UNCHANGED <<ph, req, err>>
    BY <1>5 DEF Build
  <2>3. hash' \in Contents \cup {None}
    BY <1>3, <2>1, <2>2 DEF ChildObject
  <2> QED
    BY <1>2, <2>2, <2>3 DEF TypeInv, TypeOK, RequestSound, Busy
<1> QED
  BY <1>4, <1>5

\* Whatever the API server answers to a well-formed write, the state stays well-formed.
LEMMA ReplyType ==
    ASSUME TypeInv, NEW s \in Steps, req # None,
           NEW v \in ChildObject \cup {None},
           Put(req.kind, v) \/ UNCHANGED <<store, watch>>,
           UNCHANGED <<cache, queued>>,
           UNCHANGED budget \/ Spend("faults"),
           StepDone(s) \/ \E e \in Errors : FailWith(e)
    PROVE  TypeInv'
<1>1. req.kind \in ChildKinds
  BY DEF TypeInv, TypeOK, Request
<1>2. req.kind \in Kinds /\ ObjectOf(req.kind) = ChildObject
  BY <1>1 DEF Kinds, ObjectOf, ChildKinds, OptionalKinds, WorkloadKinds
<1>3. budget' \in Budgets
  BY SpendType DEF TypeInv, TypeOK, ClusterTypeOK
<1>4. CASE Put(req.kind, v)
  <2>1. /\ \A j \in Kinds : store'[j] \in Snapshot(j) /\ watch'[j] \in Seq(Snapshot(j))
        /\ DOMAIN store' = Kinds /\ DOMAIN watch' = Kinds
    BY <1>2, <1>4, PutType DEF TypeInv, TypeOK
  <2> QED
    BY <1>3, <2>1 DEF TypeInv, TypeOK, ClusterTypeOK
       , RequestSound, Busy, StepDone, FailWith
<1>5. CASE UNCHANGED <<store, watch>>
  BY <1>3, <1>5 DEF TypeInv, TypeOK, ClusterTypeOK, RequestSound, Busy, StepDone, FailWith
<1> QED
  BY <1>4, <1>5

\* The objects the worker sends are well-formed.
LEMMA RequestType ==
    ASSUME TypeInv, req # None
    PROVE  /\ req.kind \in ChildKinds
           /\ req.verb # "delete" => Desired(req.kind, ph.val, hash) \in ChildObject
           /\ req.verb \in {"update", "patch"} =>
                 /\ req.base.val \in ChildObject
                 /\ Merged(req.kind, req.base.val, Desired(req.kind, ph.val, hash)) \in ChildObject
           /\ Exists(req.kind) => Live(req.kind) \in ChildObject
<1>1. req \in Request /\ ph \in Snapshot("Phare") /\ ph.val # None /\ hash \in Contents \cup {None}
  BY DEF TypeInv, TypeOK, RequestSound, Busy
<1>2. ph.val \in PhareObject
  BY <1>1 DEF Snapshot, ObjectOf
<1>3. req.kind \in ChildKinds
  BY <1>1 DEF Request
<1>4. req.verb # "delete" => Desired(req.kind, ph.val, hash) \in ChildObject
  BY <1>1, <1>2, <1>3, DesiredType DEF TypeInv, RequestSound
<1>5. req.verb \in {"update", "patch"} => req.base.val \in ChildObject
  BY <1>1 DEF Request, TypeInv, RequestSound
<1>6. req.verb \in {"update", "patch"} =>
        Merged(req.kind, req.base.val, Desired(req.kind, ph.val, hash)) \in ChildObject
  BY <1>3, <1>4, <1>5, MergedType
<1>7. store[req.kind] \in Snapshot(req.kind) /\ ObjectOf(req.kind) = ChildObject
  BY <1>3 DEF TypeInv, TypeOK, ClusterTypeOK, Kinds, ObjectOf, ChildKinds, OptionalKinds, WorkloadKinds
<1>8. Exists(req.kind) => Live(req.kind) \in ChildObject
  BY <1>7 DEF Snapshot, Exists, Live
<1> QED
  BY <1>3, <1>4, <1>5, <1>6, <1>8

LEMMA CreateType ==
    ASSUME TypeInv, NEW s \in Steps, Create(s)
    PROVE  TypeInv'
<1> DEFINE v == Desired(req.kind, ph.val, hash)
<1>1. /\ req # None /\ req.verb = "create"
      /\ Put(req.kind, v) \/ UNCHANGED <<store, watch>>
      /\ UNCHANGED <<cache, queued>>
      /\ UNCHANGED budget \/ Spend("faults")
      /\ StepDone(s) \/ FailWith("exists") \/ FailWith("api")
  BY DEF Create, Call
<1>2. v \in ChildObject
  BY <1>1, RequestType
<1> HIDE DEF v
<1> QED
  BY <1>1, <1>2, ReplyType DEF Errors

LEMMA UpdateType ==
    ASSUME TypeInv, NEW s \in Steps, Update(s)
    PROVE  TypeInv'
<1> DEFINE v == Merged(req.kind, req.base.val, Desired(req.kind, ph.val, hash))
<1>1. /\ req # None /\ req.verb = "update"
      /\ Put(req.kind, v) \/ UNCHANGED <<store, watch>>
      /\ UNCHANGED <<cache, queued>>
      /\ UNCHANGED budget \/ Spend("faults")
      /\ StepDone(s) \/ FailWith("conflict") \/ FailWith("notfound") \/ FailWith("api")
  BY DEF Update, Call
<1>2. v \in ChildObject
  BY <1>1, RequestType
<1> HIDE DEF v
<1> QED
  BY <1>1, <1>2, ReplyType DEF Errors

LEMMA PatchChildType ==
    ASSUME TypeInv, NEW s \in Steps, PatchChild(s)
    PROVE  TypeInv'
<1> DEFINE v == Patch(Live(req.kind), req.base.val,
                      Merged(req.kind, req.base.val, Desired(req.kind, ph.val, hash)))
<1>1. /\ req # None /\ req.verb = "patch"
      /\ (Exists(req.kind) /\ Put(req.kind, v)) \/ UNCHANGED <<store, watch>>
      /\ UNCHANGED <<cache, queued>>
      /\ UNCHANGED budget \/ Spend("faults")
      /\ StepDone(s) \/ FailWith("notfound") \/ FailWith("api")
  BY DEF PatchChild, Call
<1>2. Exists(req.kind) => v \in ChildObject
  BY <1>1, RequestType, PatchType
<1>3. None \in ChildObject \cup {None}
  OBVIOUS
<1> HIDE DEF v
<1>4. CASE Exists(req.kind)
  BY <1>1, <1>2, <1>4, ReplyType DEF Errors
<1>5. CASE ~Exists(req.kind)
  BY <1>1, <1>3, <1>5, ReplyType DEF Errors
<1> QED
  BY <1>4, <1>5

LEMMA DeleteType ==
    ASSUME TypeInv, NEW s \in Steps, Delete(s)
    PROVE  TypeInv'
<1>1. /\ req # None
      /\ Put(req.kind, None) \/ UNCHANGED <<store, watch>>
      /\ UNCHANGED <<cache, queued>>
      /\ UNCHANGED budget \/ Spend("faults")
      /\ StepDone(s) \/ FailWith("notfound") \/ FailWith("api")
  BY DEF Delete, Call
<1> QED
  BY <1>1, ReplyType DEF Errors

\* A pass ends; the worker is left with nothing.
LEMMA ReturnType ==
    ASSUME TypeInv, NEW failed \in BOOLEAN, Return(failed)
    PROVE  /\ queued' \in BOOLEAN
           /\ ph' = None /\ todo' = {} /\ req' = None /\ hash' = None /\ err' = "none"
BY DEF Return

LEMMA WriteStatusType == TypeInv /\ WriteStatus => TypeInv'
<1> SUFFICES ASSUME TypeInv, WriteStatus PROVE TypeInv'
  OBVIOUS
<1> DEFINE v == [Live("Phare") EXCEPT !.status = Outcome]
<1>1. /\ (StatusAccepted /\ Put("Phare", v)) \/ UNCHANGED <<store, watch>>
      /\ UNCHANGED budget \/ Spend("faults")
      /\ UNCHANGED cache
      /\ Return(err # "none") \/ Return(TRUE)
  BY DEF WriteStatus
<1>2. StatusAccepted => Live("Phare") \in PhareObject
  BY DEF TypeInv, TypeOK, ClusterTypeOK, Kinds, Snapshot, ObjectOf, StatusAccepted, Exists, Live
<1>3. Outcome \in Statuses
  BY DEF TypeInv, TypeOK, Outcome, Statuses
<1>4. StatusAccepted => v \in PhareObject
  BY <1>2, <1>3 DEF PhareObject
<1>5. budget' \in Budgets
  BY <1>1, SpendType DEF TypeInv, TypeOK, ClusterTypeOK
<1>6. /\ queued' \in BOOLEAN
      /\ ph' = None /\ todo' = {} /\ req' = None /\ hash' = None /\ err' = "none"
  BY <1>1 DEF Return
<1> HIDE DEF v
<1>7. /\ \A j \in Kinds : store'[j] \in Snapshot(j) /\ watch'[j] \in Seq(Snapshot(j))
      /\ DOMAIN store' = Kinds /\ DOMAIN watch' = Kinds
  <2>1. CASE StatusAccepted /\ Put("Phare", v)
    <3>1. "Phare" \in Kinds /\ v \in ObjectOf("Phare") \cup {None}
      BY <1>4, <2>1 DEF Kinds, ObjectOf
    <3> QED
      BY <2>1, <3>1, PutType DEF TypeInv, TypeOK
  <2>2. CASE UNCHANGED <<store, watch>>
    BY <2>2 DEF TypeInv, TypeOK, ClusterTypeOK
  <2> QED
    BY <1>1, <2>1, <2>2
<1> QED
  BY <1>1, <1>5, <1>6, <1>7 DEF TypeInv, TypeOK, ClusterTypeOK, RequestSound, Busy

LEMMA StatusKnownType == TypeInv /\ StatusKnown => TypeInv'
BY DEF StatusKnown, Return, TypeInv, TypeOK, ClusterTypeOK, RequestSound, Busy

LEMMA CrashType == TypeInv /\ Crash => TypeInv'
<1> SUFFICES ASSUME TypeInv, Crash PROVE TypeInv'
  OBVIOUS
<1>1. budget' \in Budgets
  BY SpendType DEF Crash, TypeInv, TypeOK, ClusterTypeOK
<1>2. \A k \in Kinds : <<>> \in Seq(Snapshot(k))
  OBVIOUS
<1>3. queued' \in BOOLEAN /\ cache' = store /\ watch' = [k \in Kinds |-> <<>>] /\ store' = store
  BY DEF Crash, Relist
<1> QED
  BY <1>1, <1>2, <1>3 DEF Crash, TypeInv, TypeOK, ClusterTypeOK, RequestSound, Busy

LEMMA StepType == TypeInv /\ [Next]_vars => TypeInv'
<1> SUFFICES ASSUME TypeInv, [Next]_vars PROVE TypeInv'
  OBVIOUS
<1>1. CASE Worker
  BY <1>1, FetchType, BuildType, StatusKnownType, WriteStatusType, GetType, GetFailsType,
     CreateType, UpdateType, PatchChildType, DeleteType DEF Worker
<1>2. CASE Crash
  BY <1>2, CrashType
<1>3. CASE Environment /\ UNCHANGED ctlVars
  BY <1>3, EnvironmentType
<1>4. CASE UNCHANGED vars
  BY <1>4 DEF vars, clusterVars, ctlVars, TypeInv, TypeOK, ClusterTypeOK, RequestSound, Busy
<1> QED
  BY <1>1, <1>2, <1>3, <1>4 DEF Next

\* Every variable keeps its type, for every set of specifications, every scope and
\* every bound: no child is ever built from a field that the Phare does not have, and
\* only known errors and phases reach the status (reconcileResources, updateStatus).
THEOREM TypeCorrect == Spec => []TypeOK
<1>1. Init => TypeInv
  BY InitType
<1>2. TypeInv /\ [Next]_vars => TypeInv'
  BY StepType
<1>3. TypeInv => TypeOK
  BY DEF TypeInv
<1> QED
  BY <1>1, <1>2, <1>3, PTL DEF Spec

-----------------------------------------------------------------------------
(* The reconcile loop is idempotent *)

\* Between two passes no checksum is held.
IdleInv == TypeInv /\ (~Busy => hash = None)

LEMMA InitIdle == Init => IdleInv
BY InitType DEF IdleInv, Init

LEMMA StepIdle == IdleInv /\ [Next]_vars => IdleInv'
<1> SUFFICES ASSUME IdleInv, [Next]_vars PROVE ~Busy' => hash' = None
  BY StepType DEF IdleInv
<1>1. CASE Fetch \/ UNCHANGED ctlVars
  BY <1>1 DEF Fetch, ctlVars, IdleInv, Busy
<1>2. CASE Build \/ \E s \in Steps : Get(s) \/ GetFails(s) \/ Create(s) \/ Update(s) \/ PatchChild(s) \/ Delete(s)
  <2>1. Busy /\ ph' = ph
    BY <1>2 DEF Build, Get, GetFails, Create, Update, PatchChild, Delete, Call, At, StepDone, FailWith
  <2> QED BY <2>1 DEF Busy
<1>3. CASE StatusKnown \/ WriteStatus \/ Crash
  BY <1>3 DEF StatusKnown, WriteStatus, Return, Crash
<1> QED BY <1>1, <1>2, <1>3 DEF Next, Worker, vars

-----------------------------------------------------------------------------
(* A cluster as the builders would make it *)

\* Spending is not leaving the budget alone.
LEMMA SpendChanges ==
    ASSUME TypeOK, NEW what \in {"edits", "deletes", "meddling", "faults", "crashes"}, Spend(what)
    PROVE  budget' # budget
<1>1. budget \in Budgets /\ budget[what] \in Nat
  BY DEF TypeOK, ClusterTypeOK, Budgets
<1>2. budget'[what] = budget[what] - 1
  BY <1>1 DEF Spend, Budgets
<1> QED BY <1>1, <1>2

\* What a fixed point says of the Phare and of each child.
LEMMA FixedChildren ==
    ASSUME TypeOK, FixedPoint, NEW p, p = Live("Phare")
    PROVE  /\ p \in PhareObject /\ p.spec \in Specs /\ p.spec.kind \in WorkloadKinds
           /\ p.status = "Active" /\ p.spec.template \notin BadTemplates
           /\ Busy => ph.val = p
           /\ \A k \in ChildKinds : Wanted(k, p.spec) =>
                 /\ Live(k) \in ChildObject /\ Exists(k)
                 /\ Live(k).owner = p.uid
                 /\ Live(k).label = BuiltLabel(k, p.spec)
                 /\ Live(k).val = Asked(p, k).val /\ Live(k).sum = Asked(p, k).sum
           /\ \A k \in ChildKinds : ~Wanted(k, p.spec) => ~Exists(k)
           /\ cache = store
<1>1. "Phare" \in Kinds /\ ObjectOf("Phare") = PhareObject
  BY DEF Kinds, ObjectOf
<1>2. \A k \in ChildKinds : k \in Kinds /\ ObjectOf(k) = ChildObject
  BY DEF Kinds, ChildKinds, OptionalKinds, WorkloadKinds, ObjectOf
<1>3. p \in PhareObject
  BY <1>1 DEF TypeOK, ClusterTypeOK, Snapshot, FixedPoint, Exists, Live
<1>4. p.spec \in Specs /\ p.spec.kind \in WorkloadKinds
  BY <1>3, SpecsAssumption DEF PhareObject, SpecType
<1>5. p.status = "Active" /\ p.spec.template \notin BadTemplates /\ cache = store /\ AsBuilt(p)
  BY DEF FixedPoint, AsBuilt, Buildable
<1>6. Busy => ph.val = p
  BY DEF FixedPoint, Live
<1>7. \A k : AsksFor(p.spec, k) <=> Wanted(k, p.spec)
  BY DEF AsksFor, Wanted
<1>8. ASSUME NEW k \in ChildKinds, Wanted(k, p.spec)
      PROVE  /\ Live(k) \in ChildObject /\ Exists(k)
             /\ Live(k).owner = p.uid
             /\ Live(k).label = BuiltLabel(k, p.spec)
             /\ Live(k).val = Asked(p, k).val /\ Live(k).sum = Asked(p, k).sum
  <2>1. AsDesired(k, p) /\ Live(k).owner = p.uid /\ Live(k).label = BuiltLabel(k, p.spec)
    BY <1>5, <1>7, <1>8 DEF AsBuilt
  <2>2. [val |-> Live(k).val, sum |-> Live(k).sum] = Asked(p, k) /\ Exists(k)
    BY <2>1 DEF AsDesired
  <2>3. Live(k) \in ChildObject
    BY <1>2, <2>2 DEF TypeOK, ClusterTypeOK, Snapshot, Exists, Live
  <2> QED BY <2>1, <2>2, <2>3
<1>9. \A k \in ChildKinds : ~Wanted(k, p.spec) => ~Exists(k)
  BY <1>5, <1>7 DEF AsBuilt
<1> QED BY <1>3, <1>4, <1>5, <1>6, <1>8, <1>9

\* A fixed point stays one if the objects stay and the pass stays on their present state.
LEMMA StaysFixed ==
    ASSUME FixedPoint, UNCHANGED <<store, cache, watch>>, req' = None, err' = "none",
           Busy' => ph' = store["Phare"] /\ hash' \in {None, LiveHash(ph'.val)},
           Busy' /\ "build" \notin todo' => hash' = LiveHash(ph'.val)
    PROVE  FixedPoint'
<1>1. PICK p : p = Live("Phare")
  OBVIOUS
<1>2. \A q : LiveHash(q)' = LiveHash(q) /\ (AsBuilt(q)' <=> AsBuilt(q))
  BY DEF LiveHash, AsBuilt, AsDesired, Asked, Exists, Live
<1>3. Exists("Phare")' /\ Live("Phare")' = p
  BY <1>1 DEF FixedPoint, Exists, Live
<1>4. AsBuilt(p)' /\ Buildable(p)'
  BY <1>1, <1>2 DEF FixedPoint, Buildable
<1>5. PICK g : g = ph'.val
  OBVIOUS
<1>6. Busy' => ph' = store'["Phare"] /\ hash' \in {None, LiveHash(g)'}
  BY <1>2, <1>5
<1>7. Busy' /\ "build" \notin todo' => hash' = LiveHash(g)'
  BY <1>2, <1>5
<1> QED BY <1>3, <1>4, <1>5, <1>6, <1>7 DEF FixedPoint, Drained, AsBuilt, AsDesired, Asked, Buildable,
                                            LiveHash, Exists, Live

\* A reconciler that reads what it has built decides that nothing is to be done.
LEMMA NothingToDo ==
    ASSUME TypeOK, FixedPoint, Scope \cap PolicyKinds = {}, NEW s \in Steps, At(s), s # "build"
    PROVE  Decide(Target(s), Read(Target(s)).val) = "none"
<1>1. PICK p, k, c : p = Live("Phare") /\ k = Target(s) /\ c = Live(k)
  OBVIOUS
<1>2. Busy /\ ph.val = p /\ p.spec.kind \in WorkloadKinds /\ p.spec \in Specs
  BY <1>1, FixedChildren DEF At
<1>3. k \in ChildKinds
  <2>1. Steps = OptionalKinds \cup {"stale", "build", "workload"}
    BY DEF Steps, Place, OptionalKinds
  <2>2. OtherWorkload(p.spec.kind) \in WorkloadKinds
    BY DEF OtherWorkload, WorkloadKinds
  <2> QED BY <1>1, <1>2, <2>1, <2>2 DEF Target, ChildKinds
<1>4. Read(k).val = c
  BY <1>1 DEF FixedPoint, Read, Live
<1>5. CASE ~Wanted(k, p.spec)
  <2>1. c = None
    BY <1>1, <1>3, <1>5, FixedChildren DEF Exists
  <2> QED BY <1>1, <1>2, <1>4, <1>5, <2>1 DEF Decide
<1>6. CASE Wanted(k, p.spec)
  <2>1. PICK want : want = Desired(k, p, hash)
    OBVIOUS
  <2>2. k \in Scope \cup WorkloadKinds
    BY <1>2, <1>3, <1>6, ScopeAssumption DEF Wanted, ChildKinds
  <2>3. k \notin PolicyKinds
    BY <2>2 DEF PolicyKinds, WorkloadKinds
  <2>4. k \in WorkloadKinds => hash = LiveHash(p)
    <3>1. k \in WorkloadKinds => s = "workload"
      BY <1>1, <1>2, <1>6 DEF Target, Wanted, OtherWorkload, WorkloadKinds, Steps, Place
    <3>2. s = "workload" => "build" \notin todo
      BY DEF At, Place
    <3> QED BY <1>2, <3>1, <3>2 DEF FixedPoint
  <2>5. /\ c \in ChildObject /\ Exists(k)
        /\ c.label = BuiltLabel(k, p.spec)
        /\ c.val = Asked(p, k).val /\ c.sum = Asked(p, k).sum
    BY <1>1, <1>3, <1>6, FixedChildren
  <2>6. /\ want.val = c.val /\ want.label = c.label
        /\ k \in WorkloadKinds => want.sum = c.sum
    BY <2>1, <2>4, <2>5 DEF Desired, Asked
  <2>7. /\ [c EXCEPT !.val = want.val] = c
        /\ [c EXCEPT !.val = want.val, !.label = want.label] = c
        /\ k \in WorkloadKinds => [c EXCEPT !.val = want.val, !.sum = want.sum] = c
    BY <2>5, <2>6 DEF ChildObject
  <2>8. Merged(k, c, want) = c
    BY <1>3, <2>3, <2>7 DEF Merged, ChildKinds, OptionalKinds, WorkloadKinds, PolicyKinds
  <2>9. c # None
    BY <1>1, <2>5 DEF Exists
  <2> QED BY <1>1, <1>2, <1>4, <1>6, <2>1, <2>8, <2>9 DEF Decide
<1> QED BY <1>5, <1>6

LEMMA WorkerStaysFixed ==
    ASSUME IdleInv, FixedPoint, Scope \cap PolicyKinds = {}, UNCHANGED budget, Worker
    PROVE  FixedPoint'
<1>0. TypeOK
  BY DEF IdleInv, TypeInv
<1>1. PICK p : p = Live("Phare")
  OBVIOUS
<1>2. /\ p.status = "Active" /\ p.spec.template \notin BadTemplates
      /\ (Busy => ph = store["Phare"] /\ ph.val = p) /\ cache = store
      /\ req = None /\ err = "none"
  BY <1>0, <1>1, FixedChildren DEF FixedPoint
<1>3. CASE Fetch
  <2>1. /\ ph' = store["Phare"] /\ todo' = Scope \cup {"stale", "build", "workload"}
        /\ hash' = None /\ req' = None /\ err' = "none" /\ UNCHANGED <<store, cache, watch>>
    BY <1>2, <1>3 DEF Fetch, FixedPoint, Exists, Live, IdleInv
  <2> QED BY <2>1, StaysFixed
<1>4. CASE Build
  <2>1. HasConfig(p.spec) => Exists("ConfigMap") /\ cache["ConfigMap"].val # None
    <3> SUFFICES ASSUME HasConfig(p.spec) PROVE Exists("ConfigMap")
      BY <1>2 DEF Exists, Live
    <3>1. "ConfigMap" \in ChildKinds /\ "ConfigMap" \notin WorkloadKinds
      BY DEF ChildKinds, OptionalKinds, WorkloadKinds
    <3>2. CASE p.spec.want["ConfigMap"] # None
      BY <1>0, <1>1, <3>1, <3>2, FixedChildren DEF Wanted
    <3>3. CASE p.spec.want["ConfigMap"] = None
      BY <3>3, NoneAssumption DEF HasConfig, Contents
    <3> QED BY <3>2, <3>3
  <2>2. /\ hash' = LiveHash(p) /\ UNCHANGED <<ph, req, err>> /\ UNCHANGED <<store, cache, watch>>
        /\ Busy
    BY <1>2, <1>4, <2>1 DEF Build, LiveHash, At, clusterVars, Live
  <2> QED BY <1>2, <2>2, StaysFixed
<1>5. ASSUME NEW s \in Steps, Get(s) PROVE FixedPoint'
  <2>1. StepDone(s) /\ UNCHANGED <<store, cache, watch>> /\ Busy /\ s # "build"
    BY <1>0, <1>5, NothingToDo DEF Get, clusterVars, At
  <2>2. hash' = hash /\ ph' = ph /\ ("build" \notin todo' => "build" \notin todo)
    BY <2>1 DEF StepDone
  <2> QED BY <1>2, <2>1, <2>2, StaysFixed DEF StepDone, FixedPoint
<1>6. ASSUME NEW s \in Steps, GetFails(s) PROVE FALSE
  BY <1>0, <1>6, SpendChanges DEF GetFails
<1>7. ASSUME NEW s \in Steps, Create(s) \/ Update(s) \/ PatchChild(s) \/ Delete(s) PROVE FALSE
  BY <1>2, <1>7 DEF Create, Update, PatchChild, Delete, Call
<1>8. CASE StatusKnown
  BY <1>2, <1>8, StaysFixed DEF StatusKnown, Return, Busy
<1>9. CASE WriteStatus
  BY <1>2, <1>9 DEF WriteStatus, Outcome, Finished
<1> QED BY <1>3, <1>4, <1>5, <1>6, <1>7, <1>8, <1>9 DEF Worker

LEMMA EnvironmentStaysFixed ==
    ASSUME IdleInv, FixedPoint, UNCHANGED budget, Environment, UNCHANGED ctlVars
    PROVE  FixedPoint'
<1>0. TypeOK
  BY DEF IdleInv, TypeInv
<1>1. CASE Resync
  BY <1>1, StaysFixed DEF Resync, ctlVars, FixedPoint, Busy
<1>2. CASE CreatePhare \/ EditPhare \/ DeletePhare
  BY <1>0, <1>2, SpendChanges DEF CreatePhare, EditPhare, DeletePhare, FixedPoint
<1>3. ASSUME NEW k \in ChildKinds, CollectGarbage(k) PROVE FALSE
  <2>1. PICK p : p = Live("Phare")
    OBVIOUS
  <2>2. Exists("Phare") /\ LivePhareUid = p.uid
    BY <2>1 DEF FixedPoint, LivePhareUid
  <2> QED BY <1>0, <1>3, <2>1, <2>2, FixedChildren DEF CollectGarbage, Orphaned
<1>4. ASSUME NEW k \in Kinds, Deliver(k) PROVE FALSE
  BY <1>4 DEF Deliver, FixedPoint, Drained
<1>5. ASSUME NEW verb, NEW k \in ChildKinds, Meddle(verb, k) PROVE FALSE
  BY <1>0, <1>5, SpendChanges DEF Meddle
<1> QED BY <1>1, <1>2, <1>3, <1>4, <1>5 DEF Environment

-----------------------------------------------------------------------------
(* The theorem *)

\* Once every child is what its builder makes of the live Phare and the worker has heard
\* of everything, further passes (a resync, a repeated event) change nothing and do not
\* even send a request, until somebody outside does something: in every instance without
\* GKE policies, for which the run policies_stripped finds it violated.
THEOREM PassesAreIdempotent ==
    ASSUME Scope \cap PolicyKinds = {}
    PROVE  Spec => Idempotent
<1>1. Init => IdleInv
  BY InitIdle
<1>2. IdleInv /\ [Next]_vars => IdleInv'
  BY StepIdle
<1>3. IdleInv /\ [Next]_vars => [FixedPoint /\ UNCHANGED budget => FixedPoint']_vars
  <2> SUFFICES ASSUME IdleInv, Next, FixedPoint, UNCHANGED budget PROVE FixedPoint'
    OBVIOUS
  <2>1. CASE Worker
    BY <2>1, WorkerStaysFixed
  <2>2. CASE Crash
    BY <2>2, SpendChanges DEF Crash, IdleInv, TypeInv
  <2>3. CASE Environment /\ UNCHANGED ctlVars
    BY <2>3, EnvironmentStaysFixed
  <2> QED BY <2>1, <2>2, <2>3 DEF Next
<1> QED BY <1>1, <1>2, <1>3, PTL DEF Spec, Idempotent

-----------------------------------------------------------------------------
(* Safety: what resource versions buy the reconciler.  Snapshots stay sound, hence *)
(* no update is lost and Active is only said of what was reconciled.               *)

SafetyInv == TypeInv /\ SnapshotsSound

-----------------------------------------------------------------------------
(* Sound snapshots *)

\* A write makes its object one version newer and leaves every other as it was.
LEMMA PutGrows ==
    ASSUME TypeOK, NEW k \in Kinds, NEW v, Put(k, v)
    PROVE  \A j \in Kinds : \/ store'[j] = store[j] /\ watch'[j] = watch[j]
                            \/ /\ store'[j].rv = store[j].rv + 1
                               /\ watch'[j] = Append(watch[j], store'[j])
<1>1. DOMAIN store = Kinds /\ DOMAIN watch = Kinds
  BY DEF TypeOK, ClusterTypeOK
<1>2. CASE v = Live(k)
  BY <1>2 DEF Put
<1>3. CASE v # Live(k)
  BY <1>1, <1>3 DEF Put
<1> QED
  BY <1>2, <1>3

\* The versions in the state are numbers.
LEMMA VersionsAreNat ==
    ASSUME TypeOK
    PROVE  /\ \A k \in Kinds : store[k].rv \in Nat /\ cache[k].rv \in Nat
           /\ \A k \in Kinds : \A i \in 1 .. Len(watch[k]) : watch[k][i].rv \in Nat
           /\ \A k \in Kinds : watch[k] \in Seq(Snapshot(k))
           /\ ph # None => ph.rv \in Nat
           /\ req # None => req.base.rv \in Nat /\ req.kind \in Kinds
<1>1. \A k \in Kinds : store[k].rv \in Nat /\ cache[k].rv \in Nat
  BY DEF TypeOK, ClusterTypeOK, Snapshot
<1>2. \A k \in Kinds : watch[k] \in Seq(Snapshot(k))
  BY DEF TypeOK, ClusterTypeOK
<1>3. \A k \in Kinds : \A i \in 1 .. Len(watch[k]) : watch[k][i] \in Snapshot(k)
  BY <1>2
<1>4. \A k \in Kinds : \A i \in 1 .. Len(watch[k]) : watch[k][i].rv \in Nat
  BY <1>3 DEF Snapshot
<1>5. ph # None => ph.rv \in Nat
  BY DEF TypeOK, Snapshot
<1>6. req # None => req.base.rv \in Nat /\ req.kind \in Kinds
  BY DEF TypeOK, Request, Kinds
<1> QED
  BY <1>1, <1>2, <1>4, <1>5, <1>6

LEMMA PutSound ==
    ASSUME SafetyInv, NEW k \in Kinds, NEW v, Put(k, v), UNCHANGED cache,
           ph' = ph \/ ph' = None, req' = req \/ req' = None
    PROVE  SnapshotsSound'
<1>1. TypeOK
  BY DEF SafetyInv, TypeInv
<1>2. \A j \in Kinds : \/ store'[j] = store[j] /\ watch'[j] = watch[j]
                       \/ /\ store'[j].rv = store[j].rv + 1
                          /\ watch'[j] = Append(watch[j], store'[j])
  BY <1>1, PutGrows
<1>3. \A j \in Kinds : Sound(j, cache[j])'
  BY <1>1, <1>2, VersionsAreNat DEF SafetyInv, SnapshotsSound, Sound
<1>4. \A j \in Kinds : \A i \in 1 .. Len(watch'[j]) : Sound(j, watch[j][i])'
  <2> SUFFICES ASSUME NEW j \in Kinds, NEW i \in 1 .. Len(watch'[j])
               PROVE  Sound(j, watch[j][i])'
    OBVIOUS
  <2>0. watch[j] \in Seq(Snapshot(j)) /\ store[j].rv \in Nat
    BY <1>1, VersionsAreNat
  <2>1. CASE store'[j] = store[j] /\ watch'[j] = watch[j]
    BY <2>1 DEF SafetyInv, SnapshotsSound, Sound
  <2>2. CASE store'[j].rv = store[j].rv + 1 /\ watch'[j] = Append(watch[j], store'[j])
    <3>1. CASE i = Len(watch[j]) + 1
      BY <2>0, <2>2, <3>1 DEF Sound
    <3>2. CASE i # Len(watch[j]) + 1
      <4>1. i \in 1 .. Len(watch[j]) /\ watch'[j][i] = watch[j][i]
        BY <2>0, <2>2, <3>2
      <4>2. Sound(j, watch[j][i]) /\ watch[j][i].rv \in Nat
        BY <1>1, <4>1, VersionsAreNat DEF SafetyInv, SnapshotsSound
      <4> QED
        BY <2>0, <2>2, <4>1, <4>2 DEF Sound
    <3> QED
      BY <3>1, <3>2
  <2> QED
    BY <1>2, <2>1, <2>2
<1>5. (Busy => Sound("Phare", ph))'
  BY <1>1, <1>2, VersionsAreNat DEF SafetyInv, SnapshotsSound, Sound, Busy, Kinds
<1>6. (req # None => Sound(req.kind, req.base))'
  BY <1>1, <1>2, VersionsAreNat DEF SafetyInv, SnapshotsSound, Sound
<1> QED
  BY <1>3, <1>4, <1>5, <1>6 DEF SnapshotsSound

\* Steps that write nothing and take only what the cache or the store holds.
LEMMA ReadSound ==
    ASSUME SafetyInv, UNCHANGED <<store, watch, cache>>,
           \/ ph' = ph
           \/ ph' = None
           \/ ph' = cache["Phare"],
           \/ req' = req
           \/ req' = None
           \/ /\ req'.kind \in Kinds
              /\ req'.base \in {store[req'.kind], cache[req'.kind]}
    PROVE  SnapshotsSound'
<1>1. \A k \in Kinds : store[k].rv \in Nat
  BY VersionsAreNat DEF SafetyInv, TypeInv
<1>2. (Busy => Sound("Phare", ph))'
  BY DEF SafetyInv, SnapshotsSound, Sound, Busy, Kinds
<1>3. (req # None => Sound(req.kind, req.base))'
  BY <1>1 DEF SafetyInv, SnapshotsSound, Sound
<1> QED
  BY <1>2, <1>3 DEF SafetyInv, SnapshotsSound, Sound

LEMMA DeliverSound ==
    ASSUME SafetyInv, NEW k \in Kinds, Deliver(k), UNCHANGED ctlVars
    PROVE  SnapshotsSound'
<1>1. watch[k] \in Seq(Snapshot(k)) /\ watch[k] # <<>> /\ DOMAIN watch = Kinds /\ DOMAIN cache = Kinds
  BY DEF SafetyInv, TypeInv, TypeOK, ClusterTypeOK, Deliver
<1>2. /\ cache' = [cache EXCEPT ![k] = Head(watch[k])]
      /\ watch' = [watch EXCEPT ![k] = Tail(watch[k])]
      /\ UNCHANGED store
  BY DEF Deliver
<1>3. 1 \in 1 .. Len(watch[k]) /\ Head(watch[k]) = watch[k][1]
  BY <1>1
<1>4. Sound(k, Head(watch[k]))
  BY <1>3 DEF SafetyInv, SnapshotsSound
<1>5. \A i \in 1 .. Len(Tail(watch[k])) :
        i + 1 \in 1 .. Len(watch[k]) /\ Tail(watch[k])[i] = watch[k][i + 1]
  BY <1>1
<1>6. \A i \in 1 .. Len(Tail(watch[k])) : Sound(k, Tail(watch[k])[i])
  BY <1>5 DEF SafetyInv, SnapshotsSound
<1>7. \A j \in Kinds : Sound(j, cache[j])'
  BY <1>1, <1>2, <1>4 DEF SafetyInv, SnapshotsSound, Sound
<1>8. \A j \in Kinds : \A i \in 1 .. Len(watch'[j]) : Sound(j, watch[j][i])'
  <2> SUFFICES ASSUME NEW j \in Kinds, NEW i \in 1 .. Len(watch'[j])
               PROVE  Sound(j, watch[j][i])'
    OBVIOUS
  <2>1. CASE j = k
    <3>1. watch'[j] = Tail(watch[k])
      BY <1>1, <1>2, <2>1
    <3> QED
      BY <1>2, <1>6, <2>1, <3>1 DEF Sound
  <2>2. CASE j # k
    <3>1. watch'[j] = watch[j]
      BY <1>1, <1>2, <2>2
    <3> QED
      BY <1>2, <3>1 DEF SafetyInv, SnapshotsSound, Sound
  <2> QED
    BY <2>1, <2>2
<1> QED
  BY <1>2, <1>7, <1>8 DEF SafetyInv, SnapshotsSound, Sound, Busy, ctlVars

LEMMA CrashSound ==
    ASSUME SafetyInv, Crash
    PROVE  SnapshotsSound'
<1>1. \A k \in Kinds : store[k].rv \in Nat
  BY VersionsAreNat DEF SafetyInv, TypeInv
<1>2. cache' = store /\ watch' = [k \in Kinds |-> <<>>] /\ UNCHANGED store /\ ph' = None /\ req' = None
  BY DEF Crash, Relist
<1>3. \A j \in Kinds : Sound(j, cache[j])'
  BY <1>1, <1>2 DEF Sound
<1>4. \A j \in Kinds : Len(watch'[j]) = 0
  BY <1>2
<1> QED
  BY <1>2, <1>3, <1>4 DEF SnapshotsSound, Busy

\* Every action of the worker is a write of one object or a read.
LEMMA WorkerSound ==
    ASSUME SafetyInv, Worker
    PROVE  SnapshotsSound'
<1>1. CASE Fetch
  BY <1>1, ReadSound DEF Fetch
<1>2. CASE Build
  BY <1>2, ReadSound DEF Build, FailWith, clusterVars
<1>3. CASE StatusKnown
  BY <1>3, ReadSound DEF StatusKnown, Return
<1>4. CASE WriteStatus
  <2>1. ph' = None /\ req' = None /\ UNCHANGED cache
    BY <1>4 DEF WriteStatus, Return
  <2>2. "Phare" \in Kinds
    BY DEF Kinds
  <2>3. CASE Put("Phare", [Live("Phare") EXCEPT !.status = Outcome])
    BY <2>1, <2>2, <2>3, PutSound
  <2>4. CASE UNCHANGED <<store, watch>>
    BY <2>1, <2>4, ReadSound
  <2> QED
    BY <1>4, <2>3, <2>4 DEF WriteStatus
<1>5. ASSUME NEW s \in Steps, Get(s) PROVE SnapshotsSound'
  <2>1. UNCHANGED <<store, watch, cache, ph>>
    BY <1>5 DEF Get, clusterVars, StepDone
  <2>2. Target(s) \in Kinds
    BY <1>5, BusyType DEF Get, SafetyInv, Kinds
  <2>3. CASE req' = None
    BY <2>1, <2>3, ReadSound
  <2>4. CASE req' # None
    <3>1. req' = [verb |-> Decide(Target(s), Read(Target(s)).val), kind |-> Target(s),
                  base |-> Read(Target(s))]
      BY <1>5, <2>4 DEF Get, StepDone
    <3>2. req'.kind = Target(s) /\ req'.base \in {store[Target(s)], cache[Target(s)]}
      BY <3>1 DEF Read
    <3> QED
      BY <2>1, <2>2, <3>2, ReadSound
  <2> QED
    BY <2>3, <2>4
<1>6. ASSUME NEW s \in Steps, GetFails(s) PROVE SnapshotsSound'
  BY <1>6, ReadSound DEF GetFails, FailWith
<1>7. ASSUME NEW s \in Steps, Create(s) \/ Update(s) \/ PatchChild(s) \/ Delete(s)
      PROVE  SnapshotsSound'
  <2>1. req # None /\ ph' = ph /\ req' = None /\ UNCHANGED cache
    BY <1>7 DEF Create, Update, PatchChild, Delete, Call, StepDone, FailWith
  <2>2. req.kind \in Kinds
    BY <2>1, VersionsAreNat DEF SafetyInv, TypeInv
  <2>3. \/ Put(req.kind, Desired(req.kind, ph.val, hash))
        \/ Put(req.kind, Merged(req.kind, req.base.val, Desired(req.kind, ph.val, hash)))
        \/ Put(req.kind, Patch(Live(req.kind), req.base.val,
                               Merged(req.kind, req.base.val, Desired(req.kind, ph.val, hash))))
        \/ Put(req.kind, None)
        \/ UNCHANGED <<store, watch>>
    BY <1>7 DEF Create, Update, PatchChild, Delete, Call
  <2> QED
    BY <2>1, <2>2, <2>3, PutSound, ReadSound
<1> QED
  BY <1>1, <1>2, <1>3, <1>4, <1>5, <1>6, <1>7 DEF Worker

LEMMA EnvironmentSound ==
    ASSUME SafetyInv, Environment, UNCHANGED ctlVars
    PROVE  SnapshotsSound'
<1>0. ph' = ph /\ req' = req /\ "Phare" \in Kinds /\ ChildKinds \subseteq Kinds
  BY DEF ctlVars, Kinds
<1>1. CASE CreatePhare \/ EditPhare \/ DeletePhare
  BY <1>0, <1>1, PutSound DEF CreatePhare, EditPhare, DeletePhare
<1>2. CASE Resync
  BY <1>0, <1>2, ReadSound DEF Resync
<1>3. ASSUME NEW k \in ChildKinds, CollectGarbage(k) PROVE SnapshotsSound'
  BY <1>0, <1>3, PutSound DEF CollectGarbage
<1>4. ASSUME NEW k \in Kinds, Deliver(k) PROVE SnapshotsSound'
  BY <1>4, DeliverSound
<1>5. ASSUME NEW verb \in {"edit", "unlabel", "delete", "plant"}, NEW k \in ChildKinds,
             Meddle(verb, k)
      PROVE  SnapshotsSound'
  BY <1>0, <1>5, PutSound DEF Meddle
<1> QED
  BY <1>1, <1>2, <1>3, <1>4, <1>5 DEF Environment

LEMMA InitSafety == Init => SafetyInv
<1> SUFFICES ASSUME Init PROVE SafetyInv
  OBVIOUS
<1>1. TypeInv
  BY InitType
<1>2. \A k \in Kinds : store[k] = Missing /\ cache[k] = Missing /\ Len(watch[k]) = 0
  BY DEF Init, ClusterInit
<1>3. SnapshotsSound
  BY <1>2 DEF SnapshotsSound, Sound, Missing, Init, Busy
<1> QED
  BY <1>1, <1>3 DEF SafetyInv

LEMMA StepSafety == SafetyInv /\ [Next]_vars => SafetyInv'
<1> SUFFICES ASSUME SafetyInv, [Next]_vars PROVE SafetyInv'
  OBVIOUS
<1>1. TypeInv'
  BY StepType DEF SafetyInv
<1>2. SnapshotsSound'
  <2>1. CASE Worker
    BY <2>1, WorkerSound
  <2>2. CASE Crash
    BY <2>2, CrashSound
  <2>3. CASE Environment /\ UNCHANGED ctlVars
    BY <2>3, EnvironmentSound
  <2>4. CASE UNCHANGED vars
    BY <2>4, ReadSound DEF vars, clusterVars, ctlVars
  <2> QED
    BY <2>1, <2>2, <2>3, <2>4 DEF Next
<1> QED
  BY <1>1, <1>2 DEF SafetyInv

LEMMA SafetyInvariance == Spec => []SafetyInv
BY InitSafety, StepSafety, PTL DEF Spec

\* Whatever the interleaving of the worker, the informers, users and failures, every
\* copy of an object the operator holds or is about to hear of is a past or the present
\* state of that object, and the present one if it carries the present version.
THEOREM SnapshotsAreSound == Spec => []SnapshotsSound
<1>1. SafetyInv => SnapshotsSound
  BY DEF SafetyInv
<1> QED
  BY <1>1, SafetyInvariance, PTL

-----------------------------------------------------------------------------
(* No lost update *)

LEMMA UpdateReplacesWhatWasRead ==
    ASSUME SafetyInv, [Next]_vars, NEW k \in ChildKinds, Effect("update", k)
    PROVE  req.base = store[k]
<1>1. req # None /\ req' = None /\ req.verb = "update" /\ req.kind = k /\ store'[k] # store[k]
  BY DEF Effect
<1>2. PICK s \in Steps : Update(s)
  <2>1. ~Crash /\ ~(Environment /\ UNCHANGED ctlVars) /\ ~UNCHANGED vars
    BY <1>1 DEF Crash, ctlVars, vars, clusterVars
  <2>2. Worker
    BY <2>1 DEF Next
  <2>3. ~Fetch /\ ~Build /\ ~StatusKnown /\ ~WriteStatus
    BY <1>1 DEF Fetch, Build, StatusKnown, WriteStatus, Finished, clusterVars
  <2>4. \A s \in Steps : ~Get(s) /\ ~GetFails(s)
    BY <1>1 DEF Get, GetFails, clusterVars
  <2>5. \A s \in Steps : ~Create(s) /\ ~PatchChild(s) /\ ~Delete(s)
    BY <1>1 DEF Create, PatchChild, Delete, Call
  <2> QED
    BY <2>2, <2>3, <2>4, <2>5 DEF Worker
<1>3. store[k].rv = req.base.rv
  BY <1>1, <1>2 DEF Update, Call
<1>4. Sound(k, req.base)
  BY <1>1 DEF SafetyInv, SnapshotsSound
<1>5. req.base.val = store[k].val
  BY <1>3, <1>4 DEF Sound
<1>6. /\ req.base \in [rv : Nat, val : ChildObject \cup {None}]
      /\ store[k] \in [rv : Nat, val : ObjectOf(k) \cup {None}]
  BY <1>1 DEF SafetyInv, TypeInv, TypeOK, ClusterTypeOK, Request, Snapshot, Kinds
<1> QED
  BY <1>3, <1>5, <1>6

\* An Update of a ConfigMap or a Service that the API server accepts replaces exactly
\* the object the reconciler decided on: nobody's change is overwritten unseen.
THEOREM UpdatesAreNotLost == Spec => NoLostUpdate
<1>1. SafetyInv /\ [Next]_vars => [\A k \in ChildKinds : Effect("update", k) => req.base = store[k]]_vars
  BY UpdateReplacesWhatWasRead
<1> QED
  BY <1>1, SafetyInvariance, PTL DEF Spec, NoLostUpdate

-----------------------------------------------------------------------------
(* Active is said of what was reconciled *)

BecomesActive ==
    /\ Exists("Phare") /\ Live("Phare").status # "Active"
    /\ store'["Phare"].val # None /\ store'["Phare"].val.status = "Active"

LEMMA ActiveIsWritten ==
    ASSUME SafetyInv, [Next]_vars, BecomesActive
    PROVE  WriteStatus
<1>0. TypeOK
  BY DEF SafetyInv, TypeInv
<1>1. store'["Phare"] # store["Phare"]
  BY DEF BecomesActive, Live
<1>2. \A k \in ChildKinds : \A v : Put(k, v) => store'["Phare"] = store["Phare"]
  <2>1. \A k \in ChildKinds : k # "Phare"
    BY DEF ChildKinds, OptionalKinds, WorkloadKinds
  <2>2. DOMAIN store = Kinds /\ "Phare" \in Kinds
    BY <1>0 DEF TypeOK, ClusterTypeOK, Kinds
  <2> QED
    BY <2>1, <2>2 DEF Put
<1>3. ~(Environment /\ UNCHANGED ctlVars)
  <2>0. DOMAIN store = Kinds /\ "Phare" \in Kinds
    BY <1>0 DEF TypeOK, ClusterTypeOK, Kinds
  <2>1. ~CreatePhare
    BY DEF CreatePhare, BecomesActive
  <2>2. ~EditPhare
    <3> SUFFICES ASSUME EditPhare PROVE FALSE
      OBVIOUS
    <3>1. PICK s \in Specs : Put("Phare", [Live("Phare") EXCEPT !.spec = s])
      BY DEF EditPhare
    <3>2. store'["Phare"].val = [Live("Phare") EXCEPT !.spec = s]
      BY <1>1, <2>0, <3>1 DEF Put
    <3>3. Live("Phare") \in PhareObject
      BY <1>0 DEF TypeOK, ClusterTypeOK, Kinds, Snapshot, ObjectOf, Exists, Live, BecomesActive
    <3>4. store'["Phare"].val.status = Live("Phare").status
      BY <3>2, <3>3 DEF PhareObject
    <3> QED
      BY <3>4 DEF BecomesActive
  <2>3. ~DeletePhare
    BY <1>1, <2>0 DEF DeletePhare, Put, BecomesActive
  <2>4. ~Resync
    BY <1>1 DEF Resync
  <2>5. \A k \in ChildKinds : ~CollectGarbage(k)
    BY <1>1, <1>2 DEF CollectGarbage
  <2>6. \A k \in Kinds : ~Deliver(k)
    BY <1>1 DEF Deliver
  <2>7. \A verb \in {"edit", "unlabel", "delete", "plant"}, k \in ChildKinds : ~Meddle(verb, k)
    BY <1>1, <1>2 DEF Meddle
  <2> QED
    BY <2>1, <2>2, <2>3, <2>4, <2>5, <2>6, <2>7 DEF Environment
<1>4. ~Crash /\ ~UNCHANGED vars
  BY <1>1 DEF Crash, vars, clusterVars
<1>5. Worker
  BY <1>3, <1>4 DEF Next
<1>6. ~Fetch /\ ~Build /\ ~StatusKnown /\ \A s \in Steps : ~Get(s) /\ ~GetFails(s)
  BY <1>1 DEF Fetch, Build, StatusKnown, Get, GetFails, clusterVars
<1>7. \A s \in Steps : ~Create(s) /\ ~Update(s) /\ ~PatchChild(s) /\ ~Delete(s)
  <2>1. req # None => req.kind \in ChildKinds
    BY <1>0 DEF TypeOK, Request
  <2> QED
    BY <1>1, <1>2, <2>1 DEF Create, Update, PatchChild, Delete, Call
<1> QED
  BY <1>5, <1>6, <1>7 DEF Worker

LEMMA ActiveStep ==
    ASSUME SafetyInv, [Next]_vars, BecomesActive
    PROVE  /\ Busy /\ err = "none" /\ todo = {}
           /\ Live("Phare").spec = ph.val.spec
           /\ Live("Phare").uid = ph.val.uid
<1>1. WriteStatus
  BY ActiveIsWritten
<1>2. store'["Phare"] # store["Phare"]
  BY DEF BecomesActive, Live
<1>3. StatusAccepted /\ Put("Phare", [Live("Phare") EXCEPT !.status = Outcome]) /\ Finished
  BY <1>1, <1>2 DEF WriteStatus
<1>4. Sound("Phare", ph) /\ store["Phare"].rv = ph.rv
  BY <1>3 DEF SafetyInv, SnapshotsSound, StatusAccepted, Finished
<1>5. Live("Phare") = ph.val
  BY <1>4 DEF Sound, Live
<1>6. Live("Phare") \in PhareObject /\ DOMAIN store = Kinds /\ "Phare" \in Kinds
  BY DEF SafetyInv, TypeInv, TypeOK, ClusterTypeOK, Kinds, Snapshot, ObjectOf, Exists, Live, BecomesActive
<1>7. store'["Phare"].val = [Live("Phare") EXCEPT !.status = Outcome]
  BY <1>2, <1>3, <1>6 DEF Put
<1>8. Outcome = "Active"
  BY <1>6, <1>7 DEF PhareObject, BecomesActive
<1>9. err = "none"
  BY <1>8 DEF Outcome, SafetyInv, TypeInv, TypeOK, Errors
<1> QED
  BY <1>3, <1>5, <1>9 DEF Finished

\* The status becomes Active only by a pass that ended without an error and worked from
\* the spec, the labels and the uid the Phare has at that moment: an edit or a recreation
\* of the Phare between Get and Status().Update can never be reported as reconciled.
THEOREM ActiveIsCurrent == Spec => ActiveMeansCurrent
<1>1. SafetyInv /\ [Next]_vars =>
        [(/\ Exists("Phare") /\ Live("Phare").status # "Active"
          /\ store'["Phare"].val # None /\ store'["Phare"].val.status = "Active")
         => /\ Busy /\ err = "none" /\ todo = {}
            /\ Live("Phare").spec = ph.val.spec
            /\ Live("Phare").uid = ph.val.uid]_vars
  BY ActiveStep DEF BecomesActive
<1> QED
  BY <1>1, SafetyInvariance, PTL DEF Spec, ActiveMeansCurrent
=============================================================================
