# A model of the Phare operator

TLA+ modules, model-checking runs and machine-checked proofs about the Phare
operator: a Kubernetes controller that turns a `Phare` resource into a
ConfigMap, a Service, an HTTPRoute, two GKE policies and a Deployment or
StatefulSet. Paths below are relative to the repository (`src/`).

## The system

| Part | State it keeps | Operations | What makes it correct |
|---|---|---|---|
| Reconcile loop, `controllers/phare_controller.go` | the copy of the Phare during a pass | `Reconcile`, `reconcileResources`, `updateStatus`, `fetchPhareResource` | every pass brings the cluster nearer to the spec; errors bring another pass; `Active` is never written for another spec; a settled cluster is left alone |
| Predicates and watches, same file | none | `SetupWithManager`, `defaultLabelPredicate`, `statefulSetUpdatePredicate` | no event the operator needs is dropped |
| ConfigMap, `reconcile_configmap.go` | the ConfigMap `<name>-config` | create, update, delete, checksum | data follows the Phare; pods get the checksum of that data |
| Service, `reconcile_service.go` | the Service | create, update, delete, merge, compare | node ports stay with their ports; no lost update; no needless update; the spec gets applied |
| HTTPRoute and policies, `expose_controller.go` | three objects, two of them unstructured | build, create, patch | labels and spec follow the Phare |
| Cleanup, `tmp_k8s_resources.go` | none | `handle*`, `cleanup*`, `deleteIfOwned`, `deleteIfExists`, `reconcileMicroService` | only the Phare's own objects are deleted; one workload is left |
| Deployment, StatefulSet, `reconcile_deployment.go`, `reconcile_statefulset.go` | the workload | build, merge, patch, warn of claim templates | template follows the Phare, injected sidecars survive, claims hold nothing up, changes of them are warned of |
| Workload merge, `workload_merge.go`, `compare_options.go` | none | pure functions | valid merges; what was patched is no difference |
| Map helpers, `map_utils.go` | none | pure functions | nil and empty maps are the same |
| API types, `api/v1beta1` | the Phare | none | |
| Start-up, `main.go` | none | flags, manager | |
| `pkg/go-templates` | none | renders templates | |
| `pkg/yamldiff` | the diffs of one call | `Load`, `Do`, `Dump`, `Diff`; used by nothing else in the repository | the same means equal; every document and datum is printed once |
| `pkg/validator` | none | `ValidateYaml`; used by nothing else in the repository | a positive verdict means that what is desired is there |
| `pkg/deepcopy` | none | used by nothing else in the repository | |

The parts interact through the API server only. A pass reads the Phare and the
children from the informers' cache (the policies from the API server itself,
since unstructured objects are not cached), writes to the API server, and the
watch events of those writes, of users, and of other controllers come back
through the predicates as the next pass. One worker serves one Phare name at a
time, and the children's names are derived from the Phare's, so Phares do not
interfere with each other: the model has one name.

What is hard: the cache lags behind the API server and behind the operator's
own writes; anything may happen between two API calls; a call may fail after it
took effect; events are filtered by a label that people can remove; the Phare
may be deleted and made again under the same name while the garbage collector
still works on the old children; and the workload and the Service are shared
with injectors, the API server's defaulting and people. PROJECT.json lists these
hazards line by line with the properties that watch them.

## The modules

### The operator and its cluster

* `PhareObjects` – the data: the spec a Phare may have, the children, and the
  pure part of each reconciler. `Wanted` is the nil checks of `handle*` and
  `reconcileMicroService`, `Desired` the builders, `Merged` what each reconciler
  copies over an existing child, `ModifyVerb` whether it is sent with `Update` or
  as a merge patch, `MayDelete` the ownership tests. A child keeps its owner's
  uid, one opaque value for its spec, whether
  `app.kubernetes.io/created-by=phare-controller` is on it, and the checksum
  annotation. Policies lose their label in `Merged`: the builders store a
  `map[string]string`, which `GetLabels` does not see.
* `Cluster` – the API server (`Put`), informers (`Deliver`, `Relist`, `Resync`),
  the predicates (`LabelPredicate`, `StatefulSetPredicate`, `Wakes`), the garbage
  collector, and users and others. Each kind has its own watch queue, so events
  of different kinds reorder freely. A write that changes nothing makes no new
  version and no event. All but the predicates is external and modelled as the
  code relies on it.
* `PhareReconciler` – one worker. `Fetch` takes the name and copies the Phare;
  `todo` holds the steps left, visited in the order of `reconcileResources`; `Get`
  reads a child and decides (`Decide`); `Create`, `Update`, `PatchChild`, `Delete`
  send the one request that follows, each with its own answer to a missing or
  changed object; `Build` is the workload's builder and checksum; `StatusKnown`
  and `WriteStatus` are `updateStatus`, whose error counts on the success path
  only. Any call may fail before or after it took effect. `Crash` ends the process
  anywhere and relists.
* `PhareProperties` – what is required of them.
* `LevelTriggered` – the abstract specification: a controller without a cache of
  the children, pending requests, verbs, errors or a queue. It hears the states
  of the Phare in order (`Hear`), works from one of them at a time (`Start`, `Stop`),
  may at any moment bring a child to what that state asks for, or nearer to it
  (`Write`, a field at a time at worst), or remove one it does not ask for (`Remove`),
  and reports a status only on the very state it worked from (`Report`). Users and
  others are as in the cluster (`Ask`, `Meddle`, `Collect`): `Meddle` changes a child in
  just the ways that others may in the instance, and uses up one of their
  interventions. These are state of the abstract controller, too (`left`), so that
  no write of the operator passes for one of somebody else. The mapping `LT` in
  `PhareProperties` takes `heard` for the Phare in the cache followed by its watch
  queue, `work` for the copy of the Phare that a pass holds, `child` for the live
  children, and `left` for `budget.meddling`.
* `MCPhare` – values and bounds for the runs.

### The pod template

* `PodTemplate` – the types, `workload_merge.go` as operators on sequences of named
  containers and volumes, the builder, the comparison before the patch, and the API
  server's defaulting, validation and merge patch. Of a container's fields `timing`
  stands for those that the merge copies and `podTemplateCompareOptions` ignores (the
  timeouts, periods, thresholds and schemes of probes), `defaulted` for one that is
  copied, compared and filled in by the API server when it is left out, `managed` for
  the rest of what is copied, and `other` for what the merge leaves alone, which can
  never differ, ignored or not. `SameToDiff` is `cmp.Diff`: it does not look at `timing`,
  and tells the empty lists that the merge makes from the nil lists that are read.
  Volume claim templates serve mounts as volumes do, and are stored with a
  volume mode and a status.
* `WorkloadRollout` – a pass reads the workload and compares its claim templates
  (`Begin`), and later creates, keeps or patches it, with edits of the Phare, injections
  and touched containers in between.
* `MCWorkload` – pod parts and sidecars.

### The Service

* `ServiceReconciler` – `reconcileService` on ports, node ports, an optional field
  with a default and one without, and metadata, against the Service registry of
  the API server: it carries node ports over, drops those of no use when the
  set is unchanged, rejects duplicates and node ports on a ClusterIP Service, and
  allocates what is missing. The fields that the merge copies from the existing
  Service (cluster IPs, families, class) can never differ and are left out.
  Properties are at the end of the module.
* `MCService` – Phares and interventions.

The two detailed models work on one child each and read the API server rather
than a cache; that reads may be older than that, and that updates then conflict,
is the subject of the operator's model.

### The algorithms

* `YamlDiff` – `pkg/yamldiff` up to the list of diffs that `Do` returns. `HandleMap`,
  `HandleArray` and `HandlePrimitive` are the functions of those names on raw values,
  given the diffs of the parts; `PerformDiff` is their recursion. `PerformAllDiff`,
  `FindMinimumDiffs` (one turn of its loop per step) and `SortResult` are the phases of
  `Do`. The order in which equal diffs are sorted is left open, as `sort.Slice` leaves it.
* `YamlDump` – what `Diff` prints of that list (`DumpResult`, one more phase, which
  leaves the variables of `YamlDiff` but for `phase` as they are).
* `YamlValidator` – `ValidateYaml` with the two passes over nested maps and lists.
* `ConfigChecksum` – `isDataEqual` and the text that `hashConfigMapData` hashes, over
  passes and edits. It stands behind the operator's model, where the checksum
  is the contents themselves. Values are sequences of tokens.
* `MCLibrary` – their inputs, one algorithm per behaviour.

`YamlDiff` and `YamlValidator` are proved about: recursion on documents is written as
recursive functions on the set of values that are met (`RawValues`, `YamlValues`), each
of which has a depth greater than those of its parts (`Depth`, `Height`). That these
sets are closed and the depths fit is `DiffAssumption` and `ValidatorAssumption`;
`MCLibrary` computes them from its inputs, and TLC evaluates the assumptions. They
leave out no document: the values of any finite set of documents, and what filtering
makes of them, are such a set. Only `YamlDump` and `MCLibrary` use `RECURSIVE` operators
and are for TLC alone.

### Proofs

* `PhareReconcilerProofs` – type correctness, that a settled cluster is left alone,
  soundness of snapshots, no lost update, Active means current.
* `PhareRefinementProofs` – the reconciler implements `LevelTriggered`.
* `PhareWakeupProofs` – no lost wakeup, on top of the refinement's invariant.
* `ServiceProofs` – the Service is accepted and complete, ports keep their node ports,
  and passes settle.
* `WorkloadProofs` – what the operators of `PodTemplate` return, and the properties of
  the rollout.
* `ConfigChecksumProofs` – the hashed text determines the data.
* `YamlProofs` – the properties of the diff and of the validator.
* `NumberFacts` – least and greatest numbers, and induction in its set form.

Definitions that begin with "Faulty" are variants of the code's operators with a
plausible bug; each property has one that it must catch.

## What the runs show

Every `.cfg` names its question in its first line. Deadlock is not checked: an
operator without a Phare, or with a settled one, has nothing to do.

| Run | Checks | Bounds |
|---|---|---|
| `config_drift` | `NoLostWakeup`, `Idempotent` | 4 Phares (StatefulSet with two configs, Deployment with an empty one and none), 1 edit, 1 intervention on ConfigMap or StatefulSet |
| `faults` | `TypeOK`, `SnapshotsSound`, `EventuallySettles`, `ImplementsLevelTriggered` | 2 failed calls, 1 crash, 1 edit between a Deployment with a policy and a StatefulSet that cannot be built |
| `lifecycle` | `NoLostWakeup`, `ActiveMeansCurrent` | 1 spec, 1 deletion of the Phare, collection up to version 4 |
| `traffic` | `NoLostWakeup`, `NoLostUpdate`, `ActiveMeansCurrent`, `ImplementsLevelTriggered`, `Idempotent` | Service and route, 1 edit, 1 intervention of 8 kinds |
| `rollout` | `TypeOK`, `MergeResolves`, `PatchesSettle`, `SidecarsKeptAlone`, `EventuallyApplied`, `ClaimChangesWarned` | 3 pod parts with claims, 2 edits, 2 interventions of 2 sidecars and touches |
| `service` | `TypeOK`, `NodePortsStay`, `PassesSettle`, `EventuallyServed` | 7 Phares, 2 edits, 2 interventions, 3 node ports |
| `library` | `SameMeansEqual`, `EveryDocumentOnce`, `EqualDocumentsPaired`, `DumpIsPatch`, `VerdictMeansHas`, `PassDeliversEdits` | every pair of 18 YAML documents, lists of up to three of 5 kinds, and 5 irregular ones under each set of options; every pair of 56 validator documents; 36 configurations of two keys |

* `NoLostWakeup`: when the queue is empty, the watches are drained and nobody is
  an orphan, the cluster is as the live Phare asks and its status says so. It
  holds for every state, so it needs no fairness.
* `Idempotent`: from the state the operator has brought about, with the cache
  caught up, no pass leaves that state or even sends a request.
* `EventuallySettles`: in the end the cluster is as the live Phare asks, and stays.
* `SnapshotsSound`, `NoLostUpdate`, `ActiveMeansCurrent`: what resource versions are
  relied on for. `ActiveMeansCurrent` is checked twice: in `lifecycle` the Phare is
  another one by the end of the pass, in `traffic` its spec is.
* `MergeResolves`, `PatchesSettle`, `SidecarsKeptAlone`, `EventuallyApplied`,
  `ClaimChangesWarned`: a template that is sent has every mount's volume and no name
  twice; what a pass has brought about, as the API server stored it, is no difference
  to the next pass; sidecars survive a pass that nobody interrupted; the template
  comes to be what is asked for; whoever changes claim templates, which are not
  applied, is warned.
* `NodePortsStay`, `PassesSettle`, `EventuallyServed`: ports keep their node ports across
  updates; what a pass has brought about, with what the API server made of it, is no
  difference to the next; in the end the Service gives what is asked for.
* `ImplementsLevelTriggered`: every behaviour of the reconciler in its cluster is one
  of the abstract controller. With a stale cache, blind patches, lost answers and
  restarts, no effect mixes two states of the Phare, takes an object from its
  owner, makes a child nobody asked for, or reports on a Phare that has changed. In
  `traffic` that is so while others meddle with the same children: a step that leaves
  their interventions as they are must be explained by the operator's own actions.
* `SameMeansEqual`, `EveryDocumentOnce`, `EqualDocumentsPaired`, `DumpIsPatch`: two
  documents are the same exactly when they are equal up to order; every
  document is in exactly one printed diff, with its equal if there is one; and
  the dump without its added lines is A, without its removed lines B.
* `VerdictMeansHas`: the verdict after both prunings, against "everything desired and
  not empty is there" said without them.
* `PassDeliversEdits`: after a pass the pods run with the configuration asked for,
  so a change that `isDataEqual` sees is one that the checksum sees.

Budgets bound edits, deletions, interventions, faults and crashes: one or two of
each, since every hazard listed is an affair of one edit, one intervention or
one failure falling between two particular steps, and the interleaving around
them is complete. Two of the budgets are combined where they meet (`faults`:
two failures and a crash). `MaxRevision` bounds the garbage collector: as long as a
stale pass keeps making children with an old owner the collector keeps deleting
them, so it stops at objects of that version. Behaviours that reach it are left out
by `CollectionBoundHit`, and only there; without deletions it is never reached.

### Fairness

`FairSpec` assumes weak fairness of the worker as a whole (controller-runtime
hands out queued names and a pass goes on until it returns), of each informer
(watch events arrive), and of the garbage collector per kind. Users, others,
faults, crashes and resyncs are never required to happen; in particular nothing
rests on the periodic resync. Backoff is abstracted to "later". In
`WorkloadRollout` and `ServiceReconciler` the passes are fair and nothing else is.

### Where code and text disagree

Five runs expect a violation; PROJECT.json quotes the text each refers to.

| Run | What TLC finds |
|---|---|
| `route_replaced` | `deleteIfOwned` deletes by name after checking the owner of what it read: an object nobody owns, put there in between, is deleted |
| `policies_stripped` | the second pass removes the labels of a policy, and with them its events |
| `service_relabelled` | labels of the Phare override the label that the events of the Service are filtered by, as those of the sample do |
| `sidecar_lost` | the merge patch replaces the list of containers and loses what was injected since the read |
| `probes_kept` | the comparison before the patch ignores the timing of probes, which the merge copies: an edit of nothing else never reaches the workload |

### What the passing runs leave out

The inputs of the passing runs keep clear of cases that the code does not
handle. The definitions model them; the properties fail there.

* `NoLostWakeup`: ConfigMaps whose label somebody removed (it is never restored,
  and later edits wake nobody), Phares with their own `created-by` label, and an object
  that others planted under a child's name and later edit or delete (it was adopted
  without an owner reference, so that nobody is woken): the one intervention of `traffic`
  plants it at most.
* `Idempotent`: Phares with GKE policies (`policies_stripped`).
* `EventuallyApplied`: Phares that drop an extra or init container (it is taken for
  an injected one and kept), or move it to the other list; edits of `podLabels` that
  take a label away (they are the immutable selector, and every patch is
  rejected), or rename a claim together with its mount (the StatefulSet has no such
  claim, and every patch is rejected). `Applied` asks nothing of the timing of probes:
  an edit of only these is no difference and stays unpatched (`probes_kept`), unless
  the workload is patched in every pass anyway, as below.
* `PatchesSettle`: Phares that leave a compared field of a container to the API server
  (`refs` in the second pod part of `rollout`; in the code the API version of a field
  reference, say), and Phares without init containers or without volumes, since
  `cmp.Diff` tells the empty list that the merge makes from the nil list that is read
  (`Explicit`). There the workload is patched in every pass, to no effect. That is not
  what "Patch only if we found changes" (`controllers/reconcile_deployment.go:59`) and
  "idempotent" (`README.md:15` of the repository) suggest, but such a patch changes nothing and is no
  event, so it does not feed back. `Idempotent` in the operator's model is about the
  children it has, whose spec is one value that comes back as it was sent.
* `ClaimChangesWarned` says that no change goes by without a warning, not that a warning
  means a change: `vctEqual` compares what the API server stored with what the Phare
  says, and the defaults of the one make it warn in every pass.
* `EventuallyServed`: a NodePort Service that becomes a ClusterIP one and loses a
  port (the merge puts the old node ports back, and the update is rejected), or
  that gives a port the node port which another one has.
* `PassesSettle`: ports without a target port, and the reallocation annotation:
  such a Service is updated in every pass to no effect, and without an event.
* `SameMeansEqual`, `DumpIsPatch`: arrays with an element twice (each element takes the
  first of the other side that is the same, taken or not: `[1, 1]` differs from
  itself and is the same as `[1]`), keys that are not strings (they count as one
  key), a key that a map has twice (of those of B
  only the first is compared), and calls with options (`EmptyAsNull` treats the two
  sides differently).
  `DumpIsPatch` does not look at lines without a datum: an element that one side
  lacks is printed there as an empty one.
* `PassDeliversEdits`: values of several lines. `{a: "v\nb=v"}` and `{a: "v", b: "v"}` have
  one checksum, although the comment at
  `controllers/reconcile_configmap.go:140` says that the encoding avoids that.
* Optional fields of the Service that the Phare leaves out are kept until another
  field differs, and then cleared; `Served` asks nothing of them.

## What is proved

For every value of the constants, with the assumptions `SpecsAssumption` (specs
are of their type), `BoundsAssumption` (bounds are naturals, interventions are
known verbs on children), `ScopeAssumption` (children outside the scope are
neither asked for nor meddled with) and `NoneAssumption` (what is there is not
nothing):

* `TypeCorrect`: `Spec => []TypeOK`. `TypeOK` alone is not inductive: a pending request
  must have been decided on for the step at hand, with a base that its verb needs,
  or `Merged` would be applied to nothing. `RequestSound` says that, and
  `TypeInv == TypeOK /\ RequestSound` is inductive, one lemma per group of actions.
* `SnapshotsAreSound`, `UpdatesAreNotLost`, `ActiveIsCurrent`. They rest on
  `SafetyInv`, that every version in the cache, the watches, the copy of the Phare
  and a pending request is at most that of the object, and belongs to its value
  when equal. Versions only grow, and a write that changes a value gives a new
  one, so equality of versions at the moment of an `Update` or a status write means
  equality of values.

* `ReconcilerImplementsLevelTriggered`: `Spec => LT!Spec`. The initial states map
  (`InitRefines`), and every action maps to one of `LevelTriggered` or to a stutter:
  interventions of others are `Meddle` and the only steps that change `left` (`Spared`);
  deliveries of the Phare are `Hear`, a relist is `Restart`, `Fetch` is `Start`, the
  requests are `Write` and `Remove`, the status write is `Report`, and all reads and
  decisions are stutters. It needs `RefinementInv`, which adds two things to
  `SafetyInv`: the live Phare is the last that the operator will hear of
  (`HeardLast`), so that `Report` may compare with it, and a pending request fits
  the pass (`PassFits`): a workload is only written once its checksum was read,
  and only what is not asked for is deleted.

* `NoWakeupIsLost`: `Spec => []NoLostWakeup`, in every instance that satisfies
  `EveryChangeShows`. The hypothesis leaves out what the code is known not to hear
  of: GKE policies (the second pass strips their label), Phares that put their own
  `created-by` on their Service, others who take the label off a ConfigMap or a
  workload (nobody puts it back), and objects that others plant under a child's name
  (they are adopted without an owner reference, so their events name no Phare). Edits
  and deletions of every other child, and the loss of the label of a Service or a
  route, stay in; so do edits and deletions of the Phare, garbage collection, faults
  and crashes, without a bound. The inductive invariant is `WakeInv`:
  - `Calm`: along what the operator has heard and will hear of an object, either some
    change ahead wakes it or the way to the live object is `Silent`. Silent changes
    are those of an object that has lost its label before and does not get it back.
    `Calm` speaks of every point of the watch queue, since a delivery cuts its front.
  - `Proper`: children are owned, and labelled unless the label would be put back.
  - `RequestFits`, `PassLeavesNothing`, `NothingLeft`: unless there will be another pass
    (`Noticed`: queued, failed, or an alarm ahead), the pending request was decided on
    the object as it is up to silent changes; the pass works on the live Phare with
    the live checksum, and each step is still to do or its child is as it should be;
    and between passes everything is.
  - `BuiltFits`: a pass gets beyond `build` only with a template that renders.

  A write of the worker either changes the object, and is then heard of (`PutCalm`,
  `ChangeShows`), or leaves nothing to do (`CallKeeps`). A silent change leaves nothing
  to do because the label is off only where the child is not asked for, or its loss
  was itself heard of (`ContentSilent`). `WakeInv` was model-checked on the instances of
  `config_drift`, of `traffic` without planted objects, and of `faults` without the
  policy before it was proved.
* `PassesAreIdempotent`: `Spec => Idempotent` in every instance without GKE policies
  (`policies_stripped` shows why). A fixed point is everything `Decide` looks at, so no
  request is made (`NothingToDo`); `IdleInv` adds to `TypeInv` that no checksum is kept
  between passes.

About the Service in detail, with `FieldsAssumption` (Phares have every field, the
type ClusterIP or NodePort and a list of ports with numbers, the marks for what is
left out are no values, others edit fields other than the type and the ports):

* `ServiceIsAccepted`: `Spec => []TypeOK` of `ServiceReconciler`, for all Phares, pools of
  node ports and interventions: no node port twice, none on a ClusterIP Service,
  nothing missing. `TypeOK` says that a Service is one of its own stored forms, and
  an edit of a field can only be followed field by field. `ServiceInv` therefore adds
  `Complete(live)`. The lemmas go along what happens to a Service that is sent:
  `DesiredShape`, `MergedShape`, `CarriedShape` for its fields, `StoredIsComplete` and
  `StoredIsAccepted` for the allocation, and `CompleteIsStored` back to `TypeOK`.
* `NodePortsAreKept`: `Spec => NodePortsStay`, without hypotheses. The lemmas follow each
  field of a port through the merge (`MergedFields`), what the API server carries over
  (`CarriedFields`) and what it stores (`StoredKeeps`); none of them changes the
  identities, so the port of an identity is at one place in what was asked for and
  what is stored (`PortOfByPlace`). Of ports of one identity the code takes the last,
  which is why `GreatestIndex` is needed.
* `PassesDoSettle`: `Spec => PassesSettle`, if Phares give their ports targets, tell them
  apart, and ask for no node port on a ClusterIP Service (`PortsGiven`). `RequestSends` says
  what a create or an update keeps of the Phare, `StoredSettles` that nothing the API
  server adds to it counts as a difference. Ports without a target are updated in
  every pass (see above), and of two ports that are not told apart both get the
  node port of the last. In particular an accepted update always changes the Service.

About the workload in detail, for pod parts, sidecars and lists of any size, with
`TemplateAssumption` (the names and values that the code itself writes are among those
there are, and a touched field is not one that is left out) and `RolloutAssumption`
(pod parts and sidecars are of their types, a workload is not nothing):

* The first part of `WorkloadProofs` says what the operators of `PodTemplate` return.
  `Within`, the loop that keeps the volumes in use, is a recursive function; what it returns is proved by induction in
  its set form (`SetInduction`: a set with 0 and with the successor of each of its
  numbers has every number), since the induction theorems of the library take an
  operator. `WithinFacts` says it keeps exactly the elements of the given names, in
  order where all are kept, and each name once. From it come `MergeContainersFacts` and
  `MergeVolumesFacts` (what a merge contains), `MergeKeepsResolving`, `MergeVolumesSettles`,
  and for the API server `StoredFacts` and `PatchedFacts`.
* `WorkloadTypes`: `Spec => []TypeOK`, without hypotheses. `TypeOK` is inductive.
* `MergesResolve`: `Spec => []MergeResolves`. The hypotheses are what the code cannot do
  without: `PharesResolve` (pod parts resolve by themselves), `ClaimsKeepNames` (a
  renamed claim is mounted but never made, since claim templates are immutable) and
  `NothingMoves` (a container that becomes an init container is then in both lists,
  since the old one looks injected). `ListedInv` adds that the names in the workload,
  and in what is sent, were given by users or others to that list: a merge and a
  patch, also one made from an outdated read, mix lists of several times, and only
  that bounds what they can bring together.
* `PatchesDoSettle`: `Spec => PatchesSettle` with `PharesResolve` only. What a builder makes
  and what a merge makes has taken what is desired (`DesiredTakes`, `MergeTakes`, of
  `Took`: each desired container is there, with its fields), storing it changes only
  fields that are left out (`WriteStores`), and merging into a template that has taken
  what is desired gives it back, but for `timing`, which the comparison does not look
  at (`ContainersSettle`, `TookSettles`).
* `SidecarsAreKept`: `Spec => SidecarsKeptAlone` if no sidecar has the name of a container
  that a user asks for (`SidecarsApart`). `SentIsMerge` says what a pending pass sends.

The hypotheses and both invariants were model-checked on the instance of `rollout`, which
satisfies them.

About the checksum, for any keys, numbers of them and values (`ConfigAssumption`: no key
twice, what users ask for has keys of these and sequences of tokens for values):

* `PassesDeliverEdits`: `ChecksumSpec => PassDeliversEdits`. `ChecksumInv` says that the text
  behind the checksum is that of the ConfigMap and of what the pods run with, so
  the proof is that texts of different data differ (`TextDetermines`). Values may hold
  keys and signs; the proof reads the text from its front: where a key's piece begins
  (`Laid`, from `FlattenSeqFacts` and `PiecesInPlace`), either both have the key, and a value
  of one line ends at the first line end (`SameLine`), or one lacks it, and then what
  stands there is a later key or nothing (`NextKey`). `DataEqualIsEqual` says that
  `isDataEqual`, which compares in one direction and counts, is equality.

About the diff, for documents of any size, depth and number (`DiffAssumption`):

* `DiffSameMeansEqual`: `DiffSpec => []SameMeansEqual`. That each recursive function is
  what its definition says (`PerformDiffIs`, `CanonicalIs`, `RegularIs`) is itself to be
  proved: it exists for the values of each depth, by `SetInduction`, and those of the
  greatest depth are all. `SameIsEqual` is an induction on the depth, too: equal status
  of two maps is that of the entries of each key, once the loop over B makes a key
  that A lacks count (`SameMaps`, `EqualMaps`); of arrays, that each element has its
  like on the other side, which is equality only where no element is there twice
  (`SameArrays`, `EqualArrays`). `RegularInput` says so: string keys, no key and no
  element twice, no options.
* `DiffEveryDocumentOnce`: `DiffSpec => []EveryDocumentOnce`, for every input and all
  options. The inductive invariant is `Once`: what is compared are the pairs and the
  documents alone (`Compared`), picked diffs share no document (`Apart`), each document
  is picked or its diff with nothing is still to come (`Accounted`: that diff is the one
  that only the document itself can keep from being picked), and what `sortResult`
  returns has each document once (`Printed`, from `SortedCompletes`). Nothing is asked of
  the order in which `Foremost` hands out the diffs.
* `DiffEqualDocumentsPaired`: `DiffSpec => []EqualDocumentsPaired`. `Paired` adds that two
  equal documents are picked as a pair, or that pair is still to come and neither is
  taken. It stays so because the sort puts what is the same first, and because, where
  no list has a document twice, two diffs that are the same share no document
  (`SameIsDisjoint`, from `SameIsEqual`). The size of a diff, which may be 0 for what
  differs, plays no part: the proof does not unfold it.

These are theorems of `DiffSpec`, which ends when `Do` returns. Printing changes
nothing but `phase` (`DumpResult`), and `library` checks the same properties there. `Once`
and `Paired` were model-checked on the inputs of `library`.

About the validator, for documents of any size and depth (`ValidatorAssumption`):

* `ValidatorVerdictMeansHas`: `ValidatorSpec => []VerdictMeansHas`. `FilterFacts` and
  `VanishingIsFiltered` say which fields the first pass leaves, `CleanValueFacts` what the
  second does to one field. The verdict compares what is cleaned with its reference,
  and `CleanIsReference` says field by field when they are equal. The rest are two
  inductions on the height: in lists nothing is filtered, and being equal after
  cleaning is `Has` with every field required (`CleanMeansHas`, `ListHas`); outside of
  them both sides were filtered before, and it is `Has` without the fields that vanish
  (`FilteredMeansHas`).

### Left to TLC

* Liveness under fairness: `EventuallySettles`, `EventuallyApplied`, `EventuallyServed`,
  `ClaimChangesWarned`.
* `DumpIsPatch`: it compares bags of the lines that recursive operators print.
* `NoLostWakeup` where others plant an object and then leave it alone (`traffic`): it is
  false where they do not, and the theorem leaves planting out.
* The five violations, which are counterexamples.

## Not modelled, and why

* Rendering of templates and hashing: contents are opaque; whether a liveness path
  renders is kept.
* Foreground deletion (a Phare with a deletion timestamp): the reconciler does not
  look at it and makes children again while the collector deletes them; it is
  listed as a hazard. Missing CRDs,
  owner-reference failures, and the unreachable default branch of
  `reconcileMicroService`.
* Several operators at once: leader election is on in `config/manager`.
* `main.go`, `pkg/deepcopy`, generated code: no behaviour of their own.
* Services of type LoadBalancer and ExternalName: what the API server does to their
  node ports depends on further fields.
* YAML parsing and the layout of dumps (indentation, headings, colours).

## Plan

Done: the operator and its cluster with the abstract controller and the
refinement proved, the pod template with claims, the Service, the algorithms,
type correctness of the operator, the Service and the workload, and the safety
theorems above, those of the diff and the validator included. What could follow, in this order:

1. Foreground deletion: a deletion timestamp on the Phare, children blocked by
   owner references, passes over a Phare that is going away.
2. A proof of `DumpIsPatch`, for which the dump has to become a function on diffs of
   bounded depth and a theory of bags is needed.
