---------------------------- MODULE PhareObjects ----------------------------
(***************************************************************************)
(* The objects the Phare operator works on and the pure functions of its   *)
(* reconcilers: which children a Phare asks for, what each builder puts    *)
(* into a child, and what each reconciler changes in a child that already  *)
(* exists.  Everything is about ONE Phare name in one namespace: the       *)
(* children carry names derived from it, so Phares never share children.   *)
(*                                                                         *)
(* A child's specification is one of a few opaque Values.  Of its metadata *)
(* we keep what the controller decides on: the controller owner reference  *)
(* (a Phare uid), whether app.kubernetes.io/created-by=phare-controller is *)
(* on it, and, for workloads, the checksum annotation of the pod template. *)
(***************************************************************************)
EXTENDS Integers

CONSTANTS
    Values,       \* opaque contents of a child object
    Specs,        \* the Phare specifications users may write
    BadTemplates, \* pod templates whose liveness probe does not render
    None,         \* nothing: a nil pointer, a missing object, no request
    Empty         \* a ConfigMap without data (config: {})

\* The optional children in the order reconcileResources visits them.
OptionalKinds == {"ConfigMap", "Service", "HTTPRoute", "GCPBackendPolicy", "HealthCheckPolicy"}

WorkloadKinds == {"Deployment", "StatefulSet"}

PolicyKinds == {"GCPBackendPolicy", "HealthCheckPolicy"}

ChildKinds == OptionalKinds \cup WorkloadKinds

Kinds == ChildKinds \cup {"Phare"}

OtherWorkload(kind) == IF kind = "Deployment" THEN "StatefulSet" ELSE "Deployment"

Contents == Values \cup {Empty}

\* relabel: the Phare's own labels set app.kubernetes.io/created-by to another value.
SpecType == [kind     : WorkloadKinds,
             template : Values,
             want     : [OptionalKinds -> Contents \cup {None}],
             relabel  : BOOLEAN]

ASSUME SpecsAssumption == Specs \subseteq SpecType

(***************************************************************************)
(* The phase and the message of a Phare's status are one value: "" before  *)
(* the first write, "Active", or the error with which the phase Failed was *)
(* written.                                                                *)
(***************************************************************************)
Errors == {"api", "conflict", "notfound", "exists", "build", "hash"}

Statuses == {"", "Active"} \cup Errors

\* No Phare has the uid Foreign: an object nobody, or another controller, owns.
Foreign == 0

PhareObject == [uid : Nat \ {Foreign}, spec : Specs, status : Statuses]

ChildObject == [owner : Nat, val : Contents, label : BOOLEAN, sum : Contents \cup {None}]

ObjectOf(k) == IF k = "Phare" THEN PhareObject ELSE ChildObject

\* What a read returns: the object, or None, and the resource version it had.
Snapshot(k) == [rv : Nat, val : ObjectOf(k) \cup {None}]

\* What is there is not nothing.
ASSUME NoneAssumption ==
    /\ None \notin Contents
    /\ \A k \in Kinds : None \notin ObjectOf(k) /\ None \notin Snapshot(k)

-----------------------------------------------------------------------------
(* The desired children *)

\* The ConfigMap is mounted and hashed only when it has data: len(config) > 0.
HasConfig(spec) == spec.want["ConfigMap"] \in Values

Wanted(k, spec) == IF k \in WorkloadKinds THEN k = spec.kind ELSE spec.want[k] # None

\* The label a builder puts on the child.  The labels of the Phare are merged
\* over the controller's own, for the Service alone.
BuiltLabel(k, spec) == k = "Service" => ~spec.relabel

\* The child that a builder returns for this Phare; hash is the checksum just read.
Desired(k, phare, hash) ==
    [owner |-> phare.uid,
     val   |-> IF k \in WorkloadKinds THEN phare.spec.template ELSE phare.spec.want[k],
     label |-> BuiltLabel(k, phare.spec),
     sum   |-> IF k \in WorkloadKinds THEN hash ELSE None]

\* Faulty: the labels of the route are lost as those of the policies are.
MergedRouteUnlabelled(k, child, want) ==
    CASE k = "ConfigMap"    -> [child EXCEPT !.val = want.val]
      [] k = "Service"      -> [child EXCEPT !.val = want.val, !.label = want.label]
      [] k \in PolicyKinds \cup {"HTTPRoute"}
                            -> [child EXCEPT !.val = want.val, !.label = FALSE]
      [] k \in WorkloadKinds -> [child EXCEPT !.val = want.val, !.sum = want.sum]

(***************************************************************************)
(* The existing child after its reconciler has copied the desired fields   *)
(* over it.  A ConfigMap keeps its labels; a workload keeps its object     *)
(* labels.  No reconciler repairs the owner reference.  The labels of a    *)
(* policy are built as a map[string]string inside an unstructured object,  *)
(* where GetLabels finds none: what is copied over is the empty map.       *)
(***************************************************************************)
Merged(k, child, want) ==
    CASE k = "ConfigMap"               -> [child EXCEPT !.val = want.val]
      [] k \in {"Service", "HTTPRoute"} -> [child EXCEPT !.val = want.val, !.label = want.label]
      [] k \in PolicyKinds             -> [child EXCEPT !.val = want.val, !.label = FALSE]
      [] k \in WorkloadKinds           -> [child EXCEPT !.val = want.val, !.sum = want.sum]

\* The verb of the write: ConfigMaps and Services are replaced with Update, the
\* others patched with the difference to the object that was read.
ModifyVerb(k) == IF k \in {"ConfigMap", "Service"} THEN "update" ELSE "patch"

\* ConfigMaps and Services are deleted whoever owns them.
MayDelete(k, child, phare) ==
    k \in {"ConfigMap", "Service"} \/ child.owner = phare.uid

\* A merge patch carries the fields on which new differs from base; the others
\* stay as they are in the live object.
Patch(live, base, new) ==
    [live EXCEPT !.val   = IF new.val = base.val THEN @ ELSE new.val,
                 !.label = IF new.label = base.label THEN @ ELSE new.label,
                 !.sum   = IF new.sum = base.sum THEN @ ELSE new.sum]
=============================================================================
