---------------------------- MODULE PodTemplate -----------------------------
(***************************************************************************)
(* How a Deployment or a StatefulSet that exists takes over a new pod      *)
(* template: the builders newDeployment and newStatefulSet, the merge of   *)
(* workload_merge.go, and what the API server makes of the patch.          *)
(*                                                                         *)
(* Of a container we keep its name, the fields the merge overwrites        *)
(* (managed), one of them that the API server fills in when it is left out *)
(* (defaulted: the API version of a field reference in the environment,    *)
(* say), those it also fills in and that the comparison before the patch   *)
(* ignores (timing: the timeouts, periods, thresholds and scheme of the    *)
(* probes), the volumes it mounts, and the fields the merge leaves alone   *)
(* (other: a security context, say; of these, too, the comparison ignores  *)
(* some, which never differ).  A Deployment is a workload without volume   *)
(* claim templates.                                                        *)
(***************************************************************************)
EXTENDS Integers, Sequences, SequencesExt

CONSTANTS
    Names,    \* of containers, volumes and claims
    Values,   \* of the fields we tell apart
    Labels,   \* of pods
    Unset,    \* a field that is left out
    Default,  \* what the API server puts there
    Nothing   \* no workload, no pass

ASSUME TemplateAssumption ==
    /\ {"main", "config-volume"} \subseteq Names
    /\ {Unset, Default, "config", "touched"} \subseteq Values
    /\ Unset # "touched"

ConfigVolume == [name |-> "config-volume", source |-> "config"]

Containers ==
    [name : Names, managed : Values, defaulted : Values, timing : Values, other : Values,
     mounts : SUBSET Names]

Volumes == [name : Names, source : Values]

Claims == [name : Names, size : Values, mode : Values, status : Values]

Templates ==
    [labels : SUBSET Labels, rest : Values, containers : Seq(Containers), inits : Seq(Containers),
     volumes : Seq(Volumes)]

Workloads == [selector : SUBSET Labels, tpl : Templates, claims : Seq(Claims)]

\* The part of a Phare that its pods are made from.
Specs ==
    [labels : SUBSET Labels, rest : Values, config : BOOLEAN, image : Values, refs : Values,
     timing : Values, mounts : SUBSET Names, extra : Seq(Containers), inits : Seq(Containers), volumes : Seq(Volumes),
     claims : Seq(Claims)]

-----------------------------------------------------------------------------
(* Lists of named things *)

NamesOf(list) == {list[i].name : i \in DOMAIN list}

\* The last element of that name: later ones replace earlier ones in a Go map.
Named(list, name) ==
    list[CHOOSE i \in DOMAIN list :
            /\ list[i].name = name
            /\ \A j \in DOMAIN list : list[j].name = name => j <= i]

\* What is in list under these names, in order.
Within(list, names) ==
    LET upTo[n \in 0 .. Len(list)] ==
            IF n = 0 THEN <<>>
            ELSE IF list[n].name \in names THEN Append(upTo[n - 1], list[n]) ELSE upTo[n - 1]
    IN  upTo[Len(list)]

\* What is in list under none of them.
Without(list, names) == Within(list, NamesOf(list) \ names)

Distinct(list) == \A i, j \in DOMAIN list : list[i].name = list[j].name => i = j

-----------------------------------------------------------------------------
(* workload_merge.go *)

MergeContainer(existing, desired) ==
    [existing EXCEPT !.managed = desired.managed, !.defaulted = desired.defaulted,
                     !.timing = desired.timing, !.mounts = desired.mounts]

\* Faulty: containers that are not desired are left out.
MergeContainersDropping(existing, desired) ==
    LET known == Within(existing, NamesOf(desired))
    IN  [i \in DOMAIN known |-> MergeContainer(known[i], Named(desired, known[i].name))]
        \o Without(desired, NamesOf(existing))

\* Faulty: it is not remembered which desired containers were met in the list.
MergeContainersAppending(existing, desired) ==
    [i \in DOMAIN existing |->
        IF existing[i].name \in NamesOf(desired)
        THEN MergeContainer(existing[i], Named(desired, existing[i].name))
        ELSE existing[i]]
    \o desired

MergeContainers(existing, desired) ==
    [i \in DOMAIN existing |->
        IF existing[i].name \in NamesOf(desired)
        THEN MergeContainer(existing[i], Named(desired, existing[i].name))
        ELSE existing[i]]
    \o Without(desired, NamesOf(existing))

\* Faulty: init containers are not asked what they mount.
MountedVolumeNamesNoInit(containers, inits) ==
    UNION {containers[i].mounts : i \in DOMAIN containers}

MountedVolumeNames(containers, inits) ==
    UNION ({containers[i].mounts : i \in DOMAIN containers} \cup {inits[i].mounts : i \in DOMAIN inits})

\* A volume that is not desired stays as long as a container mounts it.
MergeVolumes(existing, desired, containers, inits) ==
    LET kept == Within(existing, NamesOf(desired) \cup MountedVolumeNames(containers, inits))
    IN  [i \in DOMAIN kept |-> IF kept[i].name \in NamesOf(desired)
                               THEN Named(desired, kept[i].name) ELSE kept[i]]
        \o Without(desired, NamesOf(existing))

\* mergeDeployments and mergeStatefulSets; rest stands for the fields that are
\* replaced outright: replicas, annotations, tolerations, affinity.
Merge(existing, desired) ==
    LET containers == MergeContainers(existing.containers, desired.containers)
        inits      == MergeContainers(existing.inits, desired.inits)
    IN  [labels |-> desired.labels, rest |-> desired.rest,
         containers |-> containers, inits |-> inits,
         volumes |-> MergeVolumes(existing.volumes, desired.volumes, containers, inits)]

-----------------------------------------------------------------------------
(* The comparison before the patch *)

\* Faulty: no field of a container is ignored.
WholeContainers(containers) == containers

\* podTemplateCompareOptions: what cmp.Diff looks at in containers.
ComparedContainers(containers) == [i \in DOMAIN containers |-> [containers[i] EXCEPT !.timing = Unset]]

ComparedTemplate(tpl) ==
    [tpl EXCEPT !.containers = ComparedContainers(@), !.inits = ComparedContainers(@)]

\* cmp.Diff finds nothing between what was read and what was merged.  It tells an empty
\* list, as the merge makes it, from the nil list that an object without elements is
\* read with.
SameToDiff(base, merged) ==
    /\ ComparedTemplate(base) = ComparedTemplate(merged)
    /\ merged.inits # <<>> /\ merged.volumes # <<>>

-----------------------------------------------------------------------------
(* The builders *)

\* addConfigVolumeToSpec puts the config volume and its mount first.
Build(spec) ==
    LET main == [name |-> "main", managed |-> spec.image, defaulted |-> spec.refs,
                 timing |-> spec.timing, other |-> Unset,
                 mounts |-> spec.mounts \cup (IF spec.config THEN {ConfigVolume.name} ELSE {})]
    IN  [labels     |-> spec.labels, rest |-> spec.rest,
         containers |-> <<main>> \o spec.extra,
         inits      |-> spec.inits,
         volumes    |-> (IF spec.config THEN <<ConfigVolume>> ELSE <<>>) \o spec.volumes]

\* The object newStatefulSet makes; a Deployment has no claims.
NewWorkload(spec) == [selector |-> spec.labels, tpl |-> Build(spec), claims |-> spec.claims]

\* Faulty: claims of the same names are equal.
VctEqualByName(a, b) == NamesOf(a) = NamesOf(b)

\* vctEqual: reflect.DeepEqual of what was read and what the Phare says.
VctEqual(a, b) == a = b

-----------------------------------------------------------------------------
(* The API server *)

Filled(value) == IF value = Unset THEN Default ELSE value

\* The containers as they are stored: every field that was left out has its default.
WithDefaults(containers) ==
    [i \in DOMAIN containers |->
        [containers[i] EXCEPT !.defaulted = Filled(@), !.timing = Filled(@), !.other = Filled(@)]]

Stored(tpl) == [tpl EXCEPT !.containers = WithDefaults(@), !.inits = WithDefaults(@)]

\* Claim templates as they are stored: with a volume mode and a status.
StoredClaims(claims) ==
    [i \in DOMAIN claims |-> [claims[i] EXCEPT !.mode = Filled(@), !.status = Filled(@)]]

\* Every mount has its volume or its claim, and no name is used twice.
Resolves(tpl, claims) ==
    /\ \A c \in ToSet(tpl.containers \o tpl.inits) :
          c.mounts \subseteq NamesOf(tpl.volumes) \cup NamesOf(claims)
    /\ Distinct(tpl.containers \o tpl.inits)
    /\ Distinct(tpl.volumes)

\* The selector is immutable and must select the pods of the template.
Valid(workload) ==
    /\ Resolves(workload.tpl, workload.claims)
    /\ workload.selector \subseteq workload.tpl.labels

\* A merge patch carries every field on which base and new differ, lists as a whole.
Patched(live, base, new) ==
    Stored([f \in DOMAIN live |-> IF new[f] = base[f] THEN live[f] ELSE new[f]])
=============================================================================
