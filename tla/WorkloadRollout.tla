-------------------------- MODULE WorkloadRollout ---------------------------
(***************************************************************************)
(* One workload over time: users change the pod part of the Phare, others  *)
(* inject sidecars into the workload and touch its containers, and         *)
(* reconcileDeployment / reconcileStatefulSet read it, merge and patch.    *)
(***************************************************************************)
EXTENDS PodTemplate

CONSTANTS
    PodSpecs,   \* the pod parts users write
    Sidecars,   \* what others inject: [list, container, volumes]
    MaxEdits,   \* bound on the edits of the Phare
    MaxOthers   \* bound on what others do to the workload

ASSUME RolloutAssumption ==
    /\ PodSpecs \subseteq Specs
    /\ Sidecars \subseteq [list : {"containers", "inits"}, container : Containers, volumes : Seq(Volumes)]
    /\ Nothing \notin Workloads
    /\ MaxEdits \in Nat /\ MaxOthers \in Nat

Passes == [base : Workloads \cup {Nothing}, sent : Workloads, warned : BOOLEAN]

VARIABLES
    spec,   \* the pod part of the live Phare
    live,   \* the workload in the API server, or Nothing
    pass,   \* the pass under way: the workload it has read, what it sends, and whether it
            \* has warned of the claim templates; or Nothing
    dirty,  \* whether a pass is due
    edits,  \* edits left
    others  \* interventions left

vars == <<spec, live, pass, dirty, edits, others>>

Init ==
    /\ spec \in PodSpecs
    /\ live = Nothing
    /\ pass = Nothing
    /\ dirty = TRUE
    /\ edits = MaxEdits
    /\ others = MaxOthers

\* A pass reads the Phare and the workload, builds what it will send, and warns when
\* the claim templates differ: they are immutable, and never sent again.
Begin ==
    /\ dirty /\ pass = Nothing
    /\ LET new == NewWorkload(spec)
       IN  pass' = IF live = Nothing
                   THEN [base |-> Nothing, sent |-> new, warned |-> FALSE]
                   ELSE [base   |-> live,
                         sent   |-> [live EXCEPT !.tpl = Merge(live.tpl, new.tpl)],
                         warned |-> ~VctEqual(live.claims, new.claims)]
    /\ dirty' = FALSE
    /\ UNCHANGED <<spec, live, edits, others>>

\* Faulty: what was sent is taken for what the API server stored.
CreateRaw ==
    /\ pass # Nothing /\ pass.base = Nothing
    /\ live' = pass.sent
    /\ dirty' = TRUE
    /\ pass' = Nothing
    /\ UNCHANGED <<spec, edits, others>>

\* The workload is created with its pod labels as the selector, if it is valid.
Create ==
    /\ pass # Nothing /\ pass.base = Nothing
    /\ live' = IF Valid(pass.sent)
               THEN [pass.sent EXCEPT !.tpl = Stored(@), !.claims = StoredClaims(@)]
               ELSE Nothing
    /\ dirty' = TRUE
    /\ pass' = Nothing
    /\ UNCHANGED <<spec, edits, others>>

\* Faulty: only the containers are compared.
NoDiffInContainers ==
    ComparedContainers(pass.sent.tpl.containers) = ComparedContainers(pass.base.tpl.containers)

\* The merge replaces nothing of a workload but what is in its template here.
NoDiff == SameToDiff(pass.base.tpl, pass.sent.tpl)

\* Nothing is sent when the comparison finds no change in what was read.
Keep ==
    /\ pass # Nothing /\ pass.base # Nothing
    /\ NoDiff
    /\ pass' = Nothing
    /\ UNCHANGED <<spec, live, dirty, edits, others>>

\* The patch is made from what was read and applied to what is there.  A patch the
\* API server rejects fails the pass; one that changes the workload is an event.
PatchWorkload ==
    /\ pass # Nothing /\ pass.base # Nothing
    /\ ~NoDiff
    /\ LET new == [live EXCEPT !.tpl = Patched(@, pass.base.tpl, pass.sent.tpl)]
       IN  /\ live' = IF Valid(new) THEN new ELSE live
           /\ dirty' = (dirty \/ ~Valid(new) \/ live' # live)
    /\ pass' = Nothing
    /\ UNCHANGED <<spec, edits, others>>

EditSpec ==
    /\ edits > 0
    /\ edits' = edits - 1
    /\ spec' \in PodSpecs \ {spec}
    /\ dirty' = TRUE
    /\ UNCHANGED <<live, pass, others>>

\* Somebody adds a sidecar and its volumes to the pod template.
Inject ==
    /\ others > 0 /\ live # Nothing
    /\ others' = others - 1
    /\ \E sidecar \in Sidecars :
         LET tpl == [live.tpl EXCEPT ![sidecar.list] = Append(@, sidecar.container),
                                     !.volumes = @ \o Without(sidecar.volumes, NamesOf(@))]
         IN  /\ Valid([live EXCEPT !.tpl = tpl])
             /\ live' = [live EXCEPT !.tpl = Stored(tpl)]
    /\ dirty' = TRUE
    /\ UNCHANGED <<spec, pass, edits>>

\* Somebody changes a field of a container: a managed one, one that the comparison
\* ignores, or one the merge leaves alone.
Touch ==
    /\ others > 0 /\ live # Nothing
    /\ others' = others - 1
    /\ \E i \in DOMAIN live.tpl.containers, field \in {"managed", "timing", "other"} :
         live' = [live EXCEPT !.tpl.containers[i][field] = "touched"]
    /\ live' # live
    /\ dirty' = TRUE
    /\ UNCHANGED <<spec, pass, edits>>

Controller == Begin \/ Create \/ Keep \/ PatchWorkload

Next == Controller \/ EditSpec \/ Inject \/ Touch

Spec == Init /\ [][Next]_vars

\* The operator goes on; nobody has to edit, inject or touch.
FairSpec == Spec /\ WF_vars(Controller)

-----------------------------------------------------------------------------
(* Properties *)

\* The workload is always one the API server accepts, with its defaults filled in.
TypeOK ==
    /\ spec \in PodSpecs
    /\ live \in Workloads \cup {Nothing}
    /\ pass \in Passes \cup {Nothing}
    /\ live # Nothing => /\ Valid(live)
                         /\ live.tpl = Stored(live.tpl) /\ live.claims = StoredClaims(live.claims)
    /\ pass # Nothing => (pass.base # Nothing => live # Nothing)
    /\ dirty \in BOOLEAN
    /\ edits \in 0 .. MaxEdits /\ others \in 0 .. MaxOthers

\* What mergeDeployments makes of a workload that resolves and a Phare that resolves
\* has every mount's volume and no name twice, whatever has been injected: removing
\* the config or a volume never leaves a container with a mount to nothing.
MergeResolves == pass # Nothing => Resolves(pass.sent.tpl, pass.sent.claims)

\* A Phare that leaves no compared field of its containers to the API server, and
\* has init containers and volumes.
Explicit(part) ==
    /\ \A c \in ToSet(Build(part).containers \o Build(part).inits) : c.defaulted # Unset
    /\ part.inits # <<>> /\ Build(part).volumes # <<>>

\* The pass at hand was made from the workload as it still is and from the pod part as
\* it still is.
UpToDate ==
    /\ pass.base = live
    /\ pass.sent.tpl = IF live = Nothing THEN Build(spec) ELSE Merge(live.tpl, Build(spec))

\* reconcileDeployment and reconcileStatefulSet patch only if they found changes: what
\* a pass has brought about that nobody wrote in between, with every default the API
\* server put into it, is no difference to the next pass.  That needs an explicit
\* Phare: a compared field that is left out, or a list, is patched again in every pass.
PatchesSettle ==
    [][(pass # Nothing /\ pass' = Nothing /\ UpToDate /\ Explicit(spec) /\ live' # live)
       => SameToDiff(live'.tpl, Merge(live'.tpl, Build(spec)))]_vars

InjectedNames == {sidecar.container.name : sidecar \in Sidecars}

\* The containers others have put into the workload.
Injected(tpl) == {c \in ToSet(tpl.containers \o tpl.inits) : c.name \in InjectedNames}

\* mergeDeployments keeps injected sidecars: no patch removes or changes one.
SidecarsKept ==
    [][(live # Nothing /\ pass # Nothing /\ pass' = Nothing)
       => Injected(live.tpl) \subseteq Injected(live'.tpl)]_vars

\* The same where nobody wrote between the read and the patch.
SidecarsKeptAlone ==
    [][(live # Nothing /\ pass # Nothing /\ pass' = Nothing /\ pass.base = live)
       => Injected(live.tpl) \subseteq Injected(live'.tpl)]_vars

\* The workload is what the Phare asks for and what others injected, and no more; only
\* the claim templates, and the timing of probes, may be as they were.
Applied ==
    LET want == Stored(Build(spec))
        tpl  == live.tpl
    IN  /\ live # Nothing
        /\ tpl.labels = want.labels /\ tpl.rest = want.rest
        /\ \A list \in {"containers", "inits"} :
             /\ NamesOf(want[list]) \subseteq NamesOf(tpl[list])
             /\ NamesOf(tpl[list]) \subseteq NamesOf(want[list]) \cup InjectedNames
             /\ \A i \in DOMAIN tpl[list] :
                  tpl[list][i].name \in NamesOf(want[list]) =>
                    LET c == tpl[list][i]
                        w == Named(want[list], c.name)
                    IN  <<c.managed, c.defaulted, c.mounts>> = <<w.managed, w.defaulted, w.mounts>>
        /\ NamesOf(tpl.volumes) =
             NamesOf(want.volumes)
               \cup (MountedVolumeNames(tpl.containers, tpl.inits) \ NamesOf(live.claims))

\* Once users and others leave it alone the workload comes to be what the Phare asks
\* for, whatever patches were rejected or overtaken on the way, and however the claim
\* templates differ.
EventuallyApplied == <>[]Applied

\* The claims in the cluster are not what those of the Phare would be stored as.
ClaimsDiffer == live # Nothing /\ live.claims # StoredClaims(spec.claims)

\* Whoever changes the claim templates is not left guessing: a pass is due, which may be
\* kept from it by one under way, and warns unless the change is taken back before.
ClaimChangesWarned ==
    (ClaimsDiffer /\ dirty) ~> (~ClaimsDiffer \/ (pass # Nothing /\ pass.warned))

\* The probes of a container that the Phare asks for have the timing it asks for.
TimingApplied ==
    LET want == Stored(Build(spec)).containers
    IN  /\ live # Nothing
        /\ \A i \in DOMAIN live.tpl.containers :
              LET c == live.tpl.containers[i]
              IN  c.name \in NamesOf(want) => c.timing = Named(want, c.name).timing

\* For containers that the controller manages the Phare is authoritative, in the end.
EventuallyAuthoritative == <>[]TimingApplied
=============================================================================
