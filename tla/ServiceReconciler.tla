-------------------------- MODULE ServiceReconciler --------------------------
(***************************************************************************)
(* The Service of one Phare, field by field: reconcileService against an   *)
(* API server that allocates node ports, fills in defaults and rejects     *)
(* what it finds contradictory, and against others who edit the Service.   *)
(*                                                                         *)
(* Of a port we keep its name, its number, its target and its node port;   *)
(* of the other fields one that may be left out and has a default          *)
(* (affinity), one that may be left out and has none (external, the        *)
(* external IPs), and the metadata.  The cluster IP and what else the      *)
(* merge copies from the Service that exists never differ and are left     *)
(* out.  The API server is that of Kubernetes 1.26, which the Makefile     *)
(* tests against.                                                          *)
(***************************************************************************)
EXTENDS Integers, Sequences, SequencesExt, FiniteSetsExt

CONSTANTS
    Phares,      \* what users ask for: [service, meta, reallocate]
    Pool,        \* node ports the API server allocates from
    Meddled,     \* what others do to the Service: <<field, value>>
    Unset,       \* a field that is left out
    Cleared,     \* a list that is given and empty
    Nothing,     \* no Service, no pass
    MaxEdits,    \* bound on the edits of the Phare
    MaxMeddling  \* bound on the edits of the Service by others

ASSUME ServiceAssumption == MaxEdits \in Nat /\ MaxMeddling \in Nat

ServiceFields == {"type", "ports", "affinity", "external"}
PortFields == {"name", "number", "target", "node"}

\* Phares have every field, a type of those whose node ports are modelled, and a list
\* of ports with a number each; a mark for what is left out is no value; and others give
\* values to fields other than the type and the ports.
ASSUME FieldsAssumption ==
    /\ \A p \in Phares : p.service # Nothing =>
          /\ DOMAIN p.service = ServiceFields
          /\ p.service.type \in {Unset, "ClusterIP", "NodePort"}
          /\ Len(p.service.ports) \in Nat /\ DOMAIN p.service.ports = 1 .. Len(p.service.ports)
          /\ \A i \in DOMAIN p.service.ports :
                LET port == p.service.ports[i]
                IN  port = [f \in PortFields |-> port[f]] /\ port.number # Unset
    /\ Unset \notin Pool \cup {Cleared, "None", "NodePort"}
    /\ \A m \in Meddled : m[1] \in {"meta", "affinity", "external"} /\ m[2] \notin {Unset, Cleared}

VARIABLES
    phare,    \* what the Phare asks for
    live,     \* the Service in the API server, or Nothing
    pass,     \* the pass under way: the Phare and the Service it has read, or Nothing
    dirty,    \* whether a pass is due
    edits,    \* edits left
    meddling  \* edits by others left

vars == <<phare, live, pass, dirty, edits, meddling>>

-----------------------------------------------------------------------------
(* Ports *)

\* A port is known by its name, or by its number where it has no name.
Identity(port) == IF port.name = Unset THEN port.number ELSE port.name

PortOf(ports, id) ==
    LET found == {i \in DOMAIN ports : Identity(ports[i]) = id} IN ports[Max(found)]

Identities(ports) == {Identity(ports[i]) : i \in DOMAIN ports}

NodePorts(ports) == {ports[i].node : i \in DOMAIN ports} \ {Unset}

\* Faulty: ports are matched by their place in the list.
KeepNodePortsByPlace(existing, desired) ==
    [i \in DOMAIN desired |->
        IF desired[i].node = Unset /\ i \in DOMAIN existing
        THEN [desired[i] EXCEPT !.node = existing[i].node] ELSE desired[i]]

\* A port that does not ask for a node port keeps the one it has.
KeepNodePorts(existing, desired) ==
    [i \in DOMAIN desired |->
        IF desired[i].node = Unset /\ Identity(desired[i]) \in Identities(existing)
        THEN [desired[i] EXCEPT !.node = PortOf(existing, Identity(desired[i])).node]
        ELSE desired[i]]

-----------------------------------------------------------------------------
(* reconcile_service.go *)

Desired(asked) ==
    LET given == asked.service
    IN  [type |-> IF given.type = Unset THEN "ClusterIP" ELSE given.type, ports |-> given.ports,
         affinity |-> given.affinity, external |-> given.external, meta |-> asked.meta]

Merged(existing, desired, preserve) ==
    [desired EXCEPT !.ports = IF preserve THEN KeepNodePorts(existing.ports, @) ELSE @]

\* Left-out fields are taken to ask for what is there.
Normalized(existing, desired) ==
    [desired EXCEPT !.affinity = IF @ = Unset THEN existing.affinity ELSE @,
                    !.external = IF @ = Unset THEN existing.external ELSE @]

\* Through JSON an empty list is a list that is left out.
Canonical(service) == [service EXCEPT !.external = IF @ = Cleared THEN Unset ELSE @]

\* Faulty: fields that the user left out count as differences.
DiffersStrictly(existing, asked) ==
    Canonical(Merged(existing, Desired(asked), ~asked.reallocate)) # Canonical(existing)

\* Faulty: the labels and annotations are not compared.
DiffersInSpec(existing, asked) ==
    LET merged == Normalized(existing, Merged(existing, Desired(asked), ~asked.reallocate))
    IN  [Canonical(merged) EXCEPT !.meta = existing.meta] # Canonical(existing)

Differs(existing, asked) ==
    Canonical(Normalized(existing, Merged(existing, Desired(asked), ~asked.reallocate)))
        # Canonical(existing)

-----------------------------------------------------------------------------
(* The API server *)

\* What the Service had is put back where the update leaves it out: node ports that
\* are of no use any more are dropped, others kept by the name of the port.
Carried(old, new) ==
    LET was     == old.ports
        ports   == new.ports
        used    == NodePorts(was) \cap NodePorts(ports)
        had(p)  == {was[i].node : i \in {k \in DOMAIN was : was[k].name = p.name}} \ used
        node(p) == CASE old.type # "NodePort" -> p.node
                     [] old.type = "NodePort" /\ new.type = "NodePort" ->
                          IF p.node = Unset /\ had(p) # {} THEN CHOOSE n \in had(p) : TRUE ELSE p.node
                     [] OTHER -> IF NodePorts(was) = NodePorts(ports) THEN Unset ELSE p.node
    IN  [new EXCEPT !.ports = [i \in DOMAIN ports |-> [ports[i] EXCEPT !.node = node(ports[i])]]]

Accepted(new) ==
    /\ \A i, j \in DOMAIN new.ports :
         new.ports[i].node = new.ports[j].node /\ new.ports[i].node # Unset => i = j
    /\ new.type = "ClusterIP" => NodePorts(new.ports) = {}

\* The Services that new may be stored as: each missing node port is allocated.
StoredAs(new) ==
    LET missing == {i \in DOMAIN new.ports : new.type = "NodePort" /\ new.ports[i].node = Unset}
        filled(node) == [i \in DOMAIN new.ports |->
                           [new.ports[i] EXCEPT
                               !.node = IF i \in missing THEN node[i] ELSE @,
                               !.target = IF @ = Unset THEN new.ports[i].number ELSE @]]
    IN  {[Canonical(new) EXCEPT !.affinity = IF @ = Unset THEN "None" ELSE @, !.ports = filled(node)] :
            node \in {f \in [missing -> Pool \ NodePorts(new.ports)] :
                        \A i, j \in missing : f[i] = f[j] => i = j}}

-----------------------------------------------------------------------------
(* Behaviour *)

Init ==
    /\ phare \in Phares
    /\ live = Nothing
    /\ pass = Nothing
    /\ dirty = TRUE
    /\ edits = MaxEdits
    /\ meddling = MaxMeddling

\* A pass reads the Phare and its Service.
Begin ==
    /\ dirty /\ pass = Nothing
    /\ pass' = [phare |-> phare, base |-> live]
    /\ dirty' = FALSE
    /\ UNCHANGED <<phare, live, edits, meddling>>

Finish == pass' = Nothing /\ UNCHANGED <<phare, edits, meddling>>

\* There is no Service and none is asked for, or nothing differs.
Keep ==
    /\ pass # Nothing
    /\ IF pass.base = Nothing
       THEN pass.phare.service = Nothing
       ELSE pass.phare.service # Nothing /\ ~Differs(pass.base, pass.phare)
    /\ Finish /\ UNCHANGED <<live, dirty>>

DeleteService ==
    /\ pass # Nothing /\ pass.base # Nothing /\ pass.phare.service = Nothing
    /\ live' = Nothing
    /\ dirty' = TRUE
    /\ Finish

\* Faulty: what was sent is taken for what the API server stored.
CreateServiceRaw ==
    /\ pass # Nothing /\ pass.base = Nothing /\ pass.phare.service # Nothing
    /\ live' = Desired(pass.phare)
    /\ dirty' = TRUE
    /\ Finish

CreateService ==
    /\ pass # Nothing /\ pass.base = Nothing /\ pass.phare.service # Nothing
    /\ IF Accepted(Desired(pass.phare))
       THEN live' \in StoredAs(Desired(pass.phare))
       ELSE UNCHANGED live
    /\ dirty' = TRUE
    /\ Finish

\* The update carries the resource version that was read: it fails when the Service is
\* another one by now, and when the API server rejects it.  A failed pass is due again;
\* an update that changes nothing is no event.
UpdateService ==
    /\ pass # Nothing /\ pass.base # Nothing /\ pass.phare.service # Nothing
    /\ Differs(pass.base, pass.phare)
    /\ LET merged == Merged(pass.base, Desired(pass.phare), ~pass.phare.reallocate)
           new    == Carried(pass.base, merged)
       IN  IF live = pass.base /\ Accepted(new)
           THEN /\ live' \in StoredAs(new)
                /\ dirty' = (dirty \/ live' # live)
           ELSE UNCHANGED live /\ dirty' = TRUE
    /\ Finish

EditPhare ==
    /\ edits > 0
    /\ edits' = edits - 1
    /\ phare' \in Phares \ {phare}
    /\ dirty' = TRUE
    /\ UNCHANGED <<live, pass, meddling>>

\* Others edit a field of the Service, or delete it.
Meddle ==
    /\ meddling > 0 /\ live # Nothing
    /\ meddling' = meddling - 1
    /\ live' \in {[live EXCEPT ![m[1]] = m[2]] : m \in Meddled} \cup {Nothing}
    /\ dirty' = TRUE
    /\ UNCHANGED <<phare, pass, edits>>

Controller == Begin \/ Keep \/ DeleteService \/ CreateService \/ UpdateService

Next == Controller \/ EditPhare \/ Meddle

Spec == Init /\ [][Next]_vars

\* The operator goes on; nobody has to edit or meddle.
FairSpec == Spec /\ WF_vars(Controller)

-----------------------------------------------------------------------------
(* Properties *)

\* The Service is always one the API server accepts and has completed.
TypeOK ==
    /\ phare \in Phares
    /\ live # Nothing => Accepted(live) /\ live \in StoredAs(live)
    /\ pass # Nothing => pass.phare \in Phares
    /\ dirty \in BOOLEAN
    /\ edits \in 0 .. MaxEdits /\ meddling \in 0 .. MaxMeddling

Updating == pass # Nothing /\ pass' = Nothing /\ live # Nothing /\ live' # Nothing

\* mergeServiceSpecPreservingImmutable: while the Service stays a NodePort one, an update
\* leaves every port that keeps its identity, and for which the Phare asks no node
\* port, the node port it has, whatever is added, dropped or reordered around it.
NodePortsStay ==
    [][(Updating /\ ~pass.phare.reallocate /\ live.type = "NodePort" /\ live'.type = "NodePort")
       => \A id \in Identities(live.ports) \cap Identities(live'.ports) :
            id \in Identities(pass.phare.service.ports)
            /\ PortOf(pass.phare.service.ports, id).node = Unset
            => PortOf(live'.ports, id).node = PortOf(live.ports, id).node]_vars

\* What a pass sends when there is a difference.
Request(base, asked) ==
    IF base = Nothing
    THEN Desired(asked)
    ELSE Carried(base, Merged(base, Desired(asked), ~asked.reallocate))

\* "Update when spec or controller-managed metadata changed": what a pass has brought
\* about, with what the API server has made of it, counts as no difference, where
\* reallocation is not asked for.  So an accepted update changes the Service, and the
\* next pass for the same Phare keeps what it finds.
PassesSettle ==
    [][(pass # Nothing /\ pass' = Nothing /\ live = pass.base /\ pass.phare.service # Nothing
        /\ ~pass.phare.reallocate /\ Accepted(Request(live, pass.phare)) /\ live' # Nothing)
       => ~Differs(live', pass.phare)]_vars

\* The Service gives what the Phare asks for: each port with its number, target and
\* node port, the type, the metadata, and the optional fields where they are given.
Served ==
    IF phare.service = Nothing
    THEN live = Nothing
    ELSE LET want  == Desired(phare)
             asked == Canonical(want)
         IN  /\ live # Nothing
             /\ <<live.type, live.meta>> = <<want.type, want.meta>>
             /\ Len(live.ports) = Len(want.ports)
             /\ \A i \in DOMAIN want.ports :
                  LET p == live.ports[i]
                      w == want.ports[i]
                  IN  /\ <<p.name, p.number>> = <<w.name, w.number>>
                      /\ w.target # Unset => p.target = w.target
                      /\ w.node # Unset => p.node = w.node
             /\ want.affinity # Unset => live.affinity = want.affinity
             /\ want.external # Unset => live.external = asked.external

\* Once users and others leave it alone the Service comes to give what is asked for.
EventuallyServed == <>[]Served
=============================================================================
