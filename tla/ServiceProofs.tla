---------------------------- MODULE ServiceProofs ----------------------------
(***************************************************************************)
(* The Service is at all times one the API server accepts and has          *)
(* completed, its ports keep their node ports, and a pass leaves nothing   *)
(* for the next one: for all Phares, pools of node ports and interventions *)
(* that FieldsAssumption admits.                                           *)
(***************************************************************************)
EXTENDS ServiceReconciler, NumberFacts, TLAPS

Listed(ports) == \E n \in Nat : DOMAIN ports = 1 .. n

\* A Service that can be sent: it has its fields, and so has each port of its list.
Shape(s) ==
    /\ DOMAIN s = ServiceFields \cup {"meta"} /\ Listed(s.ports)
    /\ \A i \in DOMAIN s.ports : DOMAIN s.ports[i] = PortFields /\ s.ports[i].number # Unset

IsFunction(f) == f = [x \in DOMAIN f |-> f[x]]

\* A Service with everything filled in.  TypeOK says so by StoredAs; this is what it
\* says of each field, which an edit of a single field preserves.
Complete(s) ==
    /\ IsFunction(s) /\ IsFunction(s.ports)
    /\ Shape(s)
    /\ s.affinity # Unset /\ s.external # Cleared
    /\ \A i \in DOMAIN s.ports :
          /\ IsFunction(s.ports[i])
          /\ s.ports[i].target # Unset
          /\ s.type = "NodePort" => s.ports[i].node # Unset

\* A pass that has found no Service is alone with making it.
ServiceInv ==
    /\ TypeOK
    /\ live # Nothing => Complete(live)
    /\ pass # Nothing /\ pass.base = Nothing => live = Nothing

-----------------------------------------------------------------------------
(* What is sent *)

LEMMA DesiredShape ==
    ASSUME NEW p \in Phares, p.service # Nothing
    PROVE  Shape(Desired(p))
<1>1. /\ DOMAIN p.service = ServiceFields /\ Listed(p.service.ports)
      /\ \A i \in DOMAIN p.service.ports :
            DOMAIN p.service.ports[i] = PortFields /\ p.service.ports[i].number # Unset
  BY FieldsAssumption DEF Listed
<1>2. DOMAIN Desired(p) = ServiceFields \cup {"meta"} /\ Desired(p).ports = p.service.ports
  BY DEF Desired, ServiceFields
<1> QED BY <1>1, <1>2 DEF Shape

LEMMA MergedShape ==
    ASSUME NEW old, NEW new, Shape(new), NEW preserve \in BOOLEAN
    PROVE  Shape(Merged(old, new, preserve))
<1> DEFINE ports == IF preserve THEN KeepNodePorts(old.ports, new.ports) ELSE new.ports
<1>1. /\ DOMAIN ports = DOMAIN new.ports
      /\ \A i \in DOMAIN ports : DOMAIN ports[i] = PortFields /\ ports[i].number = new.ports[i].number
  BY DEF Shape, KeepNodePorts, PortFields
<1>2. /\ DOMAIN Merged(old, new, preserve) = DOMAIN new
      /\ Merged(old, new, preserve).ports = ports
  BY DEF Merged, Shape, ServiceFields
<1> QED BY <1>1, <1>2 DEF Shape, Listed

LEMMA CarriedShape ==
    ASSUME NEW old, NEW new, Shape(new)
    PROVE  Shape(Carried(old, new))
<1> DEFINE c == Carried(old, new)
<1>1. DOMAIN c = DOMAIN new
  BY DEF Carried
<1>2. DOMAIN c.ports = DOMAIN new.ports
  BY DEF Carried, Shape, ServiceFields
<1>3. \A i \in DOMAIN new.ports : DOMAIN c.ports[i] = PortFields /\ c.ports[i].number = new.ports[i].number
  BY DEF Carried, Shape, ServiceFields, PortFields
<1> QED BY <1>1, <1>2, <1>3 DEF Shape, Listed

-----------------------------------------------------------------------------
(* What is stored *)

\* The node ports that the API server allocates for the ports that lack one.
Missing(new) == {i \in DOMAIN new.ports : new.type = "NodePort" /\ new.ports[i].node = Unset}

Allocations(new) ==
    {f \in [Missing(new) -> Pool \ NodePorts(new.ports)] :
        \A i, j \in Missing(new) : f[i] = f[j] => i = j}

Filled(new, node) ==
    [i \in DOMAIN new.ports |->
        [new.ports[i] EXCEPT !.node = IF i \in Missing(new) THEN node[i] ELSE @,
                             !.target = IF @ = Unset THEN new.ports[i].number ELSE @]]

StoredWith(new, node) ==
    [Canonical(new) EXCEPT !.affinity = IF @ = Unset THEN "None" ELSE @, !.ports = Filled(new, node)]

LEMMA StoredBy ==
    ASSUME NEW new
    PROVE  StoredAs(new) = {StoredWith(new, node) : node \in Allocations(new)}
BY DEF StoredAs, StoredWith, Missing, Allocations, Filled

\* The fields of what is stored, one by one.
LEMMA StoredFields ==
    ASSUME NEW new, Shape(new), NEW node \in Allocations(new), NEW s, s = StoredWith(new, node)
    PROVE  /\ IsFunction(s) /\ DOMAIN s = ServiceFields \cup {"meta"}
           /\ s.type = new.type
           /\ s.affinity # Unset /\ s.external # Cleared
           /\ s.ports = Filled(new, node) /\ IsFunction(s.ports) /\ DOMAIN s.ports = DOMAIN new.ports
           /\ \A i \in DOMAIN new.ports :
                 /\ IsFunction(s.ports[i]) /\ DOMAIN s.ports[i] = PortFields
                 /\ s.ports[i].number = new.ports[i].number
                 /\ s.ports[i].target # Unset
                 /\ s.ports[i].node = IF i \in Missing(new) THEN node[i] ELSE new.ports[i].node
<1> DEFINE c == Canonical(new)
<1>1. /\ IsFunction(c) /\ DOMAIN c = ServiceFields \cup {"meta"}
      /\ c.type = new.type /\ c.affinity = new.affinity /\ c.external # Cleared
  BY FieldsAssumption DEF Canonical, Shape, ServiceFields, IsFunction
<1>2. /\ IsFunction(s) /\ DOMAIN s = DOMAIN c
      /\ s.type = c.type /\ s.external = c.external
      /\ s.affinity = (IF c.affinity = Unset THEN "None" ELSE c.affinity)
      /\ s.ports = Filled(new, node)
  BY <1>1 DEF StoredWith, ServiceFields, IsFunction
<1>3. s.affinity # Unset
  BY <1>2, FieldsAssumption
<1>4. IsFunction(Filled(new, node)) /\ DOMAIN Filled(new, node) = DOMAIN new.ports
  BY DEF Filled, IsFunction
<1>5. ASSUME NEW i \in DOMAIN new.ports
      PROVE  /\ IsFunction(Filled(new, node)[i]) /\ DOMAIN Filled(new, node)[i] = PortFields
             /\ Filled(new, node)[i].number = new.ports[i].number
             /\ Filled(new, node)[i].target # Unset
             /\ Filled(new, node)[i].node = IF i \in Missing(new) THEN node[i] ELSE new.ports[i].node
  <2>1. DOMAIN new.ports[i] = PortFields /\ new.ports[i].number # Unset
    BY DEF Shape
  <2>2. Filled(new, node)[i] =
          [new.ports[i] EXCEPT !.node = IF i \in Missing(new) THEN node[i] ELSE @,
                               !.target = IF @ = Unset THEN new.ports[i].number ELSE @]
    BY DEF Filled
  <2> QED BY <2>1, <2>2 DEF IsFunction, PortFields
<1> QED BY <1>1, <1>2, <1>3, <1>4, <1>5

LEMMA StoredIsComplete ==
    ASSUME NEW new, Shape(new), NEW s \in StoredAs(new)
    PROVE  Complete(s)
<1>1. PICK node \in Allocations(new) : s = StoredWith(new, node)
  BY StoredBy
<1>2. ASSUME NEW i \in DOMAIN new.ports, s.type = "NodePort" PROVE s.ports[i].node # Unset
  <2>1. s.type = new.type /\ s.ports[i].node = IF i \in Missing(new) THEN node[i] ELSE new.ports[i].node
    BY <1>1, StoredFields
  <2>2. i \in Missing(new) => node[i] \in Pool
    BY DEF Allocations
  <2> QED BY <1>2, <2>1, <2>2, FieldsAssumption DEF Missing
<1>3. Listed(new.ports) /\ \A i \in DOMAIN new.ports : new.ports[i].number # Unset
  BY DEF Shape
<1>4. /\ IsFunction(s) /\ DOMAIN s = ServiceFields \cup {"meta"}
      /\ s.affinity # Unset /\ s.external # Cleared
      /\ IsFunction(s.ports) /\ DOMAIN s.ports = DOMAIN new.ports
  <2>1. s.ports = Filled(new, node) /\ IsFunction(s.ports)
    BY <1>1, StoredFields
  <2>2. IsFunction(s)
    BY <1>1, StoredFields, Zenon
  <2>4. DOMAIN s = ServiceFields \cup {"meta"}
    BY <1>1, StoredFields, SMTT(20)
  <2>3. s.affinity # Unset /\ s.external # Cleared /\ DOMAIN s.ports = DOMAIN new.ports
    BY <1>1, StoredFields
  <2> QED BY <2>1, <2>2, <2>3, <2>4
<1>5. ASSUME NEW i \in DOMAIN new.ports
      PROVE  /\ IsFunction(s.ports[i]) /\ DOMAIN s.ports[i] = PortFields
             /\ s.ports[i].number = new.ports[i].number /\ s.ports[i].target # Unset
  BY <1>1, StoredFields
<1> QED BY <1>2, <1>3, <1>4, <1>5 DEF Complete, Shape, Listed

\* The API server leaves a Service with everything filled in as it is.
LEMMA CompleteIsStored ==
    ASSUME NEW s, Complete(s)
    PROVE  s \in StoredAs(s)
<1> DEFINE node == [i \in {} |-> Unset]
<1>1. Missing(s) = {}
  BY DEF Missing, Complete
<1>2. node \in Allocations(s)
  BY <1>1 DEF Allocations
<1>3. \A i \in DOMAIN s.ports : Filled(s, node)[i] = s.ports[i]
  <2> TAKE i \in DOMAIN s.ports
  <2>1. /\ IsFunction(s.ports[i]) /\ DOMAIN s.ports[i] = PortFields /\ s.ports[i].target # Unset
    BY DEF Complete, Shape
  <2>2. Filled(s, node)[i] = [s.ports[i] EXCEPT !.node = @, !.target = @]
    BY <1>1, <2>1 DEF Filled
  <2> QED BY <2>1, <2>2 DEF IsFunction, PortFields
<1>4. Filled(s, node) = s.ports
  BY <1>3 DEF Filled, Complete, IsFunction
<1>5. Canonical(s) = s
  BY DEF Canonical, Complete, IsFunction, Shape, ServiceFields
<1>6. StoredWith(s, node) = s
  BY <1>4, <1>5 DEF StoredWith, Complete, IsFunction, Shape, ServiceFields
<1> QED BY <1>2, <1>6, StoredBy

\* Allocation never gives a node port twice, nor to a ClusterIP Service.
LEMMA StoredIsAccepted ==
    ASSUME NEW new, Shape(new), Accepted(new), NEW s \in StoredAs(new)
    PROVE  Accepted(s)
<1>1. PICK node \in Allocations(new) : s = StoredWith(new, node)
  BY StoredBy
<1>2. /\ s.type = new.type /\ DOMAIN s.ports = DOMAIN new.ports
      /\ \A i \in DOMAIN new.ports :
            s.ports[i].node = IF i \in Missing(new) THEN node[i] ELSE new.ports[i].node
  BY <1>1, StoredFields
<1>3. /\ \A i \in Missing(new) : node[i] \in Pool \ NodePorts(new.ports)
      /\ \A i, j \in Missing(new) : node[i] = node[j] => i = j
      /\ Missing(new) \subseteq DOMAIN new.ports
  BY DEF Allocations, Missing
<1>4. ASSUME NEW i \in DOMAIN s.ports, NEW j \in DOMAIN s.ports,
             s.ports[i].node = s.ports[j].node, s.ports[i].node # Unset
      PROVE  i = j
  <2>1. \A k \in DOMAIN new.ports : new.ports[k].node # Unset => new.ports[k].node \in NodePorts(new.ports)
    BY DEF NodePorts
  <2>2. CASE i \in Missing(new) /\ j \in Missing(new)
    BY <1>2, <1>3, <1>4, <2>2
  <2>3. CASE i \in Missing(new) /\ j \notin Missing(new)
    BY <1>2, <1>3, <1>4, <2>1, <2>3
  <2>4. CASE i \notin Missing(new) /\ j \in Missing(new)
    BY <1>2, <1>3, <1>4, <2>1, <2>4
  <2>5. CASE i \notin Missing(new) /\ j \notin Missing(new)
    BY <1>2, <1>4, <2>5 DEF Accepted
  <2> QED BY <2>2, <2>3, <2>4, <2>5
<1>5. ASSUME s.type = "ClusterIP" PROVE NodePorts(s.ports) = {}
  <2>1. Missing(new) = {} /\ NodePorts(new.ports) = {}
    BY <1>2, <1>5 DEF Missing, Accepted
  <2>2. \A i \in DOMAIN new.ports : s.ports[i].node = new.ports[i].node
    BY <1>2, <2>1
  <2> QED BY <1>2, <2>1, <2>2 DEF NodePorts
<1> QED BY <1>4, <1>5 DEF Accepted

\* So what is sent and accepted becomes a Service as ServiceInv wants it.
LEMMA Sent ==
    ASSUME NEW new, Shape(new), Accepted(new), live' \in StoredAs(new)
    PROVE  Accepted(live') /\ live' \in StoredAs(live') /\ Complete(live')
BY StoredIsComplete, StoredIsAccepted, CompleteIsStored

-----------------------------------------------------------------------------
(* The steps *)

LEMMA ServiceInit == Init => ServiceInv
BY ServiceAssumption DEF Init, ServiceInv, TypeOK

LEMMA MeddleKeeps ==
    ASSUME ServiceInv, Meddle
    PROVE  ServiceInv'
<1>1. CASE live' = Nothing
  BY <1>1, ServiceAssumption DEF ServiceInv, TypeOK, Meddle
<1>2. ASSUME NEW m \in Meddled, live' = [live EXCEPT ![m[1]] = m[2]] PROVE ServiceInv'
  <2>1. live # Nothing /\ Complete(live) /\ Accepted(live)
    BY DEF Meddle, ServiceInv, TypeOK
  <2>2. m[1] \in {"meta", "affinity", "external"} /\ m[2] \notin {Unset, Cleared}
    BY FieldsAssumption
  <2>3. /\ DOMAIN live' = DOMAIN live /\ IsFunction(live')
        /\ live'.ports = live.ports /\ live'.type = live.type
        /\ live'.affinity \in {live.affinity, m[2]} /\ live'.external \in {live.external, m[2]}
    BY <1>2, <2>1, <2>2 DEF Complete, Shape, ServiceFields, IsFunction
  <2>4. Complete(live')
    BY <2>1, <2>2, <2>3 DEF Complete, Shape
  <2>5. Accepted(live')
    BY <2>1, <2>3 DEF Accepted
  <2>6. live' \in StoredAs(live')
    BY <2>4, CompleteIsStored
  <2> QED BY <2>4, <2>5, <2>6, ServiceAssumption DEF ServiceInv, TypeOK, Meddle
<1> QED BY <1>1, <1>2 DEF Meddle

LEMMA CreateKeeps ==
    ASSUME ServiceInv, CreateService
    PROVE  ServiceInv'
<1>1. pass.phare \in Phares /\ pass.phare.service # Nothing
  BY DEF CreateService, ServiceInv, TypeOK
<1>2. CASE ~Accepted(Desired(pass.phare))
  BY <1>2 DEF CreateService, Finish, ServiceInv, TypeOK
<1>3. CASE Accepted(Desired(pass.phare))
  <2>1. Shape(Desired(pass.phare)) /\ live' \in StoredAs(Desired(pass.phare))
    BY <1>1, <1>3, DesiredShape DEF CreateService
  <2>2. Accepted(live') /\ live' \in StoredAs(live') /\ Complete(live')
    BY <1>3, <2>1, Sent
  <2> QED BY <2>2 DEF CreateService, Finish, ServiceInv, TypeOK
<1> QED BY <1>2, <1>3

LEMMA UpdateKeeps ==
    ASSUME ServiceInv, UpdateService
    PROVE  ServiceInv'
<1> DEFINE merged == Merged(pass.base, Desired(pass.phare), ~pass.phare.reallocate)
           new == Carried(pass.base, merged)
<1>1. pass.phare \in Phares /\ pass.phare.service # Nothing
  BY DEF UpdateService, ServiceInv, TypeOK
<1>2. CASE live = pass.base /\ Accepted(new)
  <2>1. Shape(Desired(pass.phare))
    BY <1>1, DesiredShape
  <2>2. Shape(new)
    BY <2>1, MergedShape, CarriedShape
  <2>3. live' \in StoredAs(new) /\ dirty' = (dirty \/ live' # live)
    BY <1>2 DEF UpdateService
  <2>4. Accepted(live') /\ live' \in StoredAs(live') /\ Complete(live')
    BY <1>2, <2>2, <2>3, Sent
  <2> QED BY <2>3, <2>4 DEF UpdateService, Finish, ServiceInv, TypeOK
<1>3. CASE ~(live = pass.base /\ Accepted(new))
  BY <1>3 DEF UpdateService, Finish, ServiceInv, TypeOK
<1> QED BY <1>2, <1>3

LEMMA ServiceStep == ServiceInv /\ [Next]_vars => ServiceInv'
<1> SUFFICES ASSUME ServiceInv, [Next]_vars PROVE ServiceInv'
  OBVIOUS
<1>1. CASE Begin
  BY <1>1 DEF Begin, ServiceInv, TypeOK
<1>2. CASE Keep
  BY <1>2 DEF Keep, Finish, ServiceInv, TypeOK
<1>3. CASE DeleteService
  BY <1>3 DEF DeleteService, Finish, ServiceInv, TypeOK
<1>4. CASE CreateService
  BY <1>4, CreateKeeps
<1>5. CASE UpdateService
  BY <1>5, UpdateKeeps
<1>6. CASE EditPhare
  BY <1>6, ServiceAssumption DEF EditPhare, ServiceInv, TypeOK
<1>7. CASE Meddle
  BY <1>7, MeddleKeeps
<1>8. CASE UNCHANGED vars
  BY <1>8 DEF vars, ServiceInv, TypeOK
<1> QED BY <1>1, <1>2, <1>3, <1>4, <1>5, <1>6, <1>7, <1>8 DEF Next, Controller

\* Whatever Phares ask for and others do, reconcileService leaves a Service that the
\* API server has accepted and completed: no node port twice, none on a ClusterIP
\* Service, and nothing missing.
THEOREM ServiceIsAccepted == Spec => []TypeOK
<1>1. ServiceInv => TypeOK
  BY DEF ServiceInv
<1> QED BY <1>1, ServiceInit, ServiceStep, PTL DEF Spec

-----------------------------------------------------------------------------
(* Ports by their identity *)

LEMMA PortOfIsThere ==
    ASSUME NEW ports, Listed(ports), NEW id \in Identities(ports)
    PROVE  LET k == Max({i \in DOMAIN ports : Identity(ports[i]) = id})
           IN  k \in DOMAIN ports /\ Identity(ports[k]) = id /\ PortOf(ports, id) = ports[k]
<1> DEFINE found == {i \in DOMAIN ports : Identity(ports[i]) = id}
<1>1. PICK n \in Nat : DOMAIN ports = 1 .. n
  BY DEF Listed
<1>2. found \in SUBSET (1 .. n) /\ found # {}
  BY <1>1 DEF Identities
<1>3. \E x \in found : \A y \in found : y <= x
  <2> HIDE DEF found
  <2> QED BY <1>2, GreatestIndex
<1>4. \A x, y \in found : y <= x <=> x >= y
  BY <1>1
<1>5. \E x \in found : \A y \in found : x >= y
  BY <1>3, <1>4
<1>6. Max(found) \in found
  <2> HIDE DEF found
  <2> QED BY <1>5 DEF Max
<1> QED BY <1>6 DEF PortOf

\* Lists of ports with the same identities have the port of an identity at one place.
LEMMA PortOfByPlace ==
    ASSUME NEW a, NEW b, Listed(a), DOMAIN a = DOMAIN b,
           \A i \in DOMAIN a : Identity(a[i]) = Identity(b[i]),
           NEW id \in Identities(a)
    PROVE  \E k \in DOMAIN a :
              Identity(a[k]) = id /\ PortOf(a, id) = a[k] /\ PortOf(b, id) = b[k]
<1>1. {i \in DOMAIN a : Identity(a[i]) = id} = {i \in DOMAIN b : Identity(b[i]) = id}
  OBVIOUS
<1>2. PortOf(b, id) = b[Max({i \in DOMAIN a : Identity(a[i]) = id})]
  BY <1>1 DEF PortOf
<1> QED BY <1>2, PortOfIsThere

-----------------------------------------------------------------------------
(* What an update makes of a port, field by field *)

\* The merge of an update that is not to reallocate.
Kept(old, new) == Merged(old, new, TRUE)

\* mergeServiceSpecPreservingImmutable touches node ports only, and of those only
\* the ones that are not asked for.
LEMMA MergedFields ==
    ASSUME NEW old, NEW new, Shape(new), NEW m, m = Kept(old, new)
    PROVE  /\ Shape(m) /\ DOMAIN m.ports = DOMAIN new.ports
           /\ m.type = new.type /\ m.meta = new.meta
           /\ m.affinity = new.affinity /\ m.external = new.external
           /\ \A i \in DOMAIN new.ports :
                 /\ m.ports[i].name = new.ports[i].name
                 /\ m.ports[i].number = new.ports[i].number
                 /\ m.ports[i].target = new.ports[i].target
                 /\ m.ports[i].node =
                      IF new.ports[i].node = Unset /\ Identity(new.ports[i]) \in Identities(old.ports)
                      THEN PortOf(old.ports, Identity(new.ports[i])).node ELSE new.ports[i].node
<1>1. Shape(m)
  BY MergedShape DEF Kept
<1>2. /\ m.ports = KeepNodePorts(old.ports, new.ports)
      /\ m.type = new.type /\ m.meta = new.meta
      /\ m.affinity = new.affinity /\ m.external = new.external
  BY DEF Kept, Merged, Shape, ServiceFields
<1>3. ASSUME NEW i \in DOMAIN new.ports
      PROVE  /\ m.ports[i].name = new.ports[i].name
             /\ m.ports[i].number = new.ports[i].number
             /\ m.ports[i].target = new.ports[i].target
             /\ m.ports[i].node =
                  IF new.ports[i].node = Unset /\ Identity(new.ports[i]) \in Identities(old.ports)
                  THEN PortOf(old.ports, Identity(new.ports[i])).node ELSE new.ports[i].node
  <2>1. DOMAIN new.ports[i] = PortFields
    BY DEF Shape
  <2>2. m.ports[i] =
          IF new.ports[i].node = Unset /\ Identity(new.ports[i]) \in Identities(old.ports)
          THEN [new.ports[i] EXCEPT !.node = PortOf(old.ports, Identity(new.ports[i])).node]
          ELSE new.ports[i]
    BY <1>2 DEF KeepNodePorts
  <2> QED BY <2>1, <2>2 DEF PortFields
<1>4. DOMAIN m.ports = DOMAIN new.ports
  BY <1>2 DEF KeepNodePorts
<1> QED BY <1>1, <1>2, <1>3, <1>4

NodeCarried(old, new, p) ==
    LET used == NodePorts(old.ports) \cap NodePorts(new.ports)
        had  == {old.ports[i].node : i \in {k \in DOMAIN old.ports : old.ports[k].name = p.name}} \ used
    IN  CASE old.type # "NodePort" -> p.node
          [] old.type = "NodePort" /\ new.type = "NodePort" ->
               IF p.node = Unset /\ had # {} THEN CHOOSE n \in had : TRUE ELSE p.node
          [] OTHER -> IF NodePorts(old.ports) = NodePorts(new.ports) THEN Unset ELSE p.node

\* The API server leaves the node ports that an update gives: it gives others where the
\* Service stays a NodePort one, and takes some where it no longer is one.
LEMMA CarriedFields ==
    ASSUME NEW old, NEW new, Shape(new), NEW c, c = Carried(old, new)
    PROVE  /\ Shape(c) /\ DOMAIN c.ports = DOMAIN new.ports
           /\ c.type = new.type /\ c.meta = new.meta
           /\ c.affinity = new.affinity /\ c.external = new.external
           /\ \A i \in DOMAIN new.ports :
                 /\ c.ports[i].name = new.ports[i].name
                 /\ c.ports[i].number = new.ports[i].number
                 /\ c.ports[i].target = new.ports[i].target
                 /\ (\/ old.type # "NodePort"
                     \/ new.type = "NodePort" /\ new.ports[i].node # Unset)
                    => c.ports[i].node = new.ports[i].node
<1>1. Shape(c)
  BY CarriedShape
<1>2. /\ DOMAIN c.ports = DOMAIN new.ports
      /\ c.type = new.type /\ c.meta = new.meta
      /\ c.affinity = new.affinity /\ c.external = new.external
  BY DEF Carried, Shape, ServiceFields
<1>3. ASSUME NEW i \in DOMAIN new.ports
      PROVE  /\ c.ports[i].name = new.ports[i].name
             /\ c.ports[i].number = new.ports[i].number
             /\ c.ports[i].target = new.ports[i].target
             /\ (\/ old.type # "NodePort"
                 \/ new.type = "NodePort" /\ new.ports[i].node # Unset)
                => c.ports[i].node = new.ports[i].node
  <2>1. DOMAIN new.ports[i] = PortFields
    BY DEF Shape
  <2>2. c.ports[i] = [new.ports[i] EXCEPT !.node = NodeCarried(old, new, new.ports[i])]
    BY DEF Carried, NodeCarried, Shape, ServiceFields
  <2>3. (\/ old.type # "NodePort"
         \/ new.type = "NodePort" /\ new.ports[i].node # Unset)
        => NodeCarried(old, new, new.ports[i]) = new.ports[i].node
    BY DEF NodeCarried
  <2> QED BY <2>1, <2>2, <2>3 DEF PortFields
<1> QED BY <1>1, <1>2, <1>3

\* What is stored of an update that is accepted.
LEMMA StoredKeeps ==
    ASSUME NEW new, Shape(new), NEW s \in StoredAs(new)
    PROVE  /\ DOMAIN s.ports = DOMAIN new.ports
           /\ s.type = new.type /\ s.meta = new.meta
           /\ s.affinity = IF new.affinity = Unset THEN "None" ELSE new.affinity
           /\ s.external = IF new.external = Cleared THEN Unset ELSE new.external
           /\ \A i \in DOMAIN new.ports :
                 /\ s.ports[i].name = new.ports[i].name
                 /\ s.ports[i].number = new.ports[i].number
                 /\ new.ports[i].target # Unset => s.ports[i].target = new.ports[i].target
                 /\ new.type # "NodePort" \/ new.ports[i].node # Unset
                    => s.ports[i].node = new.ports[i].node
<1>1. PICK node \in Allocations(new) : s = StoredWith(new, node)
  BY StoredBy
<1>2. /\ s.ports = Filled(new, node)
      /\ s.type = new.type /\ s.meta = new.meta
      /\ s.affinity = (IF new.affinity = Unset THEN "None" ELSE new.affinity)
      /\ s.external = (IF new.external = Cleared THEN Unset ELSE new.external)
  BY <1>1 DEF StoredWith, Canonical, Shape, ServiceFields
<1>3. ASSUME NEW i \in DOMAIN new.ports
      PROVE  /\ s.ports[i].name = new.ports[i].name
             /\ s.ports[i].number = new.ports[i].number
             /\ new.ports[i].target # Unset => s.ports[i].target = new.ports[i].target
             /\ new.type # "NodePort" \/ new.ports[i].node # Unset
                => s.ports[i].node = new.ports[i].node
  <2>1. DOMAIN new.ports[i] = PortFields
    BY DEF Shape
  <2>2. s.ports[i] =
          [new.ports[i] EXCEPT !.node = IF i \in Missing(new) THEN node[i] ELSE @,
                               !.target = IF @ = Unset THEN new.ports[i].number ELSE @]
    BY <1>2 DEF Filled
  <2>3. new.type # "NodePort" \/ new.ports[i].node # Unset => i \notin Missing(new)
    BY DEF Missing
  <2> QED BY <2>1, <2>2, <2>3 DEF PortFields
<1>4. DOMAIN s.ports = DOMAIN new.ports
  BY <1>2 DEF Filled
<1> QED BY <1>2, <1>3, <1>4

-----------------------------------------------------------------------------
(* What an update does to a Service that is complete *)

\* Phares whose ports the API server need not complete beyond the node ports, and can
\* tell apart, and that ask for no node port where there is none.
PortsGiven ==
    \A p \in Phares : p.service # Nothing =>
        LET ports == p.service.ports
        IN  /\ \A i \in DOMAIN ports : ports[i].target # Unset
            /\ \A i, j \in DOMAIN ports : Identity(ports[i]) = Identity(ports[j]) => i = j
            /\ p.service.type # "NodePort" => NodePorts(ports) = {}

\* The end of a pass over a Phare with a Service: it kept the Service, its request was
\* overtaken or rejected, or its request was stored.
LEMMA PassEnds ==
    ASSUME ServiceInv, [Next]_vars, pass # Nothing, pass' = Nothing, pass.phare.service # Nothing
    PROVE  /\ pass.phare \in Phares
           /\ \/ /\ live' = live
                 /\ (live = pass.base /\ Accepted(Request(live, pass.phare)))
                    => ~Differs(live, pass.phare)
              \/ /\ Accepted(Request(live, pass.phare))
                 /\ live' \in StoredAs(Request(live, pass.phare))
<1>0. pass.phare \in Phares
  BY DEF ServiceInv, TypeOK
<1>1. CASE Keep
  BY <1>0, <1>1 DEF Keep
<1>2. CASE UpdateService
  BY <1>0, <1>2 DEF UpdateService, Request
<1>3. CASE CreateService
  <2>1. pass.base = Nothing /\ live = Nothing
    BY <1>3 DEF CreateService, ServiceInv
  <2> QED BY <1>0, <1>3, <2>1 DEF CreateService, Request
<1>4. ~Begin /\ ~DeleteService /\ ~EditPhare /\ ~Meddle /\ ~UNCHANGED vars
  BY DEF Begin, DeleteService, EditPhare, Meddle, vars
<1> QED BY <1>1, <1>2, <1>3, <1>4 DEF Next, Controller

\* Updates that keep the type NodePort keep the node port of every port that stays.
LEMMA UpdateKeepsNodePorts ==
    ASSUME NEW old, Complete(old), old.type = "NodePort",
           NEW want, Shape(want),
           NEW new \in StoredAs(Carried(old, Kept(old, want))), new.type = "NodePort",
           NEW id \in Identities(old.ports) \cap Identities(new.ports),
           PortOf(want.ports, id).node = Unset
    PROVE  PortOf(new.ports, id).node = PortOf(old.ports, id).node
<1>m. PICK m : m = Kept(old, want)
  OBVIOUS
<1>c. PICK c : c = Carried(old, m)
  OBVIOUS
<1>s. new \in StoredAs(c)
  BY <1>m, <1>c
<1>1. Shape(m) /\ DOMAIN m.ports = DOMAIN want.ports
  BY <1>m, MergedFields
<1>2. Shape(c) /\ DOMAIN c.ports = DOMAIN want.ports /\ c.type = m.type
  BY <1>1, <1>c, CarriedFields
<1>3. DOMAIN new.ports = DOMAIN want.ports /\ new.type = c.type
  BY <1>2, <1>s, StoredKeeps
<1>4. ASSUME NEW i \in DOMAIN want.ports
      PROVE  new.ports[i].name = want.ports[i].name /\ new.ports[i].number = want.ports[i].number
  <2>1. m.ports[i].name = want.ports[i].name /\ m.ports[i].number = want.ports[i].number
    BY <1>m, MergedFields
  <2>2. c.ports[i].name = m.ports[i].name /\ c.ports[i].number = m.ports[i].number
    BY <1>1, <1>c, CarriedFields
  <2>3. new.ports[i].name = c.ports[i].name /\ new.ports[i].number = c.ports[i].number
    BY <1>2, <1>s, StoredKeeps
  <2> QED BY <2>1, <2>2, <2>3
<1>5. \A i \in DOMAIN want.ports : Identity(new.ports[i]) = Identity(want.ports[i])
  BY <1>4 DEF Identity
<1>6. Identities(new.ports) = Identities(want.ports)
  BY <1>3, <1>5 DEF Identities
<1>7. Listed(want.ports)
  BY DEF Shape
<1>8. PICK k \in DOMAIN want.ports :
        Identity(want.ports[k]) = id /\ PortOf(want.ports, id) = want.ports[k]
        /\ PortOf(new.ports, id) = new.ports[k]
  BY <1>3, <1>5, <1>6, <1>7, PortOfByPlace
<1>9. m.ports[k].node = PortOf(old.ports, id).node
  BY <1>8, <1>m, MergedFields
<1>10. PortOf(old.ports, id).node # Unset
  BY PortOfIsThere DEF Complete, Shape
<1>11. c.ports[k].node = m.ports[k].node
  BY <1>1, <1>2, <1>3, <1>9, <1>10, <1>c, CarriedFields
<1>12. new.ports[k].node = c.ports[k].node
  BY <1>2, <1>9, <1>10, <1>11, <1>s, StoredKeeps
<1> QED BY <1>8, <1>9, <1>11, <1>12

\* What is asked of the API server keeps of the Phare what the Phare gives.
Sends(new, want) ==
    /\ Shape(new) /\ DOMAIN new.ports = DOMAIN want.ports
    /\ new.type = want.type /\ new.meta = want.meta
    /\ new.affinity = want.affinity /\ new.external = want.external
    /\ \A i \in DOMAIN want.ports :
          /\ new.ports[i].name = want.ports[i].name
          /\ new.ports[i].number = want.ports[i].number
          /\ new.ports[i].target = want.ports[i].target
          /\ want.type = "NodePort" /\ want.ports[i].node # Unset
             => new.ports[i].node = want.ports[i].node

LEMMA RequestSends ==
    ASSUME NEW base, NEW p \in Phares, p.service # Nothing, ~p.reallocate
    PROVE  Sends(Request(base, p), Desired(p))
<1>w. PICK want : want = Desired(p)
  OBVIOUS
<1>1. Shape(want)
  BY <1>w, DesiredShape
<1>2. CASE base = Nothing
  BY <1>w, <1>1, <1>2 DEF Request, Sends
<1>3. CASE base # Nothing
  <2>m. PICK m : m = Kept(base, want)
    OBVIOUS
  <2>c. PICK c : c = Carried(base, m)
    OBVIOUS
  <2>0. (~p.reallocate) = TRUE
    OBVIOUS
  <2>1. Request(base, p) = c
    BY <1>w, <1>3, <2>m, <2>c, <2>0 DEF Request, Kept
  <2>2. /\ Shape(m) /\ DOMAIN m.ports = DOMAIN want.ports
        /\ m.type = want.type /\ m.meta = want.meta
        /\ m.affinity = want.affinity /\ m.external = want.external
    BY <1>1, <2>m, MergedFields
  <2>3. /\ Shape(c) /\ DOMAIN c.ports = DOMAIN want.ports
        /\ c.type = want.type /\ c.meta = want.meta
        /\ c.affinity = want.affinity /\ c.external = want.external
    BY <2>2, <2>c, CarriedFields
  <2>4. ASSUME NEW i \in DOMAIN want.ports
        PROVE  /\ c.ports[i].name = want.ports[i].name
               /\ c.ports[i].number = want.ports[i].number
               /\ c.ports[i].target = want.ports[i].target
               /\ want.type = "NodePort" /\ want.ports[i].node # Unset
                  => c.ports[i].node = want.ports[i].node
    <3>1. /\ m.ports[i].name = want.ports[i].name
          /\ m.ports[i].number = want.ports[i].number
          /\ m.ports[i].target = want.ports[i].target
          /\ want.ports[i].node # Unset => m.ports[i].node = want.ports[i].node
      BY <1>1, <2>m, MergedFields
    <3>2. /\ c.ports[i].name = m.ports[i].name
          /\ c.ports[i].number = m.ports[i].number
          /\ c.ports[i].target = m.ports[i].target
          /\ m.type = "NodePort" /\ m.ports[i].node # Unset
             => c.ports[i].node = m.ports[i].node
      BY <2>2, <2>c, CarriedFields
    <3> QED BY <2>2, <3>1, <3>2
  <2> QED BY <1>w, <2>1, <2>3, <2>4 DEF Sends
<1> QED BY <1>2, <1>3

\* What is stored of it differs from the Phare in nothing that is compared: the merge
\* puts the node ports in that were allocated, and the normalization the defaults.
LEMMA StoredSettles ==
    ASSUME PortsGiven,
           NEW p \in Phares, p.service # Nothing, ~p.reallocate,
           NEW new, Sends(new, Desired(p)), NEW s \in StoredAs(new)
    PROVE  ~Differs(s, p)
<1>w. PICK want : want = Desired(p)
  OBVIOUS
<1>m. PICK m : m = Kept(s, want)
  OBVIOUS
<1>n. PICK n : n = Normalized(s, m)
  OBVIOUS
<1>0. /\ want.ports = p.service.ports
      /\ want.type # "NodePort" => p.service.type # "NodePort"
      /\ \A i \in DOMAIN want.ports : want.ports[i] = [f \in PortFields |-> want.ports[i][f]]
  BY <1>w, FieldsAssumption DEF Desired
<1>1. Shape(want)
  BY <1>w, DesiredShape
<1>2. Sends(new, want)
  BY <1>w
<1>3. Complete(s) /\ DOMAIN s.ports = DOMAIN want.ports
  BY <1>2, StoredKeeps, StoredIsComplete DEF Sends
<1>4. /\ s.type = want.type /\ s.meta = want.meta
      /\ s.affinity = (IF want.affinity = Unset THEN "None" ELSE want.affinity)
      /\ s.external = (IF want.external = Cleared THEN Unset ELSE want.external)
  BY <1>2, StoredKeeps DEF Sends
<1>5. ASSUME NEW i \in DOMAIN want.ports
      PROVE  /\ s.ports[i].name = want.ports[i].name
             /\ s.ports[i].number = want.ports[i].number
             /\ s.ports[i].target = want.ports[i].target
             /\ want.ports[i].node # Unset => s.ports[i].node = want.ports[i].node
  <2>1. want.ports[i].target # Unset
    BY <1>0 DEF PortsGiven
  <2>2. want.ports[i].node # Unset => want.type = "NodePort"
    BY <1>0 DEF PortsGiven, NodePorts
  <2>3. /\ new.ports[i].name = want.ports[i].name
        /\ new.ports[i].number = want.ports[i].number
        /\ new.ports[i].target = want.ports[i].target
        /\ want.ports[i].node # Unset => new.ports[i].node = want.ports[i].node
        /\ Shape(new) /\ i \in DOMAIN new.ports
    BY <1>2, <2>2 DEF Sends
  <2>4. /\ s.ports[i].name = new.ports[i].name
        /\ s.ports[i].number = new.ports[i].number
        /\ new.ports[i].target # Unset => s.ports[i].target = new.ports[i].target
        /\ new.ports[i].node # Unset => s.ports[i].node = new.ports[i].node
    BY <2>3, StoredKeeps
  <2> QED BY <2>1, <2>3, <2>4
<1>6. ASSUME NEW i \in DOMAIN want.ports
      PROVE  /\ Identity(s.ports[i]) = Identity(want.ports[i])
             /\ Identity(want.ports[i]) \in Identities(s.ports)
             /\ PortOf(s.ports, Identity(want.ports[i])) = s.ports[i]
  <2>1. \A j \in DOMAIN want.ports : Identity(s.ports[j]) = Identity(want.ports[j])
    BY <1>5 DEF Identity
  <2>2. Identity(want.ports[i]) \in Identities(s.ports)
    BY <1>3, <2>1 DEF Identities
  <2>3. Listed(s.ports)
    BY <1>3 DEF Complete, Shape
  <2>4. PICK k \in DOMAIN s.ports :
          Identity(s.ports[k]) = Identity(want.ports[i])
          /\ PortOf(s.ports, Identity(want.ports[i])) = s.ports[k]
    BY <2>2, <2>3, PortOfIsThere
  <2>5. k = i
    BY <1>0, <1>3, <2>1, <2>4 DEF PortsGiven
  <2> QED BY <2>1, <2>2, <2>4, <2>5
<1>7. ASSUME NEW i \in DOMAIN want.ports
      PROVE  m.ports[i] = s.ports[i]
  <2>1. /\ m.ports[i].name = want.ports[i].name /\ m.ports[i].number = want.ports[i].number
        /\ m.ports[i].target = want.ports[i].target
    BY <1>1, <1>m, MergedFields
  <2>2. m.ports[i].node = s.ports[i].node
    BY <1>1, <1>m, <1>5, <1>6, MergedFields
  <2>3. IsFunction(s.ports[i]) /\ DOMAIN s.ports[i] = PortFields
    BY <1>3 DEF Complete, Shape
  <2>4. IsFunction(m.ports[i]) /\ DOMAIN m.ports[i] = PortFields
    <3>1. m.ports = KeepNodePorts(s.ports, want.ports)
      BY <1>1, <1>m DEF Kept, Merged, Shape, ServiceFields
    <3>2. DOMAIN want.ports[i] = PortFields /\ IsFunction(want.ports[i])
      BY <1>0 DEF IsFunction
    <3> QED BY <3>1, <3>2 DEF KeepNodePorts, IsFunction
  <2> QED BY <1>5, <2>1, <2>2, <2>3, <2>4 DEF IsFunction, PortFields
<1>8. m.ports = s.ports
  <2>1. IsFunction(m.ports) /\ DOMAIN m.ports = DOMAIN want.ports
    BY <1>1, <1>m DEF Kept, Merged, KeepNodePorts, Shape, ServiceFields, IsFunction
  <2>2. IsFunction(s.ports)
    BY <1>3 DEF Complete
  <2> QED BY <1>3, <1>7, <2>1, <2>2 DEF IsFunction
<1>9. Canonical(n) = Canonical(s)
  <2>0. m.type = want.type /\ m.meta = want.meta
        /\ m.affinity = want.affinity /\ m.external = want.external
    BY <1>1, <1>m, MergedFields
  <2>1. IsFunction(m) /\ DOMAIN m = ServiceFields \cup {"meta"}
    BY <1>1, <1>m, <1>w DEF Kept, Merged, Desired, IsFunction, Shape, ServiceFields
  <2>2. /\ IsFunction(n) /\ DOMAIN n = ServiceFields \cup {"meta"}
        /\ n.type = m.type /\ n.meta = m.meta /\ n.ports = m.ports
        /\ n.affinity = (IF m.affinity = Unset THEN s.affinity ELSE m.affinity)
        /\ n.external = (IF m.external = Unset THEN s.external ELSE m.external)
    BY <2>1, <1>n DEF Normalized, IsFunction, ServiceFields
  <2>3. IsFunction(s) /\ DOMAIN s = ServiceFields \cup {"meta"} /\ s.external # Cleared
    BY <1>3 DEF Complete, Shape
  <2>4. Canonical(s) = s
    BY <2>3 DEF Canonical, IsFunction, ServiceFields
  <2>5. n.affinity = s.affinity
    BY <1>4, <2>0, <2>2
  <2>6. (IF n.external = Cleared THEN Unset ELSE n.external) = s.external
    BY <1>4, <2>0, <2>2, <2>3
  <2>7. \A f \in ServiceFields \cup {"meta"} : Canonical(n)[f] = s[f]
    BY <1>4, <1>8, <2>0, <2>2, <2>5, <2>6 DEF Canonical, ServiceFields
  <2>8. IsFunction(Canonical(n)) /\ DOMAIN Canonical(n) = ServiceFields \cup {"meta"}
    BY <2>2 DEF Canonical, IsFunction
  <2> QED BY <2>3, <2>4, <2>7, <2>8 DEF IsFunction
<1>10. (~p.reallocate) = TRUE
  OBVIOUS
<1> QED BY <1>w, <1>m, <1>n, <1>9, <1>10 DEF Kept, Differs

-----------------------------------------------------------------------------
(* The action properties *)

\* For all Phares and interventions: whatever ports an edit adds, drops or moves,
\* whatever is allocated, and whoever edited the Service before, a port keeps its node
\* port.
THEOREM NodePortsAreKept == Spec => NodePortsStay
<1>1. ASSUME ServiceInv, [Next]_vars,
             Updating, ~pass.phare.reallocate, live.type = "NodePort", live'.type = "NodePort",
             NEW id \in Identities(live.ports) \cap Identities(live'.ports),
             id \in Identities(pass.phare.service.ports),
             PortOf(pass.phare.service.ports, id).node = Unset
      PROVE  PortOf(live'.ports, id).node = PortOf(live.ports, id).node
  <2>0. pass.phare.service # Nothing
    <3>1. pass # Nothing /\ pass' = Nothing /\ live # Nothing /\ live' # Nothing
      BY <1>1 DEF Updating
    <3>2. ~DeleteService /\ ~Begin /\ ~EditPhare /\ ~Meddle /\ ~UNCHANGED vars
      BY <3>1 DEF Begin, DeleteService, EditPhare, Meddle, vars
    <3>3. Keep \/ CreateService \/ UpdateService
      BY <1>1, <3>2 DEF Next, Controller
    <3> QED BY <1>1, <3>1, <3>3 DEF Keep, CreateService, UpdateService, ServiceInv
  <2>1. pass.phare \in Phares /\ pass.phare.service # Nothing /\ Complete(live)
    BY <1>1, <2>0, PassEnds DEF Updating, ServiceInv
  <2>2. Shape(Desired(pass.phare)) /\ Desired(pass.phare).ports = pass.phare.service.ports
    BY <2>1, DesiredShape DEF Desired
  <2>3. \/ live' = live
        \/ live' \in StoredAs(Carried(live, Merged(live, Desired(pass.phare), ~pass.phare.reallocate)))
    BY <1>1, <2>0, PassEnds DEF Updating, Request
  <2>4. (~pass.phare.reallocate) = TRUE
    BY <1>1
  <2>5. CASE live' = live
    BY <2>5
  <2>6. CASE live' \in StoredAs(Carried(live, Kept(live, Desired(pass.phare))))
    BY <1>1, <2>1, <2>2, <2>6, UpdateKeepsNodePorts
  <2> QED BY <2>3, <2>4, <2>5, <2>6 DEF Kept
<1> DEFINE Stay ==
      (Updating /\ ~pass.phare.reallocate /\ live.type = "NodePort" /\ live'.type = "NodePort")
       => \A id \in Identities(live.ports) \cap Identities(live'.ports) :
            id \in Identities(pass.phare.service.ports)
            /\ PortOf(pass.phare.service.ports, id).node = Unset
            => PortOf(live'.ports, id).node = PortOf(live.ports, id).node
<1>2. ServiceInv /\ [Next]_vars => [Stay]_vars
  BY <1>1
<1>3. NodePortsStay <=> [][Stay]_vars
  BY DEF NodePortsStay
<1> HIDE DEF Stay
<1> QED BY <1>2, <1>3, ServiceInit, ServiceStep, PTL DEF Spec

\* For all Phares whose ports are told apart and have targets: a pass whose request is
\* accepted leaves nothing to do for the next one, whatever the API server fills in or
\* drops.  So the operator and the API server never take turns.
THEOREM PassesDoSettle ==
    ASSUME PortsGiven
    PROVE  Spec => PassesSettle
<1>1. ASSUME ServiceInv, [Next]_vars,
             pass # Nothing, pass' = Nothing, live = pass.base, pass.phare.service # Nothing,
             ~pass.phare.reallocate, Accepted(Request(live, pass.phare)), live' # Nothing
      PROVE  ~Differs(live', pass.phare)
  <2>1. pass.phare \in Phares
    BY <1>1, PassEnds
  <2>2. CASE live' = live /\ ~Differs(live, pass.phare)
    BY <2>2
  <2>3. CASE live' \in StoredAs(Request(live, pass.phare))
    <3>1. Sends(Request(live, pass.phare), Desired(pass.phare))
      BY <1>1, <2>1, RequestSends
    <3> QED BY <1>1, <2>1, <2>3, <3>1, StoredSettles
  <2> QED BY <1>1, <2>2, <2>3, PassEnds
<1> DEFINE Settle ==
      (pass # Nothing /\ pass' = Nothing /\ live = pass.base /\ pass.phare.service # Nothing
        /\ ~pass.phare.reallocate /\ Accepted(Request(live, pass.phare)) /\ live' # Nothing)
       => ~Differs(live', pass.phare)
<1>2. ServiceInv /\ [Next]_vars => [Settle]_vars
  BY <1>1
<1>3. PassesSettle <=> [][Settle]_vars
  BY DEF PassesSettle
<1> HIDE DEF Settle
<1> QED BY <1>2, <1>3, ServiceInit, ServiceStep, PTL DEF Spec
=============================================================================
