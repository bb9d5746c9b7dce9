------------------------- MODULE PhareWakeupProofs --------------------------
(***************************************************************************)
(* No wakeup is lost: an idle operator with nothing to hear has nothing to *)
(* do, for all Phares, values and bounds, when the kinds of change that    *)
(* the predicates of SetupWithManager are known to drop are left out       *)
(* (EveryChangeShows).                                                     *)
(***************************************************************************)
EXTENDS PhareRefinementProofs

\* The kinds whose labels a reconciler compares and restores.
Mended == {"Service", "HTTPRoute"}

\* No Phare puts its own created-by label on its Service; there are no GKE policies, which
\* lose theirs; others take it off only where it is put back, and plant no objects, which
\* name no owner whom their changes could wake.
EveryChangeShows ==
    /\ Scope \cap PolicyKinds = {}
    /\ \A s \in Specs : s.want["Service"] # None => ~s.relabel
    /\ Meddling \subseteq ({"edit", "delete"} \X ChildKinds) \cup ({"unlabel"} \X Mended)

-----------------------------------------------------------------------------
(* The inductive invariant *)

\* The values that the operator has heard and will hear of object k, in order.
Said(k, i) == IF i = 0 THEN cache[k].val ELSE watch[k][i].val

\* A change after the i-th of them will queue the Phare.
Alarm(k, i) == \E j \in i + 1 .. Len(watch[k]) : Wakes(k, Said(k, j - 1), Said(k, j))

\* From a to b k may change without waking anybody: it has lost its label before.
Silent(k, a, b) ==
    \/ a = b
    \/ /\ k \in Mended
       /\ a # None /\ ~a.label
       /\ b = None \/ (b.owner = a.owner /\ ~b.label)

\* What the operator will hear last is how things are; if nothing on the way from what it
\* heard to that wakes it then the way is silent.
Calm(k) ==
    /\ Said(k, Len(watch[k])) = Live(k)
    /\ \A i \in 0 .. Len(watch[k]) : Alarm(k, i) \/ Silent(k, Said(k, i), Live(k))

\* A child as the reconcilers leave it: owned by a Phare, without a checksum unless it is
\* a workload, and labelled unless somebody may take the label off.
Proper(k, v) ==
    v # None => /\ k \in Scope \cup WorkloadKinds
                /\ v.owner # Foreign
                /\ k \in OptionalKinds => v.sum = None
                /\ k \notin Mended => v.label

\* There will be another pass.
Noticed == queued \/ (Busy /\ err # "none") \/ \E k \in Kinds : Alarm(k, 0)

\* Nothing is to be done about child k, for Phare p and checksum h.
Content(k, v, p, h) ==
    IF Wanted(k, p.spec)
    THEN v # None /\ Merged(k, v, Desired(k, p, h)) = v
    ELSE v = None \/ ~MayDelete(k, v, p)

ContentNow(k, p) == Content(k, Live(k), p, LiveHash(p))

\* The pending request belongs to the step at hand, changes something, and unless there
\* will be another pass is about the object as it is.
RequestFits ==
    req # None =>
        /\ \E s \in Steps \ {"build"} : At(s) /\ Target(s) = req.kind
        /\ req.verb \in {"update", "patch"} =>
              Merged(req.kind, req.base.val, Desired(req.kind, ph.val, hash)) # req.base.val
        /\ Noticed \/ Silent(req.kind, req.base.val, Live(req.kind))

\* Unless there will be another pass, this one works on the live Phare and leaves nothing
\* to be done behind it ...
PassLeavesNothing ==
    Busy /\ ~Noticed =>
        /\ ph.val = Live("Phare")
        /\ "build" \notin todo => hash = LiveHash(ph.val)
        /\ \A s \in Scope \cup {"stale", "workload"} : s \in todo \/ ContentNow(Target(s), ph.val)

\* ... or has left nothing, and said so.
NothingLeft ==
    ~Busy /\ ~Noticed /\ Exists("Phare") =>
        /\ Live("Phare").status = "Active" /\ Buildable(Live("Phare"))
        /\ \A k \in Scope \cup WorkloadKinds : ContentNow(k, Live("Phare"))

Attentive ==
    /\ \A k \in Kinds : Calm(k)
    /\ \A k \in ChildKinds : Proper(k, Live(k))
    /\ RequestFits
    /\ PassLeavesNothing
    /\ NothingLeft

\* A pass gets beyond its "build" step only when the pod template renders.
BuiltFits == Busy /\ "build" \notin todo => Buildable(ph.val)

WakeInv == RefinementInv /\ BuiltFits /\ Attentive

-----------------------------------------------------------------------------
(* Changes of one object *)

LEMMA SilentTransitive ==
    ASSUME NEW k, NEW a, NEW b, NEW c, Silent(k, a, b), Silent(k, b, c)
    PROVE  Silent(k, a, c)
BY DEF Silent

\* The objects in the API server.
LEMMA LiveTypes ==
    ASSUME TypeOK
    PROVE  /\ \A k \in Kinds : watch[k] \in Seq(Snapshot(k))
           /\ DOMAIN store = Kinds /\ DOMAIN watch = Kinds /\ DOMAIN cache = Kinds
           /\ \A k \in ChildKinds : /\ k \in Kinds /\ k # "Phare"
                                    /\ Live(k) \in ChildObject \cup {None}
                                    /\ cache[k].val \in ChildObject \cup {None}
           /\ "Phare" \in Kinds /\ Live("Phare") \in PhareObject \cup {None}
<1>1. /\ \A k \in Kinds : watch[k] \in Seq(Snapshot(k)) /\ store[k] \in Snapshot(k) /\ cache[k] \in Snapshot(k)
      /\ DOMAIN store = Kinds /\ DOMAIN watch = Kinds /\ DOMAIN cache = Kinds
  BY DEF TypeOK, ClusterTypeOK
<1>2. \A k \in ChildKinds : k \in Kinds /\ k # "Phare" /\ ObjectOf(k) = ChildObject
  BY DEF Kinds, ChildKinds, OptionalKinds, WorkloadKinds, ObjectOf
<1>3. "Phare" \in Kinds /\ ObjectOf("Phare") = PhareObject
  BY DEF Kinds, ObjectOf
<1> QED BY <1>1, <1>2, <1>3 DEF Snapshot, Live

\* The changes of a child that anybody makes: created with the label, and its owner kept.
Change(k, old, new) ==
    /\ new \in ChildObject \cup {None}
    /\ Proper(k, new)
    /\ old = None /\ new # None => new.label
    /\ old # None /\ new # None => new.owner = old.owner

\* Each of them wakes the operator, unless the label was off and stays off.
LEMMA ChangeShows ==
    ASSUME NEW k \in ChildKinds, NEW old \in ChildObject \cup {None}, Proper(k, old),
           NEW new, Change(k, old, new), new # old
    PROVE  /\ Wakes(k, old, new) \/ Silent(k, old, new)
           /\ k \notin Mended \/ HasLabel(new) => Wakes(k, old, new)
<1>1. k # "Phare"
  BY DEF ChildKinds, OptionalKinds, WorkloadKinds
<1>2. /\ old # None => old \in ChildObject /\ old.owner # Foreign /\ (k \notin Mended => old.label)
      /\ new # None => new \in ChildObject /\ new.owner # Foreign /\ (k \notin Mended => new.label)
  BY DEF Change, Proper
<1>3. NamesOwner(old) \/ NamesOwner(new)
  BY <1>2 DEF NamesOwner
<1>4. k = "StatefulSet" => StatefulSetPredicate(old, new)
  <2> SUFFICES ASSUME k = "StatefulSet", old # None, new # None
               PROVE  <<old.val, old.sum>> # <<new.val, new.sum>>
    BY DEF StatefulSetPredicate
  <2>1. k \notin Mended
    BY DEF Mended
  <2>2. old.owner = new.owner /\ old.label = TRUE /\ new.label = TRUE
    BY <1>2, <2>1 DEF Change, ChildObject
  <2> QED BY <1>2, <2>2 DEF ChildObject
<1>5. Wakes(k, old, new) <=> HasLabel(old) \/ HasLabel(new)
  BY <1>1, <1>3, <1>4 DEF Wakes, LabelPredicate
<1>6. k \notin Mended => HasLabel(old) \/ HasLabel(new)
  BY <1>2 DEF HasLabel
<1>7. HasLabel(old) \/ HasLabel(new) \/ Silent(k, old, new)
  <2> SUFFICES ASSUME ~HasLabel(old), ~HasLabel(new) PROVE Silent(k, old, new)
    OBVIOUS
  <2>1. k \in Mended
    BY <1>6
  <2>2. old # None
    BY DEF Change, HasLabel
  <2> QED BY <2>1, <2>2 DEF Silent, Change, HasLabel
<1> QED BY <1>5, <1>6, <1>7

\* What a write does to what is said of the objects.
LEMMA PutCalm ==
    ASSUME TypeOK, \A j \in Kinds : Calm(j), NEW k \in Kinds, NEW v, Put(k, v), UNCHANGED cache,
           v = Live(k) \/ Wakes(k, Live(k), v) \/ Silent(k, Live(k), v)
    PROVE  /\ \A j \in Kinds : Calm(j)'
           /\ \A j \in Kinds : Alarm(j, 0) => Alarm(j, 0)'
           /\ v # Live(k) /\ Wakes(k, Live(k), v) => Alarm(k, 0)'
           /\ \A j \in Kinds \ {k} : Live(j)' = Live(j)
           /\ Live(k)' = v
<1>1. CASE v = Live(k)
  BY <1>1 DEF Put, Calm, Alarm, Said, Live
<1>2. CASE v # Live(k)
  <2> DEFINE new == [rv |-> store[k].rv + 1, val |-> v]
  <2>. PICK n \in Nat : n = Len(watch[k])
    BY LiveTypes
  <2>0. watch[k] \in Seq(Snapshot(k)) /\ n = Len(watch[k]) /\ DOMAIN store = Kinds /\ DOMAIN watch = Kinds
    BY LiveTypes
  <2>1. store'[k] = new /\ watch'[k] = Append(watch[k], new)
    BY <1>2, <2>0 DEF Put
  <2>2. \A j \in Kinds \ {k} : store'[j] = store[j] /\ watch'[j] = watch[j]
    BY <1>2, <2>0 DEF Put
  <2>3. \A j \in Kinds \ {k} : Calm(j)' /\ (Alarm(j, 0) => Alarm(j, 0)') /\ Live(j)' = Live(j)
    BY <2>2 DEF Calm, Alarm, Said, Live
  <2>4. /\ Len(watch'[k]) = n + 1
        /\ \A i \in 1 .. n : watch'[k][i] = watch[k][i]
        /\ watch'[k][n + 1] = new
    BY <2>0, <2>1
  <2>5. /\ \A i \in 0 .. n : Said(k, i)' = Said(k, i)
        /\ Said(k, n + 1)' = v /\ Live(k)' = v
    BY <2>0, <2>1, <2>4 DEF Said, Live
  <2>6. Said(k, n) = Live(k)
    BY DEF Calm
  <2>7. \A i \in 0 .. n : Alarm(k, i) => Alarm(k, i)'
    <3> SUFFICES ASSUME NEW i \in 0 .. n, NEW j \in i + 1 .. n, Wakes(k, Said(k, j - 1), Said(k, j))
                 PROVE  Alarm(k, i)'
      BY DEF Alarm
    <3>1. j \in i + 1 .. n + 1 /\ j \in 0 .. n /\ j - 1 \in 0 .. n
      BY <2>0
    <3>2. Wakes(k, Said(k, j - 1)', Said(k, j)')
      BY <2>5, <3>1
    <3> QED BY <2>4, <3>1, <3>2 DEF Alarm, Wakes
  <2>8. Wakes(k, Live(k), v) => \A i \in 0 .. n : Alarm(k, i)'
    <3> SUFFICES ASSUME Wakes(k, Live(k), v), NEW i \in 0 .. n PROVE Alarm(k, i)'
      OBVIOUS
    <3>1. n + 1 \in i + 1 .. n + 1 /\ n \in 0 .. n /\ (n + 1) - 1 = n
      BY <2>0
    <3>2. Wakes(k, Said(k, (n + 1) - 1)', Said(k, n + 1)')
      BY <2>5, <2>6, <3>1
    <3> QED BY <2>4, <3>1, <3>2 DEF Alarm
  <2>9. \A i \in 0 .. n + 1 : Alarm(k, i)' \/ Silent(k, Said(k, i)', v)
    <3> SUFFICES ASSUME NEW i \in 0 .. n, ~Alarm(k, i)' PROVE Silent(k, Said(k, i)', v)
      BY <2>0, <2>5 DEF Silent
    <3>1. Silent(k, Said(k, i), Live(k))
      BY <2>7 DEF Calm
    <3>2. Silent(k, Live(k), v)
      BY <1>2, <2>8
    <3> QED BY <2>5, <3>1, <3>2, SilentTransitive
  <2>10. Calm(k)'
    BY <2>4, <2>5, <2>9 DEF Calm
  <2>11. (Alarm(k, 0) => Alarm(k, 0)') /\ (Wakes(k, Live(k), v) => Alarm(k, 0)')
    BY <2>0, <2>7, <2>8
  <2> QED BY <2>3, <2>5, <2>10, <2>11
<1> QED BY <1>1, <1>2

\* What a delivery does: what woke has woken.
LEMMA DeliverCalm ==
    ASSUME TypeOK, \A j \in Kinds : Calm(j), NEW k \in Kinds, Deliver(k)
    PROVE  /\ \A j \in Kinds : Calm(j)'
           /\ \A j \in Kinds : Alarm(j, 0) => queued' \/ Alarm(j, 0)'
           /\ queued => queued'
           /\ \A j \in Kinds : Live(j)' = Live(j)
<1>. PICK n \in Nat : n = Len(watch[k])
  BY LiveTypes
<1>0. watch[k] \in Seq(Snapshot(k)) /\ n = Len(watch[k]) /\ n # 0 /\ DOMAIN cache = Kinds /\ DOMAIN watch = Kinds
  BY LiveTypes DEF Deliver
<1>1. /\ cache' = [cache EXCEPT ![k] = watch[k][1]]
      /\ watch' = [watch EXCEPT ![k] = Tail(watch[k])]
      /\ queued' = (queued \/ Wakes(k, Said(k, 0), Said(k, 1)))
      /\ UNCHANGED store
  BY <1>0 DEF Deliver, Said
<1>2. \A j \in Kinds \ {k} : cache'[j] = cache[j] /\ watch'[j] = watch[j]
  BY <1>0, <1>1
<1>3. \A j \in Kinds \ {k} : Calm(j)' /\ (Alarm(j, 0) => Alarm(j, 0)')
  BY <1>1, <1>2 DEF Calm, Alarm, Said, Live
<1>4. Len(watch'[k]) = n - 1 /\ \A i \in 1 .. n - 1 : watch'[k][i] = watch[k][i + 1]
  BY <1>0, <1>1
<1>5. \A i \in 0 .. n - 1 : Said(k, i)' = Said(k, i + 1)
  BY <1>0, <1>1, <1>4 DEF Said
<1>6. \A i \in 0 .. n - 1 : Alarm(k, i)' <=> Alarm(k, i + 1)
  <2> SUFFICES ASSUME NEW i \in 0 .. n - 1 PROVE Alarm(k, i)' <=> Alarm(k, i + 1)
    OBVIOUS
  <2>1. ASSUME NEW j \in i + 1 .. n - 1
        PROVE  /\ j + 1 \in (i + 1) + 1 .. n /\ (j + 1) - 1 = j
               /\ Said(k, j - 1)' = Said(k, j) /\ Said(k, j)' = Said(k, j + 1)
    <3>1. j - 1 \in 0 .. n - 1 /\ j \in 0 .. n - 1 /\ (j - 1) + 1 = j
      BY <1>0
    <3> QED BY <1>0, <1>5, <3>1
  <2>2. ASSUME NEW j \in (i + 1) + 1 .. n
        PROVE  j - 1 \in i + 1 .. n - 1 /\ (j - 1) + 1 = j
    BY <1>0
  <2>3. Alarm(k, i)' <=> \E j \in i + 1 .. n - 1 : Wakes(k, Said(k, j - 1)', Said(k, j)')
    BY <1>4 DEF Alarm
  <2>4. Alarm(k, i + 1) <=> \E j \in (i + 1) + 1 .. n : Wakes(k, Said(k, j - 1), Said(k, j))
    BY DEF Alarm
  <2>5. Alarm(k, i)' => Alarm(k, i + 1)
    BY <2>1, <2>3, <2>4
  <2>6. ASSUME NEW j \in (i + 1) + 1 .. n, Wakes(k, Said(k, j - 1), Said(k, j)) PROVE Alarm(k, i)'
    BY <2>1, <2>2, <2>3, <2>6
  <2> QED BY <2>4, <2>5, <2>6
<1>7. Calm(k)'
  <2>1. Said(k, n - 1)' = Live(k) /\ Live(k)' = Live(k)
    BY <1>0, <1>1, <1>5 DEF Calm, Live
  <2>2. \A i \in 0 .. n - 1 : Alarm(k, i)' \/ Silent(k, Said(k, i)', Live(k))
    BY <1>0, <1>5, <1>6 DEF Calm
  <2> QED BY <1>4, <2>1, <2>2 DEF Calm
<1>8. Alarm(k, 0) => queued' \/ Alarm(k, 0)'
  <2> SUFFICES ASSUME Alarm(k, 0), ~queued' PROVE Alarm(k, 1)
    <3>1. 0 \in 0 .. n - 1 /\ 0 + 1 = 1
      BY <1>0
    <3> QED BY <1>6, <3>1
  <2>1. PICK j \in 1 .. n : Wakes(k, Said(k, j - 1), Said(k, j))
    BY <1>0 DEF Alarm
  <2>2. j = 1 => j - 1 = 0
    OBVIOUS
  <2>3. j # 1
    BY <1>1, <2>1, <2>2
  <2>4. j \in 1 + 1 .. n
    BY <2>3
  <2> QED BY <1>0, <2>1, <2>4 DEF Alarm
<1> QED BY <1>1, <1>3, <1>7, <1>8 DEF Live

-----------------------------------------------------------------------------
(* What is left to be done about a child *)

\* A wanted child is built with the label.
LEMMA BuiltLabelled ==
    ASSUME EveryChangeShows, NEW k, NEW spec \in Specs, Wanted(k, spec)
    PROVE  BuiltLabel(k, spec) = TRUE
BY DEF EveryChangeShows, BuiltLabel, Wanted, WorkloadKinds

\* The checksum only matters to the workload that is asked for.
LEMMA ContentHash ==
    ASSUME NEW k, NEW v, NEW p, NEW h, NEW g, k \in WorkloadKinds /\ Wanted(k, p.spec) => h = g
    PROVE  Content(k, v, p, h) <=> Content(k, v, p, g)
<1>1. Wanted(k, p.spec) => Desired(k, p, h) = Desired(k, p, g)
  BY DEF Desired
<1> QED BY <1>1 DEF Content

\* A silent change needs nobody to do anything.
LEMMA ContentSilent ==
    ASSUME EveryChangeShows, NEW k \in ChildKinds, NEW a \in ChildObject \cup {None}, NEW b,
           NEW p, p.spec \in Specs, NEW h, Content(k, a, p, h), Silent(k, a, b)
    PROVE  Content(k, b, p, h)
<1> SUFFICES ASSUME a # b PROVE Content(k, b, p, h)
  OBVIOUS
<1>1. k \in Mended /\ a # None /\ ~a.label /\ (b = None \/ (b.owner = a.owner /\ ~b.label))
  BY DEF Silent
<1>2. ~Wanted(k, p.spec)
  <2> SUFFICES ASSUME Wanted(k, p.spec) PROVE FALSE
    OBVIOUS
  <2> DEFINE want == Desired(k, p, h)
  <2>1. want.label = TRUE
    BY BuiltLabelled DEF Desired
  <2>2. Merged(k, a, want) = a
    BY DEF Content
  <2>3. Merged(k, a, want) = [a EXCEPT !.val = want.val, !.label = want.label]
    BY <1>1 DEF Merged, Mended, PolicyKinds, WorkloadKinds
  <2>4. [a EXCEPT !.val = want.val, !.label = want.label].label = want.label
    BY <1>1 DEF ChildObject
  <2> QED BY <1>1, <2>1, <2>2, <2>3, <2>4
<1>3. ~MayDelete(k, a, p)
  BY <1>1, <1>2 DEF Content
<1>4. b # None => ~MayDelete(k, b, p)
  BY <1>1, <1>3 DEF MayDelete
<1> QED BY <1>2, <1>4 DEF Content

LEMMA ContentStays ==
    ASSUME TypeOK, EveryChangeShows, NEW k \in ChildKinds, NEW p, p.spec \in Specs,
           ContentNow(k, p), Silent(k, Live(k), Live(k)'), Live("ConfigMap")' = Live("ConfigMap")
    PROVE  ContentNow(k, p)'
<1>1. LiveHash(p)' = LiveHash(p)
  BY DEF LiveHash, Exists
<1>2. Content(k, Live(k)', p, LiveHash(p))
  BY LiveTypes, ContentSilent DEF ContentNow
<1> QED BY <1>1, <1>2 DEF ContentNow

\* The Phare of a pass and the children its steps are about.
LEMMA Targets ==
    ASSUME TypeInv, Busy
    PROVE  /\ ph.val \in PhareObject /\ ph.val.spec \in Specs /\ ph.val.spec.kind \in WorkloadKinds
           /\ \A s \in Scope \cup {"stale", "workload"} : s \in Steps \ {"build"} /\ Target(s) \in ChildKinds
           /\ \A s \in Steps \ {"build"} : Target(s) \in ChildKinds
           /\ \A s, t \in Steps \ {"build"} : Target(s) = Target(t) => s = t
           /\ Target("workload") = ph.val.spec.kind
           /\ Target("stale") = OtherWorkload(ph.val.spec.kind)
           /\ \A s \in OptionalKinds : Target(s) = s /\ s \in Steps
<1>1. ph.val \in PhareObject
  BY DEF TypeInv, TypeOK, RequestSound, Busy, Snapshot, ObjectOf
<1>2. ph.val.spec \in Specs /\ ph.val.spec.kind \in WorkloadKinds
  BY <1>1, SpecsAssumption DEF PhareObject, SpecType
<1>3. Steps = OptionalKinds \cup {"stale", "build", "workload"}
  BY DEF Steps, Place, OptionalKinds
<1>4. /\ Target("workload") = ph.val.spec.kind
      /\ Target("stale") = OtherWorkload(ph.val.spec.kind)
      /\ \A s \in OptionalKinds : Target(s) = s /\ s \notin {"stale", "build", "workload"}
  BY DEF Target, OptionalKinds
<1>5. /\ OtherWorkload(ph.val.spec.kind) \in WorkloadKinds
      /\ OtherWorkload(ph.val.spec.kind) # ph.val.spec.kind
      /\ OptionalKinds \cap WorkloadKinds = {}
      /\ Scope \subseteq OptionalKinds
  BY <1>2, ScopeAssumption DEF OtherWorkload, WorkloadKinds, OptionalKinds
<1>6. \A s \in Steps \ {"build"} : Target(s) \in ChildKinds
  BY <1>2, <1>3, <1>4, <1>5 DEF ChildKinds
<1>7. \A s, t \in Steps \ {"build"} : Target(s) = Target(t) => s = t
  BY <1>2, <1>3, <1>4, <1>5
<1>8. Scope \cup {"stale", "workload"} \subseteq Steps \ {"build"}
  BY <1>3, <1>4, <1>5
<1> QED BY <1>1, <1>2, <1>3, <1>4, <1>6, <1>7, <1>8

-----------------------------------------------------------------------------
(* The environment *)

\* Steps of others after which nobody will notice anything have changed nothing much.
LEMMA Undisturbed ==
    ASSUME WakeInv, EveryChangeShows, UNCHANGED ctlVars,
           ~Noticed' => ~Noticed /\ \A j \in Kinds : Silent(j, Live(j), Live(j)')
    PROVE  RequestFits' /\ PassLeavesNothing' /\ NothingLeft'
<1>0. TypeInv /\ TypeOK /\ "Phare" \in Kinds /\ "ConfigMap" \in Kinds /\ ChildKinds \subseteq Kinds
  BY DEF WakeInv, RefinementInv, SafetyInv, TypeInv, Kinds, ChildKinds, OptionalKinds
<1>1. UNCHANGED <<ph, todo, req, hash, err>>
  BY DEF ctlVars
<1>2. ~Noticed' => Live("Phare")' = Live("Phare") /\ Live("ConfigMap")' = Live("ConfigMap")
  BY <1>0 DEF Silent, Mended
<1>3. ASSUME NEW k \in ChildKinds, NEW p, p.spec \in Specs, ContentNow(k, p), ~Noticed'
      PROVE  ContentNow(k, p)'
  BY <1>0, <1>2, <1>3, ContentStays
<1>4. RequestFits'
  <2> SUFFICES ASSUME req # None PROVE RequestFits'
    BY <1>1 DEF RequestFits
  <2>1. /\ \E s \in Steps \ {"build"} : At(s)' /\ Target(s)' = req.kind
        /\ req.verb \in {"update", "patch"} =>
              Merged(req.kind, req.base.val, Desired(req.kind, ph.val, hash)) # req.base.val
    BY <1>1 DEF WakeInv, Attentive, RequestFits, At, Busy, Target
  <2>2. PICK k \in Kinds : k = req.kind
    BY <1>0, VersionsAreNat
  <2>3. Noticed' \/ Silent(k, req.base.val, Live(k)')
    BY <2>2, SilentTransitive DEF WakeInv, Attentive, RequestFits
  <2> QED BY <1>1, <2>1, <2>2, <2>3 DEF RequestFits, Live
<1>5. PassLeavesNothing'
  <2> SUFFICES ASSUME Busy, ~Noticed' PROVE PassLeavesNothing'
    BY <1>1 DEF PassLeavesNothing, Busy
  <2>1. /\ ph.val = Live("Phare")
        /\ "build" \notin todo => hash = LiveHash(ph.val)
        /\ \A s \in Scope \cup {"stale", "workload"} : s \in todo \/ ContentNow(Target(s), ph.val)
    BY DEF WakeInv, Attentive, PassLeavesNothing
  <2>2. \A p : LiveHash(p)' = LiveHash(p)
    BY <1>2 DEF LiveHash, Exists
  <2>3. ASSUME NEW s \in Scope \cup {"stale", "workload"}, s \notin todo
        PROVE  ContentNow(Target(s), ph.val)'
    <3>1. PICK k, p : k \in ChildKinds /\ k = Target(s) /\ p = ph.val /\ p.spec \in Specs
      BY <1>0, Targets
    <3>2. ContentNow(k, p)'
      BY <1>3, <2>1, <2>3, <3>1
    <3>3. Target(s)' = k /\ ph'.val = p
      BY <1>1, <3>1 DEF Target
    <3> QED BY <3>2, <3>3 DEF ContentNow, Live, LiveHash, Exists
  <2> QED BY <1>1, <1>2, <2>1, <2>2, <2>3 DEF PassLeavesNothing, LiveHash, Exists, Live
<1>6. NothingLeft'
  <2> SUFFICES ASSUME ~Busy, ~Noticed', Exists("Phare") PROVE NothingLeft'
    BY <1>1, <1>2 DEF NothingLeft, Busy, Exists
  <2> DEFINE p == Live("Phare")
  <2>1. p.status = "Active" /\ Buildable(p) /\ \A k \in Scope \cup WorkloadKinds : ContentNow(k, p)
    BY DEF WakeInv, Attentive, NothingLeft
  <2>2. p.spec \in Specs /\ Scope \cup WorkloadKinds \subseteq ChildKinds
    BY <1>0, LiveTypes, ScopeAssumption DEF PhareObject, Exists, ChildKinds
  <2>3. PICK q : q = Live("Phare") /\ q.spec \in Specs /\ \A k \in Scope \cup WorkloadKinds : ContentNow(k, q)
    BY <2>1, <2>2
  <2>4. \A k \in Scope \cup WorkloadKinds : ContentNow(k, q)'
    BY <1>3, <2>2, <2>3
  <2>5. Live("Phare")' = q
    BY <1>2, <2>3
  <2> QED BY <2>1, <2>3, <2>4, <2>5 DEF NothingLeft, Buildable, ContentNow, Live, LiveHash, Exists
<1> QED BY <1>4, <1>5, <1>6

\* The parts of the invariant that the lemmas below are stated with.
LEMMA Parts ==
    ASSUME WakeInv
    PROVE  /\ RefinementInv /\ SafetyInv /\ SnapshotsSound /\ TypeInv /\ TypeOK /\ RequestSound /\ PassFits
           /\ \A j \in Kinds : Calm(j)
           /\ \A j \in ChildKinds : Proper(j, Live(j))
           /\ RequestFits /\ PassLeavesNothing /\ NothingLeft /\ BuiltFits
BY DEF WakeInv, RefinementInv, SafetyInv, TypeInv, Attentive

LEMMA OutsideKeeps ==
    ASSUME WakeInv, EveryChangeShows, NEW k \in Kinds, NEW v, Put(k, v),
           UNCHANGED <<cache, queued, ctlVars>>,
           k = "Phare" \/ (k \in ChildKinds /\ Change(k, Live(k), v))
    PROVE  Attentive'
<1>1. v = Live(k) \/ Wakes(k, Live(k), v) \/ (k # "Phare" /\ Silent(k, Live(k), v))
  <2>1. CASE k = "Phare"
    BY <2>1 DEF Wakes
  <2>2. CASE k \in ChildKinds /\ Change(k, Live(k), v)
    BY <2>2, Parts, LiveTypes, ChangeShows
  <2> QED BY <2>1, <2>2
<1>2. /\ \A j \in Kinds : Calm(j)'
      /\ \A j \in Kinds : Alarm(j, 0) => Alarm(j, 0)'
      /\ v # Live(k) /\ Wakes(k, Live(k), v) => Alarm(k, 0)'
      /\ \A j \in Kinds \ {k} : Live(j)' = Live(j)
      /\ Live(k)' = v
  BY <1>1, Parts, PutCalm
<1>3. ~Noticed' => ~Noticed /\ \A j \in Kinds : Silent(j, Live(j), Live(j)')
  BY <1>1, <1>2 DEF Noticed, Busy, ctlVars, Silent
<1>4. \A j \in ChildKinds : Proper(j, Live(j)')
  <2>1. \A j \in ChildKinds : j \in Kinds /\ j # "Phare"
    BY Parts, LiveTypes
  <2> QED BY <1>2, <2>1, Parts DEF Change
<1> QED BY <1>2, <1>3, <1>4, Undisturbed DEF Attentive, Proper, Live

LEMMA DeliverKeeps ==
    ASSUME WakeInv, EveryChangeShows, NEW k \in Kinds, Deliver(k), UNCHANGED ctlVars
    PROVE  Attentive'
<1>1. /\ \A j \in Kinds : Calm(j)'
      /\ \A j \in Kinds : Alarm(j, 0) => queued' \/ Alarm(j, 0)'
      /\ queued => queued'
      /\ \A j \in Kinds : Live(j)' = Live(j)
  BY Parts, DeliverCalm
<1>2. ~Noticed' => ~Noticed /\ \A j \in Kinds : Silent(j, Live(j), Live(j)')
  BY <1>1 DEF Noticed, Busy, ctlVars, Silent
<1>3. \A j \in ChildKinds : Proper(j, Live(j)')
  BY <1>1, Parts, LiveTypes
<1> QED BY <1>1, <1>2, <1>3, Undisturbed DEF Attentive, Proper, Live

\* A resync queues the Phare, and a stutter does nothing.
LEMMA IdleKeeps ==
    ASSUME WakeInv, EveryChangeShows, UNCHANGED <<store, watch, cache, ctlVars>>,
           queued' = queued \/ queued'
    PROVE  Attentive'
<1>1. \A j \in Kinds : Calm(j)' /\ (Alarm(j, 0)' <=> Alarm(j, 0)) /\ Live(j)' = Live(j)
  BY Parts DEF Calm, Alarm, Said, Live
<1>2. ~Noticed' => ~Noticed /\ \A j \in Kinds : Silent(j, Live(j), Live(j)')
  BY <1>1 DEF Noticed, Busy, ctlVars, Silent
<1>3. \A j \in ChildKinds : Proper(j, Live(j)')
  BY <1>1, Parts, LiveTypes
<1> QED BY <1>1, <1>2, <1>3, Undisturbed DEF Attentive, Proper, Live

\* What others do to a child, unless they hide it.
LEMMA MeddleChange ==
    ASSUME WakeInv, EveryChangeShows, NEW verb, NEW k \in ChildKinds, <<verb, k>> \in Meddling,
           Exists(k), NEW v \in Values
    PROVE  /\ verb = "edit" => Change(k, Live(k), [Live(k) EXCEPT !.val = v])
           /\ verb = "unlabel" => Change(k, Live(k), [Live(k) EXCEPT !.label = FALSE])
           /\ verb # "plant"
<1>1. Live(k) \in ChildObject /\ Live(k) # None /\ Proper(k, Live(k))
  BY Parts, LiveTypes DEF Exists
<1>2. v \in Contents
  BY DEF Contents
<1>3. /\ [Live(k) EXCEPT !.val = v] \in ChildObject
      /\ [Live(k) EXCEPT !.val = v].owner = Live(k).owner
      /\ [Live(k) EXCEPT !.val = v].label = Live(k).label
      /\ [Live(k) EXCEPT !.val = v].sum = Live(k).sum
      /\ [Live(k) EXCEPT !.label = FALSE] \in ChildObject
      /\ [Live(k) EXCEPT !.label = FALSE].owner = Live(k).owner
      /\ [Live(k) EXCEPT !.label = FALSE].sum = Live(k).sum
  BY <1>1, <1>2 DEF ChildObject
<1>4. verb # "plant" /\ (verb = "unlabel" => k \in Mended)
  BY DEF EveryChangeShows
<1> QED BY <1>1, <1>3, <1>4 DEF Change, Proper

LEMMA EnvironmentKeeps ==
    ASSUME WakeInv, EveryChangeShows, Environment, UNCHANGED ctlVars
    PROVE  Attentive'
<1>0. "Phare" \in Kinds /\ ChildKinds \subseteq Kinds
  BY DEF Kinds
<1>1. CASE CreatePhare \/ EditPhare \/ DeletePhare
  BY <1>0, <1>1, OutsideKeeps DEF CreatePhare, EditPhare, DeletePhare
<1>2. CASE Resync
  BY <1>2, IdleKeeps DEF Resync
<1>3. ASSUME NEW k \in ChildKinds, CollectGarbage(k) PROVE Attentive'
  <2>1. Change(k, Live(k), None)
    BY DEF Change, Proper
  <2> QED BY <1>0, <1>3, <2>1, OutsideKeeps DEF CollectGarbage
<1>4. ASSUME NEW k \in Kinds, Deliver(k) PROVE Attentive'
  BY <1>4, DeliverKeeps
<1>5. ASSUME NEW verb \in {"edit", "unlabel", "delete", "plant"}, NEW k \in ChildKinds,
             Meddle(verb, k)
      PROVE  Attentive'
  <2>1. <<verb, k>> \in Meddling /\ (Exists(k) <=> verb # "plant") /\ UNCHANGED <<cache, queued>>
    BY <1>5 DEF Meddle
  <2>2. PICK v \in Values :
          Put(k, CASE verb = "edit"    -> [Live(k) EXCEPT !.val = v]
                   [] verb = "unlabel" -> [Live(k) EXCEPT !.label = FALSE]
                   [] verb = "delete"  -> None
                   [] verb = "plant"   -> [owner |-> Foreign, val |-> v, label |-> FALSE, sum |-> None])
    BY <1>5 DEF Meddle
  <2>3. verb # "plant"
    BY <2>1 DEF EveryChangeShows
  <2>4. Change(k, Live(k), None)
    BY DEF Change, Proper
  <2>5. PICK w : Put(k, w) /\ Change(k, Live(k), w)
    BY <2>1, <2>2, <2>3, <2>4, MeddleChange
  <2> QED BY <1>0, <2>1, <2>5, OutsideKeeps
<1> QED BY <1>1, <1>2, <1>3, <1>4, <1>5 DEF Environment

-----------------------------------------------------------------------------
(* The worker *)

\* The worker is at one step at a time, and has built the workload when it comes to it.
LEMMA OneStep ==
    ASSUME NEW s \in Steps, At(s)
    PROVE  /\ \A t \in Steps : At(t) => t = s
           /\ s = "workload" => "build" \notin todo
BY DEF At, Steps, Place

\* Steps that leave the objects and what is said of them as they are.
LEMMA NothingSaid ==
    ASSUME WakeInv, UNCHANGED <<store, watch, cache>>
    PROVE  /\ \A j \in Kinds : Calm(j)' /\ (Alarm(j, 0)' <=> Alarm(j, 0)) /\ Live(j)' = Live(j)
           /\ \A j \in ChildKinds : Proper(j, Live(j))'
           /\ \A p : LiveHash(p)' = LiveHash(p)
<1>1. \A j \in Kinds : Calm(j)' /\ (Alarm(j, 0)' <=> Alarm(j, 0)) /\ Live(j)' = Live(j)
  BY Parts DEF Calm, Alarm, Said, Live
<1>2. \A j \in ChildKinds : Proper(j, Live(j))'
  BY Parts DEF Proper, Live
<1>3. \A p : LiveHash(p)' = LiveHash(p)
  BY DEF LiveHash, Exists, Live
<1> QED BY <1>1, <1>2, <1>3

\* What was heard of an object is as it is, or was changed silently, if nothing is due.
LEMMA HeardIsLive ==
    ASSUME WakeInv, NEW k \in Kinds, ~Alarm(k, 0)
    PROVE  /\ Silent(k, cache[k].val, Live(k))
           /\ k \notin Mended => cache[k].val = Live(k)
<1>1. Len(watch[k]) \in Nat
  BY Parts, LiveTypes
<1>2. Silent(k, Said(k, 0), Live(k))
  BY <1>1, Parts DEF Calm
<1> QED BY <1>2 DEF Said, Silent

LEMMA FetchKeeps ==
    ASSUME WakeInv, EveryChangeShows, Fetch
    PROVE  Attentive'
<1>0. "Phare" \in Kinds /\ "Phare" \notin Mended
  BY DEF Kinds, Mended
<1>1. ~Busy /\ queued' = FALSE /\ UNCHANGED <<store, watch, cache, req, hash, err>> /\ req = None
  BY Parts DEF Fetch, RequestSound
<1>2. /\ \A j \in Kinds : Calm(j)' /\ (Alarm(j, 0)' <=> Alarm(j, 0)) /\ Live(j)' = Live(j)
      /\ \A j \in ChildKinds : Proper(j, Live(j))'
  BY <1>1, NothingSaid
<1>3. ~Noticed' => cache["Phare"].val = Live("Phare")
  BY <1>0, <1>2, HeardIsLive DEF Noticed
<1>4. CASE cache["Phare"].val = None
  <2>1. ph' = None
    BY <1>1, <1>4 DEF Fetch, Busy
  <2>2. ~Noticed' => ~Exists("Phare")'
    BY <1>0, <1>2, <1>3, <1>4 DEF Exists
  <2> QED BY <1>1, <1>2, <2>1, <2>2 DEF Attentive, RequestFits, PassLeavesNothing, NothingLeft, Busy
<1>5. CASE cache["Phare"].val # None
  <2>1. ph' = cache["Phare"] /\ todo' = Scope \cup {"stale", "build", "workload"}
    BY <1>5 DEF Fetch
  <2>2. Busy'
    BY <1>0, <2>1, Parts, NoneAssumption DEF Busy, TypeOK, ClusterTypeOK
  <2>3. ~Noticed' => ph'.val = Live("Phare")'
    BY <1>0, <1>2, <1>3, <2>1
  <2> QED BY <1>1, <1>2, <2>1, <2>2, <2>3 DEF Attentive, RequestFits, PassLeavesNothing, NothingLeft
<1> QED BY <1>4, <1>5

\* A step that is done without a write: by the object that was read nothing is to be done.
LEMMA GetKeeps ==
    ASSUME WakeInv, EveryChangeShows, NEW s \in Steps, Get(s)
    PROVE  Attentive'
<1>. PICK k : k = Target(s)
  OBVIOUS
<1>0. /\ At(s) /\ s # "build" /\ req = None /\ Busy /\ UNCHANGED clusterVars
      /\ UNCHANGED <<ph, hash, err>> /\ Busy'
  BY DEF Get, At, StepDone, Busy
<1>1. k \in ChildKinds /\ k \in Kinds /\ ph.val \in PhareObject /\ ph.val.spec \in Specs
  BY <1>0, Parts, Targets, LiveTypes
<1>2. /\ \A j \in Kinds : Calm(j)' /\ (Alarm(j, 0)' <=> Alarm(j, 0)) /\ Live(j)' = Live(j)
      /\ \A j \in ChildKinds : Proper(j, Live(j))'
      /\ \A p : LiveHash(p)' = LiveHash(p)
  BY <1>0, NothingSaid DEF clusterVars
<1>3. Noticed' <=> Noticed
  BY <1>0, <1>2 DEF Noticed, Busy, clusterVars
<1>4. Noticed \/ Silent(k, Read(k).val, Live(k))
  BY <1>1, HeardIsLive DEF Noticed, Read, Silent, Live
<1>5. ASSUME NEW t \in Scope \cup {"stale", "workload"}
      PROVE  ContentNow(Target(t), ph.val)' <=> ContentNow(Target(t), ph.val)
  BY <1>0, <1>2 DEF ContentNow, Target, Live, clusterVars
<1>6. ~Noticed => /\ ph.val = Live("Phare")
                  /\ "build" \notin todo => hash = LiveHash(ph.val)
                  /\ \A t \in Scope \cup {"stale", "workload"} : t \in todo \/ ContentNow(Target(t), ph.val)
  BY <1>0, Parts DEF PassLeavesNothing
<1>7. CASE Decide(k, Read(k).val) = "none"
  <2>1. todo' = todo \ {s} /\ req' = None
    BY <1>7 DEF Get, StepDone
  <2>2. Content(k, Read(k).val, ph.val, hash)
    BY <1>7 DEF Decide, Content, ModifyVerb
  <2>3. Read(k).val \in ChildObject \cup {None}
    BY <1>1, Parts, LiveTypes DEF Read, Live
  <2>4. ~Noticed => Content(k, Live(k), ph.val, hash)
    BY <1>1, <1>4, <2>2, <2>3, ContentSilent
  <2>5. ~Noticed => ContentNow(k, ph.val)
    <3>1. k \in WorkloadKinds /\ Wanted(k, ph.val.spec) => s = "workload"
      BY <1>0, Parts, Targets DEF Wanted
    <3> QED BY <1>0, <1>6, <2>4, <3>1, OneStep, ContentHash DEF ContentNow
  <2>6. PassLeavesNothing'
    BY <1>0, <1>2, <1>3, <1>5, <1>6, <2>1, <2>5 DEF PassLeavesNothing, Live, clusterVars
  <2> QED BY <1>0, <1>2, <2>1, <2>6 DEF Attentive, RequestFits, NothingLeft
<1>8. CASE Decide(k, Read(k).val) # "none"
  <2>1. /\ req' = [verb |-> Decide(k, Read(k).val), kind |-> k, base |-> Read(k)]
        /\ todo' = todo
    BY <1>8 DEF Get
  <2>2. Decide(k, Read(k).val) \in {"update", "patch"} =>
          Merged(k, Read(k).val, Desired(k, ph.val, hash)) # Read(k).val
    BY DEF Decide, ModifyVerb
  <2>3. req'.verb = Decide(k, Read(k).val) /\ req'.kind = k /\ req'.base = Read(k)
    BY <2>1
  <2>4. At(s)' /\ Target(s)' = k
    BY <1>0, <2>1 DEF At, Busy, Target
  <2>5. Noticed' \/ Silent(k, req'.base.val, Live(k)')
    BY <1>1, <1>2, <1>3, <1>4, <2>3
  <2>6. RequestFits'
    BY <1>0, <2>2, <2>3, <2>4, <2>5 DEF RequestFits, Live
  <2>7. PassLeavesNothing'
    BY <1>0, <1>2, <1>3, <1>5, <1>6, <2>1 DEF PassLeavesNothing, Live, clusterVars
  <2> QED BY <1>0, <1>2, <2>6, <2>7 DEF Attentive, NothingLeft
<1> QED BY <1>7, <1>8

\* A pass that has failed comes again.
LEMMA FailureKeeps ==
    ASSUME WakeInv, Busy, UNCHANGED <<store, watch, cache>>, NEW e \in Errors, FailWith(e)
    PROVE  Attentive'
<1>1. /\ \A j \in Kinds : Calm(j)'
      /\ \A j \in ChildKinds : Proper(j, Live(j))'
  BY NothingSaid
<1>2. req' = None /\ Busy' /\ Noticed'
  BY DEF FailWith, Busy, Noticed, Errors
<1> QED BY <1>1, <1>2 DEF Attentive, RequestFits, PassLeavesNothing, NothingLeft

LEMMA BuildKeeps ==
    ASSUME WakeInv, EveryChangeShows, Build
    PROVE  Attentive'
<1>0. /\ At("build") /\ Busy /\ UNCHANGED <<store, watch, cache, queued>>
      /\ "ConfigMap" \in Kinds /\ "ConfigMap" \notin Mended
  BY DEF Build, At, clusterVars, Kinds, ChildKinds, OptionalKinds, Mended
<1>1. CASE FailWith("build") \/ FailWith("hash")
  BY <1>0, <1>1, FailureKeeps DEF Errors
<1>2. CASE ~(FailWith("build") \/ FailWith("hash"))
  <2>1. /\ HasConfig(ph.val.spec) => cache["ConfigMap"].val # None
        /\ hash' = IF HasConfig(ph.val.spec) THEN cache["ConfigMap"].val.val ELSE None
        /\ todo' = todo \ {"build"}
        /\ UNCHANGED <<ph, req, err>>
    BY <1>2 DEF Build
  <2>2. req = None
    BY <1>0, Parts DEF PassFits
  <2>3. /\ \A j \in Kinds : Calm(j)' /\ (Alarm(j, 0)' <=> Alarm(j, 0)) /\ Live(j)' = Live(j)
        /\ \A j \in ChildKinds : Proper(j, Live(j))'
        /\ \A p : LiveHash(p)' = LiveHash(p)
    BY <1>0, NothingSaid
  <2>4. (Noticed' <=> Noticed) /\ Busy'
    BY <1>0, <2>1, <2>3 DEF Noticed, Busy
  <2>5. ~Noticed => hash' = LiveHash(ph.val)
    <3>1. ~Noticed => cache["ConfigMap"].val = Live("ConfigMap")
      BY <1>0, HeardIsLive DEF Noticed
    <3> QED BY <2>1, <3>1 DEF LiveHash, Exists
  <2>6. ASSUME NEW t \in Scope \cup {"stale", "workload"}
        PROVE  /\ ContentNow(Target(t), ph.val)' <=> ContentNow(Target(t), ph.val)
               /\ t # "build"
    BY <1>0, <2>1, <2>3, ScopeAssumption DEF ContentNow, Target, Live, OptionalKinds
  <2>7. PassLeavesNothing'
    BY <1>0, <2>1, <2>3, <2>4, <2>5, <2>6, Parts DEF PassLeavesNothing, Live
  <2> QED BY <2>1, <2>2, <2>3, <2>4, <2>7 DEF Attentive, RequestFits, NothingLeft
<1> QED BY <1>1, <1>2

\* A call that has been answered: it has woken somebody, or left nothing to be done.
LEMMA CallKeeps ==
    ASSUME WakeInv, EveryChangeShows, NEW s \in Steps, At(s), req # None,
           NEW k, k = req.kind, NEW v, Put(k, v), v = Live(k) \/ Change(k, Live(k), v),
           UNCHANGED <<cache, queued>>,
           \/ \E e \in Errors : FailWith(e)
           \/ /\ StepDone(s)
              /\ \/ Noticed
                 \/ v # Live(k) /\ Wakes(k, Live(k), v)
                 \/ Content(k, v, ph.val, hash)
    PROVE  Attentive'
<1>0. /\ k \in ChildKinds /\ k \in Kinds /\ k # "Phare" /\ Busy
      /\ ph.val \in PhareObject /\ ph.val.spec \in Specs
      /\ ChildKinds \subseteq Kinds /\ "Phare" \in Kinds /\ "ConfigMap" \in Kinds
  BY Parts, RequestType, LiveTypes, Targets DEF RequestSound, Kinds, ChildKinds, OptionalKinds
<1>1. v = Live(k) \/ Wakes(k, Live(k), v) \/ Silent(k, Live(k), v)
  BY <1>0, Parts, LiveTypes, ChangeShows
<1>2. /\ \A j \in Kinds : Calm(j)'
      /\ \A j \in Kinds : Alarm(j, 0) => Alarm(j, 0)'
      /\ v # Live(k) /\ Wakes(k, Live(k), v) => Alarm(k, 0)'
      /\ \A j \in Kinds \ {k} : Live(j)' = Live(j)
      /\ Live(k)' = v
  BY <1>0, <1>1, Parts, PutCalm
<1>3. \A j \in ChildKinds : Proper(j, Live(j)')
  <2>1. \A j \in ChildKinds : Proper(j, Live(j)) /\ j \in Kinds
    BY <1>0, Parts
  <2>2. Proper(k, v)
    BY <1>0, <2>1 DEF Change
  <2> QED BY <1>2, <2>1, <2>2
<1>4. Busy' /\ ph' = ph /\ req' = None
  BY <1>0 DEF StepDone, FailWith, Busy
<1>5. PassLeavesNothing'
  <2>1. CASE \E e \in Errors : FailWith(e)
    BY <1>4, <2>1 DEF FailWith, Noticed, PassLeavesNothing, Errors
  <2>2. CASE /\ StepDone(s)
             /\ \/ Noticed
                \/ v # Live(k) /\ Wakes(k, Live(k), v)
                \/ Content(k, v, ph.val, hash)
    <3> SUFFICES ASSUME ~Noticed' PROVE PassLeavesNothing'
      BY DEF PassLeavesNothing
    <3>1. todo' = todo \ {s} /\ UNCHANGED <<ph, hash, err>>
      BY <2>2 DEF StepDone
    <3>2. ~Noticed
      BY <1>0, <1>2, <1>4, <3>1 DEF Noticed
    <3>3. Silent(k, Live(k), v) /\ Content(k, v, ph.val, hash)
      BY <1>0, <1>1, <1>2, <2>2, <3>2 DEF Noticed, Silent
    <3>4. \A j \in Kinds : Silent(j, Live(j), Live(j)')
      BY <1>2, <3>3 DEF Silent
    <3>5. Live("ConfigMap")' = Live("ConfigMap") /\ Live("Phare")' = Live("Phare")
      BY <1>0, <3>4 DEF Silent, Mended
    <3>6. \A p : LiveHash(p)' = LiveHash(p)
      BY <3>5 DEF LiveHash, Exists
    <3>7. /\ ph.val = Live("Phare")
          /\ "build" \notin todo => hash = LiveHash(ph.val)
          /\ \A t \in Scope \cup {"stale", "workload"} : t \in todo \/ ContentNow(Target(t), ph.val)
      BY <1>0, <3>2, Parts DEF PassLeavesNothing
    <3>8. s # "build" /\ Target(s) = k
      BY Parts, OneStep DEF RequestFits
    <3>9. ContentNow(k, ph.val)'
      <4>1. k \in WorkloadKinds /\ Wanted(k, ph.val.spec) => s = "workload"
        BY <1>0, <3>8, Parts, Targets DEF Wanted
      <4>2. k \in WorkloadKinds /\ Wanted(k, ph.val.spec) => hash = LiveHash(ph.val)
        BY <3>7, <4>1, OneStep
      <4>3. Content(k, v, ph.val, LiveHash(ph.val))
        BY <3>3, <4>2, ContentHash
      <4>4. PICK p : p = ph.val
        OBVIOUS
      <4>5. Content(k, Live(k)', p, LiveHash(p)')
        BY <1>2, <3>6, <4>3, <4>4
      <4> QED BY <1>4, <4>4, <4>5 DEF ContentNow, Live, LiveHash, Exists
    <3>10. ASSUME NEW t \in Scope \cup {"stale", "workload"}, t # s, t \notin todo
           PROVE  ContentNow(Target(t), ph.val)'
      <4>1. PICK j, p : j \in ChildKinds /\ j = Target(t) /\ p = ph.val
        BY <1>0, Parts, Targets
      <4>2. ContentNow(j, p)'
        BY <1>0, <3>4, <3>5, <3>7, <3>10, <4>1, Parts, ContentStays
      <4>3. Target(t)' = j /\ ph'.val = p
        BY <1>4, <4>1 DEF Target
      <4> QED BY <4>2, <4>3 DEF ContentNow, Live, LiveHash, Exists
    <3>11. Target(s)' = k
      BY <1>4, <3>8 DEF Target
    <3>12. \A t \in Scope \cup {"stale", "workload"} : t \in todo' \/ ContentNow(Target(t), ph.val)'
      BY <3>1, <3>9, <3>10, <3>11 DEF ContentNow, Live, LiveHash, Exists
    <3>13. "build" \notin todo' => hash' = LiveHash(ph.val)'
      <4>1. PICK p : p = ph.val
        OBVIOUS
      <4>2. "build" \notin todo' => hash' = LiveHash(p)'
        BY <3>1, <3>6, <3>7, <3>8, <4>1
      <4> QED BY <1>4, <4>1, <4>2 DEF LiveHash, Exists, Live
    <3> QED BY <1>4, <3>5, <3>7, <3>12, <3>13 DEF PassLeavesNothing, Live
  <2> QED BY <2>1, <2>2
<1> QED BY <1>2, <1>3, <1>4, <1>5 DEF Attentive, RequestFits, NothingLeft, Proper, Live

\* What the worker knows when it sends a request.
LEMMA Sending ==
    ASSUME WakeInv, EveryChangeShows, req # None, NEW k, k = req.kind
    PROVE  /\ k \in ChildKinds /\ Busy /\ Live(k) \in ChildObject \cup {None} /\ Proper(k, Live(k))
           /\ ph.val \in PhareObject /\ ph.val.spec \in Specs
           /\ req.verb # "delete" =>
                 /\ Wanted(k, ph.val.spec) /\ k \notin PolicyKinds /\ k \in Scope \cup WorkloadKinds
                 /\ Desired(k, ph.val, hash) \in ChildObject
                 /\ Desired(k, ph.val, hash).label = TRUE
                 /\ Desired(k, ph.val, hash).owner # Foreign
                 /\ k \in OptionalKinds => Desired(k, ph.val, hash).sum = None
           /\ req.verb \in {"update", "patch"} =>
                 /\ req.base.val \in ChildObject
                 /\ Merged(k, req.base.val, Desired(k, ph.val, hash)) # req.base.val
           /\ Noticed \/ Silent(k, req.base.val, Live(k))
<1>1. /\ k \in ChildKinds /\ Busy /\ Live(k) \in ChildObject \cup {None} /\ Proper(k, Live(k))
      /\ ph.val \in PhareObject /\ ph.val.spec \in Specs
  BY Parts, RequestType, LiveTypes, Targets DEF RequestSound
<1>2. ASSUME req.verb # "delete"
      PROVE  /\ Wanted(k, ph.val.spec) /\ k \notin PolicyKinds /\ k \in Scope \cup WorkloadKinds
             /\ Desired(k, ph.val, hash) \in ChildObject
             /\ Desired(k, ph.val, hash).label = TRUE
             /\ Desired(k, ph.val, hash).owner # Foreign
             /\ k \in OptionalKinds => Desired(k, ph.val, hash).sum = None
  <2>1. Wanted(k, ph.val.spec) /\ Desired(k, ph.val, hash) \in ChildObject
    BY <1>2, Parts, RequestType DEF RequestSound
  <2>2. k \in Scope \cup WorkloadKinds
    BY <1>1, <2>1, ScopeAssumption DEF Wanted, ChildKinds
  <2>3. k \notin PolicyKinds
    BY <2>2 DEF EveryChangeShows, PolicyKinds, WorkloadKinds
  <2>4. ph.val.uid # Foreign
    BY <1>1 DEF PhareObject
  <2>5. k \in OptionalKinds => k \notin WorkloadKinds
    BY DEF OptionalKinds, WorkloadKinds
  <2> QED BY <1>1, <2>1, <2>2, <2>3, <2>4, <2>5, BuiltLabelled DEF Desired
<1>3. req.verb \in {"update", "patch"} =>
          /\ req.base.val \in ChildObject
          /\ Merged(k, req.base.val, Desired(k, ph.val, hash)) # req.base.val
  BY Parts, RequestType DEF RequestFits
<1>4. Noticed \/ Silent(k, req.base.val, Live(k))
  BY Parts DEF RequestFits
<1> QED BY <1>1, <1>2, <1>3, <1>4

\* The fields after a merge of what the worker wants, without policies.
LEMMA MergedShape ==
    ASSUME NEW k \in ChildKinds, k \notin PolicyKinds,
           NEW child \in ChildObject, NEW want \in ChildObject, NEW m, m = Merged(k, child, want)
    PROVE  /\ m \in ChildObject
           /\ m.owner = child.owner
           /\ m.label = IF k \in Mended THEN want.label ELSE child.label
           /\ k \in OptionalKinds => m.sum = child.sum
<1>1. m \in ChildObject /\ m.owner = child.owner
  BY MergedType, MergedFields
<1>2. CASE k = "ConfigMap"
  BY <1>1, <1>2 DEF Merged, ChildObject, PolicyKinds, WorkloadKinds, Mended
<1>3. CASE k \in {"Service", "HTTPRoute"}
  BY <1>1, <1>3 DEF Merged, ChildObject, PolicyKinds, WorkloadKinds, Mended
<1>4. CASE k \in WorkloadKinds
  BY <1>1, <1>4 DEF Merged, ChildObject, PolicyKinds, WorkloadKinds, Mended, OptionalKinds
<1> QED BY <1>2, <1>3, <1>4 DEF ChildKinds, OptionalKinds, PolicyKinds

\* Two children with the same fields are the same.
LEMMA SameFields ==
    ASSUME NEW a \in ChildObject, NEW b \in ChildObject,
           a.owner = b.owner, a.val = b.val, a.label = b.label, a.sum = b.sum
    PROVE  a = b
BY DEF ChildObject

LEMMA CreateKeeps ==
    ASSUME WakeInv, EveryChangeShows, NEW s \in Steps, Create(s)
    PROVE  Attentive'
<1>. PICK k : k = req.kind
  OBVIOUS
<1> DEFINE v == Desired(k, ph.val, hash)
<1>1. At(s) /\ req # None /\ req.verb = "create" /\ UNCHANGED <<cache, queued>>
  BY DEF Create, Call
<1>2. CASE ~Exists(k) /\ Put(k, v) /\ (StepDone(s) \/ FailWith("api"))
  <2>1. /\ k \in ChildKinds /\ k \in Scope \cup WorkloadKinds /\ v \in ChildObject /\ v.label = TRUE
        /\ v.owner # Foreign /\ (k \in OptionalKinds => v.sum = None)
        /\ Live(k) \in ChildObject \cup {None} /\ Proper(k, Live(k))
    BY <1>1, Sending
  <2> HIDE DEF v
  <2>2. v # None /\ Live(k) = None
    BY <1>2, <2>1, NoneAssumption, LiveTypes, Parts DEF Exists, ObjectOf
  <2>3. Change(k, Live(k), v) /\ HasLabel(v)
    BY <2>1, <2>2 DEF Change, Proper, HasLabel
  <2>4. v # Live(k) /\ Wakes(k, Live(k), v)
    BY <2>1, <2>2, <2>3, ChangeShows
  <2> QED BY <1>1, <1>2, <2>3, <2>4, CallKeeps DEF Errors
<1>3. CASE UNCHANGED <<store, watch>> /\ (FailWith("exists") \/ FailWith("api"))
  BY <1>1, <1>3, FailureKeeps DEF Errors, At
<1> QED BY <1>1, <1>2, <1>3 DEF Create, Call

LEMMA UpdateKeeps ==
    ASSUME WakeInv, EveryChangeShows, NEW s \in Steps, Update(s)
    PROVE  Attentive'
<1>. PICK k, base, want, v : /\ k = req.kind /\ base = req.base.val
                             /\ want = Desired(k, ph.val, hash) /\ v = Merged(k, base, want)
  OBVIOUS
<1>1. At(s) /\ req # None /\ req.verb = "update" /\ UNCHANGED <<cache, queued>>
  BY DEF Update, Call
<1>2. CASE Exists(k) /\ store[k].rv = req.base.rv /\ Put(k, v) /\ (StepDone(s) \/ FailWith("api"))
  <2>1. /\ k \in ChildKinds /\ k \notin PolicyKinds /\ k \in Scope \cup WorkloadKinds
        /\ want \in ChildObject /\ want.label = TRUE
        /\ Live(k) \in ChildObject \cup {None} /\ Proper(k, Live(k))
        /\ v # base
    BY <1>1, Sending
  <2>2. base = Live(k)
    BY <1>1, <1>2, Parts DEF SnapshotsSound, Sound, Live
  <2>3. Live(k) \in ChildObject /\ Live(k) # None
    BY <1>2, <2>1 DEF Exists
  <2>4. /\ v \in ChildObject /\ v.owner = Live(k).owner
        /\ v.label = IF k \in Mended THEN TRUE ELSE Live(k).label
        /\ k \in OptionalKinds => v.sum = Live(k).sum
    <3>1. base \in ChildObject
      BY <2>2, <2>3
    <3>2. /\ v \in ChildObject /\ v.owner = base.owner
          /\ v.label = IF k \in Mended THEN want.label ELSE base.label
          /\ k \in OptionalKinds => v.sum = base.sum
      BY <2>1, <3>1, MergedShape
    <3> QED BY <2>1, <2>2, <3>2
  <2>5. v # Live(k)
    BY <2>1, <2>2
  <2>6. Change(k, Live(k), v)
    BY <2>1, <2>3, <2>4 DEF Change, Proper
  <2>7. v # None
    BY <2>1, <2>4, NoneAssumption, LiveTypes, Parts DEF ObjectOf
  <2>8. Wakes(k, Live(k), v)
    BY <2>1, <2>4, <2>5, <2>6, <2>7, ChangeShows DEF HasLabel
  <2> QED BY <1>1, <1>2, <2>5, <2>6, <2>8, CallKeeps DEF Errors
<1>3. CASE UNCHANGED <<store, watch>> /\ \E e \in Errors : FailWith(e)
  BY <1>1, <1>3, FailureKeeps DEF At
<1> QED BY <1>1, <1>2, <1>3 DEF Update, Call, Errors

LEMMA PatchKeeps ==
    ASSUME WakeInv, EveryChangeShows, NEW s \in Steps, PatchChild(s)
    PROVE  Attentive'
<1>. PICK k, base, want, new, v : /\ k = req.kind /\ base = req.base.val
                                  /\ want = Desired(k, ph.val, hash) /\ new = Merged(k, base, want)
                                  /\ v = Patch(Live(k), base, new)
  OBVIOUS
<1>1. At(s) /\ req # None /\ req.verb = "patch" /\ UNCHANGED <<cache, queued>>
  BY DEF PatchChild, Call
<1>2. CASE Exists(k) /\ Put(k, v) /\ (StepDone(s) \/ FailWith("api"))
  <2>1. /\ k \in ChildKinds /\ k \notin PolicyKinds /\ k \in Scope \cup WorkloadKinds
        /\ want \in ChildObject /\ want.label = TRUE
        /\ Live(k) \in ChildObject \cup {None} /\ Proper(k, Live(k))
        /\ base \in ChildObject /\ new # base
        /\ Noticed \/ Silent(k, base, Live(k))
    BY <1>1, Sending
  <2>2. Live(k) \in ChildObject /\ Live(k) # None
    BY <1>2, <2>1 DEF Exists
  <2>3. /\ new \in ChildObject /\ new.owner = base.owner
        /\ new.label = IF k \in Mended THEN TRUE ELSE base.label
        /\ k \in OptionalKinds => new.sum = base.sum
    <3>1. /\ new \in ChildObject /\ new.owner = base.owner
          /\ new.label = IF k \in Mended THEN want.label ELSE base.label
          /\ k \in OptionalKinds => new.sum = base.sum
      BY <2>1, MergedShape
    <3> QED BY <2>1, <3>1
  <2>4. /\ v \in ChildObject
        /\ v.owner = Live(k).owner
        /\ v.val = IF new.val = base.val THEN Live(k).val ELSE new.val
        /\ v.label = IF new.label = base.label THEN Live(k).label ELSE new.label
        /\ v.sum = IF new.sum = base.sum THEN Live(k).sum ELSE new.sum
    <3>1. v \in ChildObject
      <4>1. PICK live \in ChildObject : live = Live(k)
        BY <2>2
      <4>2. Patch(live, base, new) \in ChildObject
        BY <2>1, <2>3, PatchType
      <4>3. v = Patch(live, base, new)
        BY <4>1
      <4> QED BY <4>2, <4>3
    <3>2. v = [Live(k) EXCEPT !.val   = IF new.val = base.val THEN Live(k).val ELSE new.val,
                              !.label = IF new.label = base.label THEN Live(k).label ELSE new.label,
                              !.sum   = IF new.sum = base.sum THEN Live(k).sum ELSE new.sum]
      BY DEF Patch
    <3> QED BY <2>2, <3>1, <3>2 DEF ChildObject
  <2>5. Change(k, Live(k), v)
    BY <2>1, <2>2, <2>3, <2>4 DEF Change, Proper
  <2>6. v # None
    BY <2>1, <2>4, NoneAssumption, LiveTypes, Parts DEF ObjectOf
  <2>7. Noticed \/ (v # Live(k) /\ Wakes(k, Live(k), v))
    <3> SUFFICES ASSUME Silent(k, base, Live(k)) PROVE v # Live(k) /\ Wakes(k, Live(k), v)
      BY <2>1
    <3>1. CASE base = Live(k)
      <4>1. v.owner = new.owner /\ v.val = new.val /\ v.label = new.label /\ v.sum = new.sum
        BY <2>3, <2>4, <3>1
      <4>2. v = new
        BY <2>3, <2>4, <4>1, SameFields
      <4> QED BY <2>1, <2>3, <2>5, <2>6, <3>1, <4>2, ChangeShows DEF HasLabel
    <3>2. CASE base # Live(k)
      <4>1. k \in Mended /\ ~base.label /\ ~Live(k).label
        BY <2>2, <3>2 DEF Silent
      <4>2. v.label = TRUE
        BY <2>3, <2>4, <4>1
      <4>3. v # Live(k) /\ HasLabel(v)
        BY <2>6, <4>1, <4>2 DEF HasLabel
      <4> QED BY <2>1, <2>5, <4>3, ChangeShows
    <3> QED BY <3>1, <3>2
  <2> QED BY <1>1, <1>2, <2>5, <2>7, CallKeeps DEF Errors
<1>3. CASE UNCHANGED <<store, watch>> /\ (FailWith("notfound") \/ FailWith("api"))
  BY <1>1, <1>3, FailureKeeps DEF Errors, At
<1> QED BY <1>1, <1>2, <1>3 DEF PatchChild, Call

LEMMA DeleteKeeps ==
    ASSUME WakeInv, EveryChangeShows, NEW s \in Steps, Delete(s)
    PROVE  Attentive'
<1>. PICK k : k = req.kind
  OBVIOUS
<1>1. At(s) /\ req # None /\ req.verb = "delete" /\ UNCHANGED <<cache, queued>>
  BY DEF Delete, Call
<1>2. Content(k, None, ph.val, hash)
  BY <1>1, Parts DEF PassFits, Content
<1>3. Change(k, Live(k), None)
  BY DEF Change, Proper
<1>4. CASE Put(k, None) /\ (StepDone(s) \/ FailWith("api"))
  BY <1>1, <1>2, <1>3, <1>4, CallKeeps DEF Errors
<1>5. CASE ~Exists(k) /\ UNCHANGED <<store, watch>> /\ StepDone(s)
  <2>1. Put(k, None)
    BY <1>5 DEF Put, Exists
  <2> QED BY <1>1, <1>2, <1>3, <1>5, <2>1, CallKeeps
<1>6. CASE UNCHANGED <<store, watch>> /\ (FailWith("notfound") \/ FailWith("api"))
  BY <1>1, <1>6, FailureKeeps DEF Errors, At
<1> QED BY <1>1, <1>4, <1>5, <1>6 DEF Delete, Call

\* A pass that ends without a word has left nothing, or comes again.
LEMMA StatusKnownKeeps ==
    ASSUME WakeInv, StatusKnown
    PROVE  Attentive'
<1>0. /\ Busy /\ (todo = {} \/ err # "none") /\ ph.val.status = Outcome
      /\ queued' = (queued \/ err # "none") /\ ph' = None /\ req' = None
      /\ UNCHANGED <<store, watch, cache>>
  BY DEF StatusKnown, Return, Finished
<1>1. /\ \A j \in Kinds : Calm(j)' /\ (Alarm(j, 0)' <=> Alarm(j, 0)) /\ Live(j)' = Live(j)
      /\ \A j \in ChildKinds : Proper(j, Live(j))'
      /\ \A p : LiveHash(p)' = LiveHash(p)
  BY <1>0, NothingSaid
<1>2. ~Busy'
  BY <1>0 DEF Busy
<1>3. NothingLeft'
  <2> SUFFICES ASSUME ~Noticed' PROVE NothingLeft'
    BY DEF NothingLeft
  <2>1. err = "none" /\ todo = {} /\ ~Noticed
    BY <1>0, <1>1 DEF Noticed
  <2>2. PICK p : p = ph.val
    OBVIOUS
  <2>3. /\ p = Live("Phare") /\ p.status = "Active" /\ Buildable(p)
        /\ \A s \in Scope \cup {"stale", "workload"} : ContentNow(Target(s), p)
    BY <1>0, <2>1, <2>2, Parts DEF PassLeavesNothing, Outcome, BuiltFits
  <2>4. ASSUME NEW k \in Scope \cup WorkloadKinds PROVE ContentNow(k, p)
    <3>1. \E s \in Scope \cup {"stale", "workload"} : k = Target(s)
      BY <1>0, Parts, Targets, ScopeAssumption DEF OtherWorkload, WorkloadKinds
    <3> QED BY <2>3, <3>1
  <2>5. Live("Phare")' = p
    BY <1>0, <2>3 DEF Live
  <2>6. ASSUME NEW k \in Scope \cup WorkloadKinds PROVE ContentNow(k, p)'
    BY <1>0, <2>4 DEF ContentNow, Live, LiveHash, Exists
  <2> QED BY <2>3, <2>5, <2>6 DEF NothingLeft, Buildable, ContentNow, Live, LiveHash, Exists
<1> QED BY <1>0, <1>1, <1>2, <1>3 DEF Attentive, RequestFits, PassLeavesNothing

\* A pass that ends with a new status hears of it, or comes again.
LEMMA WriteStatusKeeps ==
    ASSUME WakeInv, WriteStatus
    PROVE  Attentive'
<1>0. Busy /\ ph.val.status # Outcome /\ ph' = None /\ req' = None /\ UNCHANGED cache
  BY DEF WriteStatus, Return, Finished
<1>1. "Phare" \in Kinds /\ \A j \in ChildKinds : j \in Kinds /\ j # "Phare"
  BY Parts, LiveTypes
<1>2. /\ \A j \in Kinds : Calm(j)'
      /\ \A j \in ChildKinds : Proper(j, Live(j)')
      /\ Noticed'
  <2>1. CASE StatusAccepted /\ Put("Phare", [Live("Phare") EXCEPT !.status = Outcome])
    <3>1. PICK v : v = [Live("Phare") EXCEPT !.status = Outcome] /\ Put("Phare", v)
      BY <2>1
    <3>2. ph.val = Live("Phare") /\ Live("Phare") \in PhareObject
      BY <1>0, <2>1, Parts, LiveTypes DEF SnapshotsSound, Sound, StatusAccepted, Exists, Live
    <3>3. v.status = Outcome /\ v # Live("Phare")
      BY <1>0, <3>1, <3>2 DEF PhareObject
    <3>4. Wakes("Phare", Live("Phare"), v)
      BY DEF Wakes
    <3>5. /\ \A j \in Kinds : Calm(j)'
          /\ Alarm("Phare", 0)'
          /\ \A j \in Kinds \ {"Phare"} : Live(j)' = Live(j)
      BY <1>0, <1>1, <3>1, <3>3, <3>4, Parts, PutCalm
    <3> QED BY <1>1, <3>5, Parts DEF Noticed
  <2>2. CASE UNCHANGED <<store, watch>> /\ Return(TRUE)
    BY <1>0, <2>2, NothingSaid DEF Return, Noticed, Proper, Live
  <2> QED BY <2>1, <2>2 DEF WriteStatus
<1> QED BY <1>0, <1>2 DEF Attentive, RequestFits, PassLeavesNothing, NothingLeft, Busy, Proper, Live

\* A start of the operator hears of a Phare that is there.
LEMMA CrashKeeps ==
    ASSUME WakeInv, Crash
    PROVE  Attentive'
<1>0. /\ cache' = store /\ watch' = [k \in Kinds |-> <<>>] /\ store' = store
      /\ ph' = None /\ req' = None
      /\ queued' = \E k \in Kinds : Exists(k) /\ Wakes(k, None, Live(k))
  BY DEF Crash, Relist
<1>1. "Phare" \in Kinds /\ \A j \in Kinds : Live(j)' = Live(j)
  BY <1>0, Parts, LiveTypes DEF Live
<1>2. ASSUME NEW j \in Kinds PROVE Calm(j)'
  <2>1. Len(watch'[j]) = 0
    BY <1>0
  <2>2. Said(j, 0)' = Live(j)'
    BY <1>0 DEF Said, Live
  <2> QED BY <2>1, <2>2 DEF Calm, Silent
<1>3. Exists("Phare")' => Noticed'
  BY <1>0, <1>1 DEF Exists, Wakes, Noticed
<1>4. \A j \in ChildKinds : Proper(j, Live(j)')
  BY <1>1, Parts, LiveTypes
<1> QED BY <1>0, <1>2, <1>3, <1>4 DEF Attentive, RequestFits, PassLeavesNothing, NothingLeft, Busy, Proper, Live

-----------------------------------------------------------------------------
(* The invariant *)

LEMMA InitWake == Init => WakeInv
<1> SUFFICES ASSUME Init PROVE WakeInv
  OBVIOUS
<1>1. RefinementInv
  BY InitSafety, InitRefines DEF RefinementInv
<1>2. \A k \in Kinds : store[k] = Missing /\ cache[k] = Missing /\ Len(watch[k]) = 0
  BY DEF Init, ClusterInit
<1>3. ~Busy /\ req = None
  BY DEF Init, Busy
<1>4. \A k \in Kinds : Calm(k) /\ Live(k) = None
  BY <1>2 DEF Calm, Said, Silent, Live, Missing
<1>5. "Phare" \in Kinds /\ ChildKinds \subseteq Kinds
  BY DEF Kinds
<1> QED BY <1>1, <1>3, <1>4, <1>5
        DEF WakeInv, BuiltFits, Attentive, Proper, RequestFits, PassLeavesNothing, NothingLeft, Exists

LEMMA StepBuilds ==
    ASSUME WakeInv, [Next]_vars
    PROVE  BuiltFits'
<1>1. CASE Fetch
  BY <1>1 DEF Fetch, BuiltFits, Busy
<1>2. CASE Build
  BY <1>2, Parts DEF Build, BuiltFits, Busy, Buildable, FailWith
<1>3. CASE \E s \in Steps : Get(s) \/ GetFails(s) \/ Create(s) \/ Update(s) \/ PatchChild(s) \/ Delete(s)
  <2>1. PICK s \in Steps : Get(s) \/ GetFails(s) \/ Create(s) \/ Update(s) \/ PatchChild(s) \/ Delete(s)
    BY <1>3
  <2>2. s # "build"
    <3>1. CASE Get(s)
      BY <3>1 DEF Get
    <3>2. CASE GetFails(s)
      BY <3>2 DEF GetFails, PolicyKinds
    <3>3. CASE Create(s) \/ Update(s) \/ PatchChild(s) \/ Delete(s)
      BY <3>3, Parts DEF Create, Update, PatchChild, Delete, Call, PassFits
    <3> QED BY <2>1, <3>1, <3>2, <3>3
  <2>3. ph' = ph /\ ("build" \notin todo' => "build" \notin todo)
    BY <2>1, <2>2 DEF Get, GetFails, Create, Update, PatchChild, Delete, Call, StepDone, FailWith
  <2> QED BY <2>3, Parts DEF BuiltFits, Busy, Buildable
<1>4. CASE StatusKnown \/ WriteStatus \/ Crash
  BY <1>4 DEF StatusKnown, WriteStatus, Return, Crash, BuiltFits, Busy
<1>5. CASE UNCHANGED ctlVars
  BY <1>5, Parts DEF ctlVars, BuiltFits, Busy, Buildable
<1> QED BY <1>1, <1>2, <1>3, <1>4, <1>5 DEF Next, Worker, vars

LEMMA StepWake ==
    ASSUME WakeInv, EveryChangeShows, [Next]_vars
    PROVE  WakeInv'
<1>1. RefinementInv'
  BY StepRefines DEF WakeInv
<1>2. BuiltFits'
  BY StepBuilds
<1>3. CASE Worker
  <2>1. ASSUME NEW s \in Steps, GetFails(s) PROVE Attentive'
    <3>1. Busy
      BY <2>1 DEF GetFails, At
    <3> QED BY <2>1, <3>1, FailureKeeps DEF GetFails, Errors
  <2>2. Attentive'
    BY <1>3, <2>1, FetchKeeps, BuildKeeps, StatusKnownKeeps, WriteStatusKeeps, GetKeeps,
       CreateKeeps, UpdateKeeps, PatchKeeps, DeleteKeeps DEF Worker
  <2> QED BY <1>1, <1>2, <2>2 DEF WakeInv
<1>4. CASE Crash
  BY <1>1, <1>2, <1>4, CrashKeeps DEF WakeInv
<1>5. CASE Environment /\ UNCHANGED ctlVars
  BY <1>1, <1>2, <1>5, EnvironmentKeeps DEF WakeInv
<1>6. CASE UNCHANGED vars
  BY <1>1, <1>2, <1>6, IdleKeeps DEF WakeInv, vars, clusterVars
<1> QED BY <1>3, <1>4, <1>5, <1>6 DEF Next

-----------------------------------------------------------------------------
(* No wakeup is lost *)

\* In a quiet state whatever anybody wrote has been heard.
LEMMA QuietIsUnnoticed ==
    ASSUME WakeInv, Quiet
    PROVE  ~Busy /\ ~Noticed
<1>1. \A k \in Kinds : Len(watch[k]) = 0
  BY DEF Quiet, Drained
<1>2. \A k \in Kinds : ~Alarm(k, 0)
  BY <1>1 DEF Alarm
<1> QED BY <1>2 DEF Quiet, Noticed

LEMMA QuietIsConverged ==
    ASSUME WakeInv, Quiet
    PROVE  Converged
<1>1. ~Busy /\ ~Noticed
  BY QuietIsUnnoticed
<1>2. ASSUME NEW k \in ChildKinds, Exists(k)
      PROVE  /\ Live(k) \in ChildObject /\ k \in Scope \cup WorkloadKinds
             /\ Live(k).owner = LivePhareUid /\ Live(k).owner # Foreign
             /\ k \in OptionalKinds => Live(k).sum = None
  BY <1>2, Parts, LiveTypes DEF Exists, Proper, Quiet, Orphaned
<1>3. CASE ~Exists("Phare")
  BY <1>2, <1>3 DEF Converged, NotOurs, LivePhareUid
<1>4. CASE Exists("Phare")
  <2>1. PICK p : p = Live("Phare")
    OBVIOUS
  <2>2. p \in PhareObject /\ p.spec \in Specs /\ p.spec.kind \in WorkloadKinds /\ LivePhareUid = p.uid
    BY <1>4, <2>1, Parts, LiveTypes, SpecsAssumption DEF Exists, PhareObject, SpecType, LivePhareUid
  <2>3. /\ p.status = "Active" /\ Buildable(p)
        /\ \A k \in Scope \cup WorkloadKinds : ContentNow(k, p)
    BY <1>1, <1>4, <2>1, Parts DEF NothingLeft
  <2>4. ASSUME NEW k \in ChildKinds, ~Wanted(k, p.spec)
        PROVE  ~Exists(k)
    <3> SUFFICES ASSUME Exists(k) PROVE FALSE
      OBVIOUS
    <3>1. k \in Scope \cup WorkloadKinds /\ Live(k).owner = p.uid
      BY <1>2, <2>2
    <3> QED BY <2>3, <2>4, <3>1 DEF ContentNow, Content, MayDelete, Exists
  <2>5. ASSUME NEW k \in ChildKinds, Wanted(k, p.spec)
        PROVE  AsDesired(k, p)
    <3>1. k \in Scope \cup WorkloadKinds
      BY <2>2, <2>5, ScopeAssumption DEF Wanted, ChildKinds
    <3>2. PICK h, want, c : h = LiveHash(p) /\ want = Desired(k, p, h) /\ c = Live(k)
      OBVIOUS
    <3>3. Exists(k) /\ Merged(k, c, want) = c
      BY <2>3, <2>5, <3>1, <3>2 DEF ContentNow, Content, Exists
    <3>4. c \in ChildObject /\ (k \in OptionalKinds => c.sum = None)
      BY <1>2, <3>2, <3>3
    <3>5. h \in Contents \cup {None}
      BY <1>2, <3>2 DEF LiveHash, ChildObject, ChildKinds, OptionalKinds
    <3>6. want \in ChildObject
      BY <2>2, <2>5, <3>2, <3>5, DesiredType
    <3>7. c.val = want.val
      <4>1. Merged(k, c, want).val = want.val
        BY <2>5, <3>4, <3>6, MergedFields, Zenon
      <4> QED BY <3>3, <4>1
    <3>8. k \in WorkloadKinds => c.sum = want.sum
      <4> SUFFICES ASSUME k \in WorkloadKinds PROVE c.sum = want.sum
        OBVIOUS
      <4>1. c = [c EXCEPT !.val = want.val, !.sum = want.sum]
        BY <3>3 DEF Merged, PolicyKinds, WorkloadKinds
      <4> QED BY <3>4, <4>1 DEF ChildObject
    <3> QED BY <3>2, <3>3, <3>4, <3>7, <3>8 DEF AsDesired, Asked, Desired, ChildKinds, Exists
  <2>6. \A k : AsksFor(p.spec, k) <=> Wanted(k, p.spec)
    BY DEF AsksFor, Wanted
  <2>7. /\ OtherWorkload(p.spec.kind) \in ChildKinds /\ ~Wanted(OtherWorkload(p.spec.kind), p.spec)
        /\ p.spec.kind \in ChildKinds /\ Wanted(p.spec.kind, p.spec)
        /\ OptionalKinds \subseteq ChildKinds
    BY <2>2 DEF OtherWorkload, WorkloadKinds, ChildKinds, Wanted
  <2>8. ConvergedTo(p)
    BY <2>3, <2>4, <2>5, <2>6, <2>7 DEF ConvergedTo, NotOurs
  <2> QED BY <1>4, <2>1, <2>8 DEF Converged
<1> QED BY <1>3, <1>4

\* No wakeup is lost: whenever the operator is idle and has nothing more to hear, every
\* child and the status are as the live Phare asks (and without a Phare there are no
\* children), whatever the order of events, stale reads, blind patches, lost answers,
\* failed calls and restarts.  In every instance without the changes that the predicates
\* of SetupWithManager drop for good; the run service_relabelled shows one of those.
THEOREM NoWakeupIsLost ==
    ASSUME EveryChangeShows
    PROVE  Spec => []NoLostWakeup
<1>1. Init => WakeInv
  BY InitWake
<1>2. WakeInv /\ [Next]_vars => WakeInv'
  BY StepWake
<1>3. WakeInv => NoLostWakeup
  BY QuietIsConverged DEF NoLostWakeup
<1> QED BY <1>1, <1>2, <1>3, PTL DEF Spec
=============================================================================
