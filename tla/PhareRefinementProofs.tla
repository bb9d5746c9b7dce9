----------------------- MODULE PhareRefinementProofs ------------------------
(***************************************************************************)
(* The reconciler implements the level-triggered controller, for all       *)
(* specifications, values, scopes and bounds: every step of it, seen       *)
(* through the mapping LT, is a step of LevelTriggered or none at all.     *)
(***************************************************************************)
EXTENDS PhareReconcilerProofs

\* The live Phare is the last that the operator will hear of.
HeardLast == store["Phare"] = Heard[Len(Heard)]

\* The checksums that a pass for this specification may put on the pods.
Checksum(spec) == IF HasConfig(spec) THEN Contents ELSE {None}

\* A workload is only written after its checksum has been read, and only children
\* that are not asked for are deleted.
PassFits ==
    /\ Busy /\ "build" \notin todo => hash \in Checksum(ph.val.spec)
    /\ req # None => /\ ~At("build")
                     /\ req.kind \in WorkloadKinds /\ req.verb # "delete" => "build" \notin todo
                     /\ req.verb = "delete" => ~Wanted(req.kind, ph.val.spec)

RefinementInv == SafetyInv /\ HeardLast /\ PassFits

-----------------------------------------------------------------------------
(* The sequence of what is heard *)

\* A sequence with one more in front of it, and what is done to it.
LEMMA Fronted ==
    ASSUME NEW S, NEW c \in S, NEW w \in Seq(S)
    PROVE  LET h == <<c>> \o w
           IN  /\ h \in Seq(S) /\ Len(h) = Len(w) + 1
               /\ Head(h) = c
               /\ h[Len(h)] = IF w = <<>> THEN c ELSE w[Len(w)]
               /\ w # <<>> => Tail(h) = <<Head(w)>> \o Tail(w)
               /\ \A x \in S : <<c>> \o Append(w, x) = Append(h, x)
OBVIOUS

\* The operators of PhareObjects mean the same in LevelTriggered.
LEMMA SameObjects ==
    /\ LT!ChildKinds = ChildKinds
    /\ LT!Foreign = Foreign /\ LT!Statuses = Statuses
    /\ \A k, spec : LT!Wanted(k, spec) <=> Wanted(k, spec)
    /\ \A k, p, h : LT!Desired(k, p, h) = Desired(k, p, h)
BY DEF LT!ChildKinds, LT!OptionalKinds, LT!WorkloadKinds, ChildKinds, OptionalKinds, WorkloadKinds,
       LT!Foreign, Foreign, LT!Statuses, Statuses, LT!Errors, Errors,
       LT!Wanted, Wanted, LT!Desired, Desired, LT!BuiltLabel, BuiltLabel

-----------------------------------------------------------------------------
(* The mapping under a write *)

\* The types of the mapped variables.
LEMMA BarTypes ==
    ASSUME TypeOK
    PROVE  /\ cache["Phare"] \in Snapshot("Phare") /\ store["Phare"] \in Snapshot("Phare")
           /\ watch["Phare"] \in Seq(Snapshot("Phare"))
           /\ DOMAIN store = Kinds /\ DOMAIN watch = Kinds /\ DOMAIN cache = Kinds
           /\ "Phare" \in Kinds /\ "Phare" \notin ChildKinds /\ ChildKinds \subseteq Kinds
BY DEF TypeOK, ClusterTypeOK, Kinds, ChildKinds, OptionalKinds, WorkloadKinds

\* Only others use up their bound.
LEMMA Spared ==
    ASSUME TypeOK,
           \/ UNCHANGED budget
           \/ \E what \in {"edits", "deletes", "faults", "crashes"} : Spend(what)
    PROVE  budget'.meddling = budget.meddling
<1>1. budget \in Budgets
  BY DEF TypeOK, ClusterTypeOK
<1> QED BY <1>1 DEF Spend, Budgets

LEMMA PutChild ==
    ASSUME TypeOK, NEW k \in ChildKinds, NEW v, Put(k, v), UNCHANGED cache
    PROVE  /\ Children' = [Children EXCEPT ![k] = v]
           /\ Heard' = Heard /\ store'["Phare"] = store["Phare"]
<1>1. k # "Phare" /\ k \in Kinds /\ DOMAIN store = Kinds /\ DOMAIN watch = Kinds /\ "Phare" \in Kinds
  BY BarTypes
<1>2. CASE v = Live(k)
  BY <1>2 DEF Put, Children, Heard, Live
<1>3. CASE v # Live(k)
  <2>1. /\ store' = [store EXCEPT ![k] = [rv |-> store[k].rv + 1, val |-> v]]
        /\ watch'["Phare"] = watch["Phare"]
    BY <1>1, <1>3 DEF Put
  <2>2. \A j \in ChildKinds : store'[j].val = IF j = k THEN v ELSE store[j].val
    BY <1>1, <2>1, BarTypes
  <2> QED
    BY <1>1, <2>1, <2>2 DEF Children, Heard, Live
<1> QED
  BY <1>2, <1>3

LEMMA PutPhare ==
    ASSUME TypeOK, HeardLast, NEW v \in PhareObject \cup {None}, Put("Phare", v), UNCHANGED cache
    PROVE  /\ Children' = Children
           /\ HeardLast'
           /\ \/ Heard' = Heard
              \/ Heard' = Append(Heard, [rv |-> store["Phare"].rv + 1, val |-> v])
<1>1. CASE v = Live("Phare")
  BY <1>1 DEF Put, Children, Heard, HeardLast, Live
<1>2. CASE v # Live("Phare")
  <2> DEFINE new == [rv |-> store["Phare"].rv + 1, val |-> v]
  <2>1. /\ store' = [store EXCEPT !["Phare"] = new]
        /\ watch' = [watch EXCEPT !["Phare"] = Append(@, new)]
    BY <1>2 DEF Put
  <2>2. store'["Phare"] = new /\ watch'["Phare"] = Append(watch["Phare"], new)
    BY <2>1, BarTypes
  <2>3. \A j \in ChildKinds : store'[j] = store[j]
    BY <2>1, BarTypes
  <2>4. new \in Snapshot("Phare")
    BY BarTypes DEF Snapshot, ObjectOf
  <2> HIDE DEF new
  <2>5. Heard' = Append(Heard, new)
    BY <2>2, <2>4, BarTypes, Fronted DEF Heard
  <2>6. Heard \in Seq(Snapshot("Phare"))
    BY BarTypes, Fronted DEF Heard
  <2>7. Heard'[Len(Heard')] = new
    BY <2>4, <2>5, <2>6
  <2> QED
    BY <2>2, <2>3, <2>5, <2>7 DEF Children, HeardLast, Live, new
<1> QED
  BY <1>1, <1>2

\* A merge leaves the owner alone and takes every other field from one side.
LEMMA MergedFields ==
    ASSUME NEW k \in ChildKinds, NEW child \in ChildObject, NEW want \in ChildObject
    PROVE  LET m == Merged(k, child, want)
           IN  /\ m.owner = child.owner
               /\ m.val = want.val
               /\ m.label \in {child.label, want.label} \cup (IF k \in PolicyKinds THEN {FALSE} ELSE {})
               /\ m.sum \in {child.sum, want.sum}
<1>1. CASE k = "ConfigMap"
  BY <1>1 DEF Merged, ChildObject
<1>2. CASE k \in {"Service", "HTTPRoute"}
  BY <1>2 DEF Merged, ChildObject, PolicyKinds, WorkloadKinds
<1>3. CASE k \in PolicyKinds
  BY <1>3 DEF Merged, ChildObject, PolicyKinds, WorkloadKinds
<1>4. CASE k \in WorkloadKinds
  BY <1>4 DEF Merged, ChildObject, PolicyKinds, WorkloadKinds
<1> QED
  BY <1>1, <1>2, <1>3, <1>4 DEF ChildKinds, OptionalKinds, PolicyKinds

\* A child that has each of its fields from one side, and the owner of the old one.
LEMMA BetweenFields ==
    ASSUME NEW k \in ChildKinds, NEW c \in ChildObject, NEW want \in ChildObject,
           NEW m \in ChildObject,
           m.owner = c.owner,
           m.val \in {c.val, want.val},
           m.label \in {c.label, want.label} \cup (IF k \in PolicyKinds THEN {FALSE} ELSE {}),
           m.sum \in {c.sum, want.sum}
    PROVE  m \in LT!Between(k, c, want)
<1>1. LT!PolicyKinds = PolicyKinds
  BY DEF PolicyKinds, LT!PolicyKinds
<1>2. m = [owner |-> m.owner, val |-> m.val, label |-> m.label, sum |-> m.sum]
  BY DEF ChildObject
<1>3. PICK O, V, L, S :
        /\ O = {c.owner} /\ V = {c.val, want.val} /\ S = {c.sum, want.sum}
        /\ L = {c.label, want.label} \cup (IF k \in PolicyKinds THEN {FALSE} ELSE {})
  OBVIOUS
<1>4. LT!Between(k, c, want) = [owner : O, val : V, label : L, sum : S]
  BY <1>1, <1>3, Zenon DEF LT!Between
<1>5. m.owner \in O /\ m.val \in V /\ m.label \in L /\ m.sum \in S
  BY <1>3
<1> QED
  BY <1>2, <1>4, <1>5

\* What a write may leave of an existing child: every field is as it was or as wanted.
LEMMA MergeIsBetween ==
    ASSUME NEW k \in ChildKinds, NEW live \in ChildObject, NEW want \in ChildObject
    PROVE  Merged(k, live, want) \in LT!Between(k, live, want)
<1>1. PICK m : m = Merged(k, live, want)
  OBVIOUS
<1>2. /\ m.owner = live.owner /\ m.val \in {live.val, want.val}
      /\ m.label \in {live.label, want.label} \cup (IF k \in PolicyKinds THEN {FALSE} ELSE {})
      /\ m.sum \in {live.sum, want.sum}
  BY <1>1, MergedFields
<1>3. m \in ChildObject
  BY <1>1, MergedType
<1> QED BY <1>1, <1>2, <1>3, BetweenFields, Zenon

LEMMA PatchIsBetween ==
    ASSUME NEW k \in ChildKinds, NEW live \in ChildObject, NEW base \in ChildObject,
           NEW want \in ChildObject
    PROVE  Patch(live, base, Merged(k, base, want)) \in LT!Between(k, live, want)
<1> DEFINE m == Merged(k, base, want)
           p == Patch(live, base, m)
<1>1. /\ m \in ChildObject
      /\ m.val = want.val
      /\ m.label \in {base.label, want.label} \cup (IF k \in PolicyKinds THEN {FALSE} ELSE {})
      /\ m.sum \in {base.sum, want.sum}
  BY MergedType, MergedFields
<1> HIDE DEF m
<1>2. p \in ChildObject
  BY <1>1, PatchType
<1>3. /\ p.owner = live.owner
      /\ p.val = IF m.val = base.val THEN live.val ELSE m.val
      /\ p.label = IF m.label = base.label THEN live.label ELSE m.label
      /\ p.sum = IF m.sum = base.sum THEN live.sum ELSE m.sum
  BY DEF Patch, ChildObject
<1> HIDE DEF p
<1>4. p \in LT!Between(k, live, want)
  BY <1>1, <1>2, <1>3, BetweenFields
<1> QED
  BY <1>4 DEF m, p

-----------------------------------------------------------------------------
(* The environment *)

\* The live Phare, seen from the abstract side.
LEMMA LivePhare == RefinementInv => LT!Phare = store["Phare"]
BY DEF RefinementInv, HeardLast, LT!Phare

LEMMA AskRefines ==
    ASSUME RefinementInv, CreatePhare \/ EditPhare \/ DeletePhare, UNCHANGED ctlVars
    PROVE  HeardLast' /\ [LT!Next]_LT!vars
<1>1. /\ TypeOK /\ HeardLast /\ UNCHANGED cache /\ ph' = ph
      /\ LT!Phare = store["Phare"] /\ Live("Phare") = store["Phare"].val
  BY LivePhare DEF RefinementInv, SafetyInv, TypeInv, CreatePhare, EditPhare, DeletePhare, ctlVars, Live
<1>0. budget'.meddling = budget.meddling
  BY <1>1, Spared DEF CreatePhare, EditPhare, DeletePhare
<1>2. store["Phare"].rv \in Nat /\ (Exists("Phare") => Live("Phare") \in PhareObject)
  BY <1>1, BarTypes DEF Snapshot, ObjectOf, Exists, Live
<1>3. ASSUME NEW v \in PhareObject \cup {None}, Put("Phare", v),
             (Children' = Children /\ LT!Becomes(v)) => LT!Ask
      PROVE  HeardLast' /\ [LT!Next]_LT!vars
  <2>1. /\ Children' = Children /\ HeardLast'
        /\ \/ Heard' = Heard
           \/ Heard' = Append(Heard, [rv |-> store["Phare"].rv + 1, val |-> v])
    BY <1>1, <1>3, PutPhare
  <2>2. CASE Heard' = Heard
    BY <1>0, <1>1, <2>1, <2>2 DEF LT!vars
  <2>3. CASE Heard' = Append(Heard, [rv |-> store["Phare"].rv + 1, val |-> v])
    BY <1>1, <1>3, <2>1, <2>3 DEF LT!Becomes, LT!Next
  <2> QED
    BY <2>1, <2>2, <2>3
<1>4. CASE CreatePhare
  <2> DEFINE new(s) == [uid |-> store["Phare"].rv + 1, spec |-> s, status |-> ""]
  <2>1. PICK s \in Specs : Put("Phare", new(s))
    BY <1>4 DEF CreatePhare
  <2>2. new(s) \in PhareObject
    <3>1. store["Phare"].rv + 1 \in Nat \ {Foreign} /\ "" \in Statuses
      BY <1>2 DEF Foreign, Statuses
    <3> QED
      BY <3>1 DEF PhareObject
  <2>3. (Children' = Children /\ LT!Becomes(new(s))) => LT!Ask
    BY <1>0, <1>1, <1>4 DEF LT!Ask, CreatePhare, Exists
  <2> HIDE DEF new
  <2> QED
    BY <1>3, <2>1, <2>2, <2>3
<1>5. CASE EditPhare
  <2> DEFINE new(s) == [Live("Phare") EXCEPT !.spec = s]
  <2>1. PICK s \in Specs : Put("Phare", new(s))
    BY <1>5 DEF EditPhare
  <2>2. new(s) \in PhareObject
    BY <1>2, <1>5 DEF EditPhare, PhareObject
  <2>3. (Children' = Children /\ LT!Becomes(new(s))) => LT!Ask
    BY <1>0, <1>1, <1>5 DEF LT!Ask, EditPhare, Exists
  <2> HIDE DEF new
  <2> QED
    BY <1>3, <2>1, <2>2, <2>3
<1>6. CASE DeletePhare
  <2>1. Put("Phare", None)
    BY <1>6 DEF DeletePhare
  <2>2. (Children' = Children /\ LT!Becomes(None)) => LT!Ask
    BY <1>0, <1>1, <1>6 DEF LT!Ask, DeletePhare, Exists
  <2> QED
    BY <1>3, <2>1, <2>2
<1> QED
  BY <1>4, <1>5, <1>6

LEMMA DeliverRefines ==
    ASSUME RefinementInv, NEW k \in Kinds, Deliver(k), UNCHANGED ctlVars
    PROVE  HeardLast' /\ [LT!Next]_LT!vars
<1>1. TypeOK /\ HeardLast /\ ph' = ph /\ UNCHANGED <<store, budget>>
  BY DEF RefinementInv, SafetyInv, TypeInv, Deliver, ctlVars
<1>2. Children' = Children
  BY <1>1 DEF Children, Live
<1>3. /\ watch[k] # <<>>
      /\ cache' = [cache EXCEPT ![k] = Head(watch[k])]
      /\ watch' = [watch EXCEPT ![k] = Tail(watch[k])]
  BY DEF Deliver
<1>4. CASE k # "Phare"
  <2>1. cache'["Phare"] = cache["Phare"] /\ watch'["Phare"] = watch["Phare"]
    BY <1>1, <1>3, <1>4, BarTypes
  <2>2. Heard' = Heard
    BY <2>1 DEF Heard
  <2> QED
    BY <1>1, <1>2, <2>2 DEF HeardLast, LT!vars
<1>5. CASE k = "Phare"
  <2>1. cache'["Phare"] = Head(watch["Phare"]) /\ watch'["Phare"] = Tail(watch["Phare"])
    BY <1>1, <1>3, <1>5, BarTypes
  <2>2. Heard' = Tail(Heard)
    <3>1. Tail(Heard) = <<Head(watch["Phare"])>> \o Tail(watch["Phare"])
      BY <1>1, <1>3, <1>5, BarTypes, Fronted DEF Heard
    <3> QED
      BY <2>1, <3>1 DEF Heard
  <2>3. Heard \in Seq(Snapshot("Phare")) /\ Len(Heard) = Len(watch["Phare"]) + 1
    BY <1>1, BarTypes, Fronted DEF Heard
  <2>4. Len(watch["Phare"]) \in Nat \ {0}
    BY <1>1, <1>3, <1>5, BarTypes
  <2>5. Heard'[Len(Heard')] = Heard[Len(Heard)]
    BY <2>2, <2>3, <2>4
  <2>6. LT!Hear
    BY <1>1, <1>2, <2>2, <2>3, <2>4 DEF LT!Hear
  <2> QED
    BY <1>1, <2>5, <2>6 DEF HeardLast, LT!Next
<1> QED
  BY <1>4, <1>5

\* Garbage collection and meddling are one write of a child.
LEMMA OthersRefine ==
    ASSUME RefinementInv, NEW k \in ChildKinds, UNCHANGED ctlVars,
           \/ CollectGarbage(k)
           \/ \E verb \in {"edit", "unlabel", "delete", "plant"} : Meddle(verb, k)
    PROVE  HeardLast' /\ [LT!Next]_LT!vars
<1>1. /\ TypeOK /\ HeardLast /\ UNCHANGED cache /\ ph' = ph
      /\ LT!Phare = store["Phare"]
      /\ LT!ChildKinds = ChildKinds /\ LT!Foreign = Foreign
  BY LivePhare, SameObjects DEF RefinementInv, SafetyInv, TypeInv, CollectGarbage, Meddle, ctlVars
<1>2. Children[k] = Live(k) /\ (Live(k) # None => Live(k) \in ChildObject)
  <2>1. k \in Kinds /\ ObjectOf(k) = ChildObject
    BY DEF Kinds, ObjectOf, ChildKinds, OptionalKinds, WorkloadKinds
  <2> QED
    BY <1>1, <2>1 DEF Children, Live, TypeOK, ClusterTypeOK, Snapshot
<1>3. ASSUME NEW v, Put(k, v) PROVE HeardLast' /\ Heard' = Heard /\ Children' = [Children EXCEPT ![k] = v]
  BY <1>1, <1>3, PutChild DEF HeardLast
<1>4. CASE CollectGarbage(k)
  <2>1. Put(k, None) /\ UNCHANGED budget
    BY <1>4 DEF CollectGarbage
  <2>2. LT!Collect(k)
    BY <1>1, <1>2, <1>3, <1>4, <2>1 DEF LT!Collect, CollectGarbage, Orphaned, LivePhareUid, Exists, Live
  <2> QED
    BY <1>1, <1>3, <2>1, <2>2 DEF LT!Next
<1>5. ASSUME NEW verb \in {"edit", "unlabel", "delete", "plant"}, Meddle(verb, k)
      PROVE  HeardLast' /\ [LT!Next]_LT!vars
  <2> DEFINE new(v) == CASE verb = "edit"    -> [Live(k) EXCEPT !.val = v]
                         [] verb = "unlabel" -> [Live(k) EXCEPT !.label = FALSE]
                         [] verb = "delete"  -> None
                         [] verb = "plant"   -> [owner |-> Foreign, val |-> v, label |-> FALSE, sum |-> None]
             old == Children[k]
             made(v) == CASE verb = "edit"    -> [old EXCEPT !.val = v]
                          [] verb = "unlabel" -> [old EXCEPT !.label = FALSE]
                          [] verb = "delete"  -> None
                          [] verb = "plant"   -> [owner |-> LT!Foreign, val |-> v, label |-> FALSE, sum |-> None]
  <2>1. PICK v \in Values : Put(k, new(v))
    BY <1>5 DEF Meddle
  <2>2. <<verb, k>> \in Meddling /\ (Exists(k) <=> verb # "plant")
    BY <1>5 DEF Meddle
  <2>3. budget.meddling > 0 /\ budget'.meddling = budget.meddling - 1
    <3>1. budget \in Budgets
      BY <1>1 DEF TypeOK, ClusterTypeOK
    <3> QED
      BY <1>5, <3>1 DEF Meddle, Spend, Budgets
  <2>4. new(v) = made(v)
    BY <1>1, <1>2
  <2>5. Children' = [Children EXCEPT ![k] = made(v)]
    <3> HIDE DEF new, made
    <3> QED BY <1>3, <2>1, <2>4
  <2>6. LT!Meddle(verb, k)
    BY <1>1, <1>2, <1>3, <2>1, <2>2, <2>3, <2>5 DEF LT!Meddle, Exists
  <2> HIDE DEF new, made
  <2> QED
    BY <1>1, <1>3, <2>1, <2>6 DEF LT!Next
<1> QED
  BY <1>4, <1>5

LEMMA EnvironmentRefines ==
    ASSUME RefinementInv, Environment, UNCHANGED ctlVars
    PROVE  HeardLast' /\ [LT!Next]_LT!vars
<1>1. CASE CreatePhare \/ EditPhare \/ DeletePhare
  BY <1>1, AskRefines
<1>2. CASE Resync
  BY <1>2 DEF Resync, RefinementInv, HeardLast, Heard, Children, Live, LT!vars, ctlVars
<1>3. ASSUME NEW k \in Kinds, Deliver(k) PROVE HeardLast' /\ [LT!Next]_LT!vars
  BY <1>3, DeliverRefines
<1>4. ASSUME NEW k \in ChildKinds,
             \/ CollectGarbage(k)
             \/ \E verb \in {"edit", "unlabel", "delete", "plant"} : Meddle(verb, k)
      PROVE  HeardLast' /\ [LT!Next]_LT!vars
  BY <1>4, OthersRefine
<1> QED
  BY <1>1, <1>2, <1>3, <1>4 DEF Environment

-----------------------------------------------------------------------------
(* The worker *)

\* A step of the worker that leaves the cluster and the cache as they are.
LEMMA NothingWritten ==
    ASSUME RefinementInv, UNCHANGED <<store, watch, cache>>
    PROVE  HeardLast' /\ Heard' = Heard /\ Children' = Children
BY DEF RefinementInv, HeardLast, Heard, Children, Live

LEMMA FetchRefines ==
    ASSUME RefinementInv, Fetch
    PROVE  HeardLast' /\ PassFits' /\ [LT!Next]_LT!vars
<1>1. HeardLast' /\ Heard' = Heard /\ Children' = Children /\ UNCHANGED budget
  BY NothingWritten DEF Fetch
<1>2. TypeOK /\ ph = None /\ req = None /\ req' = None
  BY DEF RefinementInv, SafetyInv, TypeInv, RequestSound, Fetch, Busy
<1>3. CASE cache["Phare"].val = None
  BY <1>1, <1>2, <1>3 DEF Fetch, Busy, PassFits, LT!vars
<1>4. CASE cache["Phare"].val # None
  <2>1. ph' = cache["Phare"] /\ "build" \in todo'
    BY <1>4 DEF Fetch
  <2>2. Head(Heard) = cache["Phare"]
    BY <1>2, BarTypes, Fronted DEF Heard
  <2>3. LT!Start
    BY <1>1, <1>2, <1>4, <2>1, <2>2 DEF LT!Start
  <2> QED
    BY <1>1, <1>2, <2>1, <2>3 DEF PassFits, LT!Next
<1> QED
  BY <1>3, <1>4

LEMMA GetRefines ==
    ASSUME RefinementInv, NEW s \in Steps, Get(s)
    PROVE  HeardLast' /\ PassFits' /\ [LT!Next]_LT!vars
<1>1. HeardLast' /\ Heard' = Heard /\ Children' = Children /\ ph' = ph /\ hash' = hash /\ UNCHANGED budget
  BY NothingWritten DEF Get, clusterVars, StepDone
<1>2. At(s) /\ s # "build" /\ TypeInv
  BY DEF Get, RefinementInv, SafetyInv
<1>3. (Busy /\ "build" \notin todo => hash \in Checksum(ph.val.spec))'
  <2>1. "build" \notin todo' => "build" \notin todo
    BY <1>2 DEF Get, StepDone
  <2> QED
    BY <1>1, <2>1 DEF RefinementInv, PassFits, Busy
<1>4. CASE req' = None
  BY <1>1, <1>3, <1>4 DEF PassFits, LT!vars
<1>5. CASE req' # None
  <2>1. /\ req'.verb = Decide(Target(s), Read(Target(s)).val) /\ req'.kind = Target(s)
        /\ req'.verb # "none"
        /\ todo' = todo /\ err' = err
    BY <1>5 DEF Get, StepDone
  <2>2. req'.verb = "delete" => ~Wanted(req'.kind, ph.val.spec)
    BY <2>1 DEF Decide, ModifyVerb
  <2>3. req'.kind \in WorkloadKinds /\ req'.verb # "delete" => "build" \notin todo
    <3>1. CASE s = "workload"
      BY <1>2, <3>1 DEF At, Place
    <3>2. CASE s = "stale"
      <4>1. ph.val.spec.kind \in WorkloadKinds
        BY <1>2, BusyType DEF SpecType
      <4>2. ~Wanted(Target(s), ph.val.spec)
        BY <3>2, <4>1 DEF Target, OtherWorkload, Wanted, WorkloadKinds
      <4> QED
        BY <2>1, <4>2 DEF Decide
    <3>3. CASE s \notin {"workload", "stale"}
      BY <1>2, <2>1, <3>3 DEF Target, Steps, Place, WorkloadKinds
    <3> QED
      BY <3>1, <3>2, <3>3
  <2>4. ~At("build")'
    <3>1. At("build") => Place["build"] <= Place[s] /\ Place[s] <= Place["build"]
      BY <1>2 DEF At
    <3>2. s \in DOMAIN Place /\ s # "build" => Place[s] # 7 /\ Place[s] \in Int /\ Place["build"] = 7
      BY DEF Place
    <3>3. ~At("build")
      BY <1>2, <3>1, <3>2 DEF Steps
    <3> QED
      BY <1>1, <2>1, <3>3 DEF At, Busy
  <2> QED
    BY <1>1, <1>3, <2>1, <2>2, <2>3, <2>4 DEF PassFits, LT!vars
<1> QED
  BY <1>4, <1>5

LEMMA BuildRefines ==
    ASSUME RefinementInv, Build
    PROVE  HeardLast' /\ PassFits' /\ [LT!Next]_LT!vars
<1>1. HeardLast' /\ Heard' = Heard /\ Children' = Children /\ UNCHANGED budget
  BY NothingWritten DEF Build, clusterVars
<1>2. At("build") /\ ph' = ph /\ req' \in {req, None}
  BY DEF Build, FailWith
<1>3. cache["ConfigMap"].val \in ChildObject \cup {None}
  BY DEF RefinementInv, SafetyInv, TypeInv, TypeOK, ClusterTypeOK, Kinds, ChildKinds, OptionalKinds, Snapshot, ObjectOf
<1>4. CASE FailWith("build") \/ FailWith("hash")
  BY <1>1, <1>4 DEF FailWith, RefinementInv, PassFits, Busy, LT!vars
<1>5. CASE ~(FailWith("build") \/ FailWith("hash"))
  <2>1. HasConfig(ph.val.spec) => cache["ConfigMap"].val # None
    BY <1>5 DEF Build
  <2>2. /\ hash' = IF HasConfig(ph.val.spec) THEN cache["ConfigMap"].val.val ELSE None
        /\ todo' = todo \ {"build"}
        /\ UNCHANGED <<ph, req, err>>
    BY <1>5 DEF Build
  <2>3. hash' \in Checksum(ph.val.spec)
    BY <1>3, <2>1, <2>2 DEF ChildObject, Checksum
  <2> QED
    BY <1>1, <1>2, <2>2, <2>3 DEF RefinementInv, PassFits, Busy, LT!vars
<1> QED
  BY <1>4, <1>5

\* A request that the API server accepts is a Write or a Remove.
LEMMA WriteRefines ==
    ASSUME RefinementInv, NEW s \in Steps, At(s), req # None, UNCHANGED <<cache, ph>>,
           budget'.meddling = budget.meddling,
           NEW v, Put(req.kind, v),
           LET want == Desired(req.kind, ph.val, hash)
           IN  \/ req.verb = "create" /\ ~Exists(req.kind) /\ v = want
               \/ /\ req.verb \in {"update", "patch"} /\ Exists(req.kind)
                  /\ v \in LT!Between(req.kind, Live(req.kind), want)
               \/ req.verb = "delete" /\ v = None
    PROVE  HeardLast' /\ [LT!Next]_LT!vars
<1> DEFINE k == req.kind
<1>1. /\ TypeOK /\ HeardLast /\ PassFits /\ ph # None /\ k \in ChildKinds
      /\ LT!ChildKinds = ChildKinds
  BY SameObjects, RequestType DEF RefinementInv, SafetyInv, TypeInv, At, Busy
<1>2. HeardLast' /\ Heard' = Heard /\ Children' = [Children EXCEPT ![k] = v]
  BY <1>1, PutChild DEF HeardLast
<1>3. Children[k] = Live(k)
  BY <1>1 DEF Children
<1>4. CASE req.verb = "delete" /\ v = None
  <2>1. ~LT!Wanted(k, ph.val.spec)
    BY <1>1, <1>4, SameObjects DEF PassFits
  <2>2. LT!Remove(k)
    BY <1>1, <1>2, <1>4, <2>1 DEF LT!Remove
  <2> QED
    BY <1>1, <1>2, <2>2 DEF LT!Next
<1>5. CASE req.verb # "delete"
  <2>1. LT!Wanted(k, ph.val.spec)
    BY <1>1, <1>5, SameObjects DEF RefinementInv, SafetyInv, TypeInv, RequestSound
  <2>2. LT!Checksums = Checksum(ph.val.spec)
    BY DEF LT!Checksums, Checksum, LT!HasConfig, HasConfig, LT!Contents, Contents
  <2>3. \E h \in LT!Checksums : LT!Desired(k, ph.val, h) = Desired(k, ph.val, hash)
    <3>1. CASE k \in WorkloadKinds
      BY <1>1, <1>5, <2>2, <3>1, SameObjects DEF PassFits, Busy
    <3>2. CASE k \notin WorkloadKinds
      <4>1. \E h : h \in Checksum(ph.val.spec)
        BY DEF Checksum, HasConfig, Contents
      <4>2. \A h : Desired(k, ph.val, h) = Desired(k, ph.val, hash)
        BY <3>2 DEF Desired
      <4> QED
        BY <2>2, <4>1, <4>2, SameObjects
    <3> QED
      BY <3>1, <3>2
  <2>4. PICK h \in LT!Checksums : LT!Desired(k, ph.val, h) = Desired(k, ph.val, hash)
    BY <2>3
  <2>5. IF Children[k] = None
        THEN Children' = [Children EXCEPT ![k] = LT!Desired(k, ph.val, h)]
        ELSE \E new \in LT!Between(k, Children[k], LT!Desired(k, ph.val, h)) :
                Children' = [Children EXCEPT ![k] = new]
    BY <1>2, <1>3, <1>5, <2>4 DEF Exists
  <2>6. LT!Write(k)
    BY <1>1, <1>2, <2>1, <2>4, <2>5 DEF LT!Write
  <2> QED
    BY <1>1, <1>2, <2>6 DEF LT!Next
<1> QED
  BY <1>4, <1>5

LEMMA CallRefines ==
    ASSUME RefinementInv, NEW s \in Steps, Create(s) \/ Update(s) \/ PatchChild(s) \/ Delete(s)
    PROVE  HeardLast' /\ PassFits' /\ [LT!Next]_LT!vars
<1>1. /\ At(s) /\ req # None /\ ph' = ph /\ req' = None /\ hash' = hash /\ UNCHANGED cache
      /\ todo' = todo \/ todo' = todo \ {s}
  BY DEF Create, Update, PatchChild, Delete, Call, StepDone, FailWith
<1>2. TypeInv /\ req.kind \in ChildKinds
  BY <1>1, RequestType DEF RefinementInv, SafetyInv
<1>6. budget'.meddling = budget.meddling
  BY Spared DEF RefinementInv, SafetyInv, TypeInv, Create, Update, PatchChild, Delete, Call
<1>3. PassFits'
  <2>1. s # "build"
    BY <1>1 DEF RefinementInv, PassFits
  <2> QED
    BY <1>1, <2>1 DEF RefinementInv, PassFits, Busy
<1> DEFINE want == Desired(req.kind, ph.val, hash)
           live == Live(req.kind)
           base == req.base.val
<1>4. CASE UNCHANGED <<store, watch>>
  BY <1>1, <1>3, <1>4, <1>6, NothingWritten DEF LT!vars
<1>5. CASE ~UNCHANGED <<store, watch>>
  <2>1. CASE Create(s)
    <3>1. req.verb = "create" /\ ~Exists(req.kind) /\ Put(req.kind, want)
      BY <1>5, <2>1 DEF Create, Call
    <3> QED
      BY <1>1, <1>3, <3>1, <1>6, WriteRefines
  <2>2. CASE Update(s)
    <3>1. /\ req.verb = "update" /\ Exists(req.kind) /\ store[req.kind].rv = req.base.rv
          /\ Put(req.kind, Merged(req.kind, base, want))
      BY <1>5, <2>2 DEF Update, Call
    <3>2. base = live
      BY <1>1, <3>1 DEF RefinementInv, SafetyInv, SnapshotsSound, Sound, Live
    <3>3. live \in ChildObject /\ want \in ChildObject
      BY <1>1, <1>2, <3>1, RequestType
    <3>4. Merged(req.kind, base, want) \in LT!Between(req.kind, live, want)
      BY <1>2, <3>2, <3>3, MergeIsBetween
    <3> QED
      BY <1>1, <1>3, <3>1, <3>4, <1>6, WriteRefines
  <2>3. CASE PatchChild(s)
    <3>1. /\ req.verb = "patch" /\ Exists(req.kind)
          /\ Put(req.kind, Patch(live, base, Merged(req.kind, base, want)))
      BY <1>5, <2>3 DEF PatchChild, Call
    <3>2. live \in ChildObject /\ base \in ChildObject /\ want \in ChildObject
      BY <1>1, <1>2, <3>1, RequestType
    <3>3. Patch(live, base, Merged(req.kind, base, want)) \in LT!Between(req.kind, live, want)
      BY <1>2, <3>2, PatchIsBetween
    <3> QED
      BY <1>1, <1>3, <3>1, <3>3, <1>6, WriteRefines
  <2>4. CASE Delete(s)
    <3>1. req.verb = "delete" /\ Put(req.kind, None)
      BY <1>5, <2>4 DEF Delete, Call
    <3> QED
      BY <1>1, <1>3, <3>1, <1>6, WriteRefines
  <2> QED
    BY <2>1, <2>2, <2>3, <2>4
<1> QED
  BY <1>4, <1>5

LEMMA StatusRefines ==
    ASSUME RefinementInv, StatusKnown \/ WriteStatus
    PROVE  HeardLast' /\ PassFits' /\ [LT!Next]_LT!vars
<1>1. ph # None /\ ph' = None /\ req' = None /\ UNCHANGED cache
  BY DEF StatusKnown, WriteStatus, Return, Finished, Busy
<1>5. budget'.meddling = budget.meddling
  BY Spared DEF RefinementInv, SafetyInv, TypeInv, StatusKnown, WriteStatus
<1>2. PassFits'
  BY <1>1 DEF PassFits, Busy
<1>3. CASE UNCHANGED <<store, watch>>
  <2>1. LT!Stop
    BY <1>1, <1>3, <1>5, NothingWritten DEF LT!Stop
  <2> QED
    BY <1>1, <1>2, <1>3, <2>1, NothingWritten DEF LT!Next
<1>4. CASE ~UNCHANGED <<store, watch>>
  <2> DEFINE v == [Live("Phare") EXCEPT !.status = Outcome]
  <2>1. StatusAccepted /\ Put("Phare", v)
    BY <1>4 DEF StatusKnown, WriteStatus
  <2>2. TypeOK /\ HeardLast /\ LT!Phare = store["Phare"]
    BY LivePhare DEF RefinementInv, SafetyInv, TypeInv
  <2>3. Live("Phare") \in PhareObject /\ Outcome \in Statuses
    BY <2>1, <2>2, BarTypes DEF TypeOK, Outcome, Statuses, Snapshot, ObjectOf, StatusAccepted, Exists, Live
  <2>4. v \in PhareObject
    BY <2>3 DEF PhareObject
  <2>5. store["Phare"] = ph
    <3>1. store["Phare"].rv = ph.rv /\ store["Phare"].val = ph.val
      BY <1>1, <2>1 DEF RefinementInv, SafetyInv, SnapshotsSound, Sound, StatusAccepted, Busy
    <3>2. store["Phare"] \in Snapshot("Phare") /\ ph \in Snapshot("Phare")
      BY <1>1, <2>2, BarTypes DEF TypeOK
    <3> QED
      BY <3>1, <3>2 DEF Snapshot
  <2>6. v = [ph.val EXCEPT !.status = Outcome]
    BY <2>5 DEF Live
  <2> HIDE DEF v
  <2>7. /\ Children' = Children /\ HeardLast'
        /\ \/ Heard' = Heard
           \/ Heard' = Append(Heard, [rv |-> store["Phare"].rv + 1, val |-> v])
    BY <1>1, <2>1, <2>2, <2>4, PutPhare
  <2>8. CASE Heard' = Heard
    BY <1>1, <1>2, <1>5, <2>7, <2>8 DEF LT!Stop, LT!Next
  <2>9. CASE Heard' = Append(Heard, [rv |-> store["Phare"].rv + 1, val |-> v])
    <3>1. LT!Becomes(v)
      BY <2>2, <2>9 DEF LT!Becomes
    <3>2. \E status \in LT!Statuses : LT!Becomes([ph.val EXCEPT !.status = status])
      BY <2>3, <2>6, <3>1, SameObjects
    <3>3. LT!Report
      BY <1>1, <1>5, <2>2, <2>5, <2>7, <3>2 DEF LT!Report
    <3> QED
      BY <1>2, <2>7, <3>3 DEF LT!Next
  <2> QED
    BY <2>7, <2>8, <2>9
<1> QED
  BY <1>3, <1>4

LEMMA CrashRefines ==
    ASSUME RefinementInv, Crash
    PROVE  HeardLast' /\ PassFits' /\ [LT!Next]_LT!vars
<1>1. /\ TypeOK /\ LT!Phare = store["Phare"]
      /\ cache' = store /\ watch' = [k \in Kinds |-> <<>>] /\ store' = store
      /\ ph' = None /\ req' = None
  BY LivePhare DEF RefinementInv, SafetyInv, TypeInv, Crash, Relist
<1>2. cache'["Phare"] = store["Phare"] /\ watch'["Phare"] = <<>>
  BY <1>1, BarTypes
<1>3. Heard' = <<store["Phare"]>>
  BY <1>2 DEF Heard
<1>4. Children' = Children
  BY <1>1 DEF Children, Live
<1>6. budget'.meddling = budget.meddling
  BY <1>1, Spared DEF Crash
<1>5. LT!Restart
  BY <1>1, <1>3, <1>4, <1>6 DEF LT!Restart
<1> QED
  BY <1>1, <1>3, <1>5 DEF HeardLast, PassFits, Busy, LT!Next

LEMMA GetFailsRefines ==
    ASSUME RefinementInv, NEW s \in Steps, GetFails(s)
    PROVE  HeardLast' /\ PassFits' /\ [LT!Next]_LT!vars
<1>1. HeardLast' /\ Heard' = Heard /\ Children' = Children
  BY NothingWritten DEF GetFails
<1>2. budget'.meddling = budget.meddling
  BY Spared DEF RefinementInv, SafetyInv, TypeInv, GetFails
<1> QED
  BY <1>1, <1>2 DEF GetFails, FailWith, RefinementInv, PassFits, Busy, LT!vars

-----------------------------------------------------------------------------
(* The refinement *)

LEMMA InitRefines == Init => HeardLast /\ PassFits /\ LT!Init
<1> SUFFICES ASSUME Init PROVE HeardLast /\ PassFits /\ LT!Init
  OBVIOUS
<1>1. TypeOK /\ store["Phare"] = Missing /\ cache["Phare"] = Missing /\ watch["Phare"] = <<>>
  BY InitType DEF Init, ClusterInit, TypeInv, Kinds
<1>2. Heard = <<Missing>>
  BY <1>1 DEF Heard
<1>3. Children = [k \in ChildKinds |-> None]
  BY DEF Init, ClusterInit, Children, Live, Missing, Kinds
<1>4. LT!Init
  BY <1>2, <1>3, SameObjects DEF LT!Init, Missing, Init, ClusterInit
<1> QED
  BY <1>1, <1>2, <1>4 DEF HeardLast, PassFits, Init, Busy

LEMMA StepRefines ==
    ASSUME RefinementInv, [Next]_vars
    PROVE  RefinementInv' /\ [LT!Next]_LT!vars
<1>1. SafetyInv'
  BY StepSafety DEF RefinementInv
<1>2. HeardLast' /\ PassFits' /\ [LT!Next]_LT!vars
  <2>1. CASE Worker
    BY <2>1, FetchRefines, BuildRefines, StatusRefines, GetRefines, GetFailsRefines, CallRefines DEF Worker
  <2>2. CASE Crash
    BY <2>2, CrashRefines
  <2>3. CASE Environment /\ UNCHANGED ctlVars
    <3>1. PassFits'
      BY <2>3 DEF RefinementInv, PassFits, ctlVars, Busy, At
    <3> QED
      BY <2>3, <3>1, EnvironmentRefines
  <2>4. CASE UNCHANGED vars
    BY <2>4, NothingWritten DEF RefinementInv, PassFits, vars, clusterVars, ctlVars, Busy, At, LT!vars
  <2> QED
    BY <2>1, <2>2, <2>3, <2>4 DEF Next
<1> QED
  BY <1>1, <1>2 DEF RefinementInv

\* The reconciler implements the level-triggered controller: whatever the caches, the
\* blind patches, the lost answers and the restarts do in between, every change it makes
\* to the cluster is one that a controller which works from one state of the Phare at a
\* time, and hears those states in order, could have made, and a status only ever comes
\* to stand on the very state that was worked from.
THEOREM ReconcilerImplementsLevelTriggered == Spec => ImplementsLevelTriggered
<1>1. Init => RefinementInv /\ LT!Init
  BY InitSafety, InitRefines DEF RefinementInv
<1>2. RefinementInv /\ [Next]_vars => RefinementInv' /\ [LT!Next]_LT!vars
  BY StepRefines
<1> QED
  BY <1>1, <1>2, PTL DEF Spec, ImplementsLevelTriggered, LT!Spec
=============================================================================
