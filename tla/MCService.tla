----------------------------- MODULE MCService -------------------------------
(* Phares, interventions and bounds for the runs of ServiceReconciler. *)
EXTENDS ServiceReconciler

Port(name, number, node) ==
    [name |-> name, number |-> number, target |-> "t", node |-> node]

Balanced ==
    [type |-> "NodePort", ports |-> <<Port("a", "80", Unset), Port("b", "81", Unset)>>,
     affinity |-> Unset, external |-> Unset]

Ask(service) == [service |-> service, meta |-> "m1", reallocate |-> FALSE]

NodePortPool == {"n1", "n2", "n3"}

\* Ports dropped, added and moved up; one given its own node port; another type; a
\* list that is emptied; another label; reallocation; no Service at all.
ServicePhares ==
    {Ask(Balanced),
     Ask([Balanced EXCEPT !.ports = <<Port("b", "81", Unset), Port("c", "82", Unset)>>]),
     [Ask([Balanced EXCEPT !.ports[1].node = "n9", !.external = Cleared]) EXCEPT !.meta = "m2"],
     Ask([Balanced EXCEPT !.type = Unset, !.affinity = "ClientIP",
                          !.ports = <<Port("a", "80", Unset), Port("b", "81", Unset), Port("c", "82", Unset)>>]),
     [Ask(Balanced) EXCEPT !.reallocate = TRUE],
     Ask([Balanced EXCEPT !.ports = <<Port(Unset, "80", Unset)>>]),
     Ask(Nothing)}

ServiceMeddling == {<<"external", "ip">>, <<"meta", "drift">>, <<"affinity", "ClientIP">>}
=============================================================================
