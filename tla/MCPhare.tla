------------------------------ MODULE MCPhare -------------------------------
EXTENDS PhareProperties

CONSTANTS v1, v2, bad

MCValues == {v1, v2}
BadValues == {v1, v2, bad}
MCBad == {bad}

\* A specification with the wants of w over none at all.
SpecOf(kind, template, w, relabel) ==
    [kind |-> kind, template |-> template, relabel |-> relabel,
     want |-> [k \in OptionalKinds |-> IF k \in DOMAIN w THEN w[k] ELSE None]]

\* The config changes, is there without data, and goes, and the workload changes its kind.
ConfigSpecs ==
    {SpecOf("StatefulSet", v1, [ConfigMap |-> c], FALSE) : c \in {v1, v2}}
    \cup {SpecOf("Deployment", v1, [ConfigMap |-> c], FALSE) : c \in {Empty, None}}

\* A Deployment that can be built, and a StatefulSet that cannot; a GKE policy comes and goes.
FaultSpecs == {SpecOf("Deployment", v1, [ConfigMap |-> v1, HealthCheckPolicy |-> v1], FALSE),
               SpecOf("StatefulSet", bad, [ConfigMap |-> v1], FALSE)}

\* Traffic: the Service and the route come, change and go.
TrafficSpecs == {SpecOf("Deployment", v1, w, FALSE) :
                 w \in {[Service |-> v1, HTTPRoute |-> v1], [Service |-> v2, HTTPRoute |-> None]}}

\* One specification, for the runs that delete and recreate the Phare.
LifeSpecs == {SpecOf("Deployment", v1, [ConfigMap |-> v1], FALSE)}

\* The Phare carries its own created-by label, as config/samples/phare_v1beta1_phare.yaml.
RelabelSpecs == {SpecOf("Deployment", v1, [Service |-> v1], TRUE)}

\* The GKE policies come and go.
PolicySpecs == {SpecOf("Deployment", v1, w, FALSE) :
                w \in {[GCPBackendPolicy |-> v1, HealthCheckPolicy |-> v1],
                       [GCPBackendPolicy |-> v2, HealthCheckPolicy |-> None]}}

ConfigMeddling == {"edit", "delete"} \X {"ConfigMap", "StatefulSet"}
TrafficMeddling == {"edit", "unlabel", "delete", "plant"} \X {"Service", "HTTPRoute"}
RouteReplaced == {"delete", "plant"} \X {"HTTPRoute"}
ServiceDeleted == {<<"delete", "Service">>}
NoMeddling == {}
=============================================================================
