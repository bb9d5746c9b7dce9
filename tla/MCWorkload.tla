----------------------------- MODULE MCWorkload ------------------------------
(* Pod parts, sidecars and bounds for the runs of WorkloadRollout. *)
EXTENDS WorkloadRollout

Container(name, mounts) ==
    [name |-> name, managed |-> "v1", defaulted |-> "v1", timing |-> Unset, other |-> Unset,
     mounts |-> mounts]

Volume(name, source) == [name |-> name, source |-> source]

Claim(name, size) == [name |-> name, size |-> size, mode |-> Unset, status |-> Unset]

Plain ==
    [labels |-> {"app"}, claims |-> <<>>, rest |-> "r1", config |-> FALSE, image |-> "v1", refs |-> "v1",
     timing |-> "v1", mounts |-> {"data"}, extra |-> <<>>, inits |-> <<Container("setup", {"data"})>>,
     volumes |-> <<Volume("data", "claim")>>]

\* A StatefulSet: the main container also mounts a claim.
Stateful == [Plain EXCEPT !.mounts = {"data", "state"}, !.claims = <<Claim("state", "1Gi")>>]

\* Another image with the config mounted and fields left to the API server; another
\* replica count with other volumes and probes, and a claim made larger.
RolloutSpecs ==
    {Stateful,
     [Stateful EXCEPT !.image = "v2", !.refs = Unset, !.timing = Unset, !.config = TRUE],
     [Stateful EXCEPT !.rest = "r2", !.timing = "v2", !.mounts = {"state"}, !.claims = <<Claim("state", "2Gi")>>,
                      !.volumes = <<Volume("data", "empty"), Volume("logs", "empty")>>]}

\* One container that brings its volume, and one init container that also mounts the
\* volume of the config.
MeshSidecars ==
    {[list |-> "containers", container |-> Container("mesh", {"certs"}),
      volumes |-> <<Volume("certs", "secret")>>],
     [list |-> "inits", container |-> Container("warm", {"tokens", ConfigVolume.name}),
      volumes |-> <<Volume("tokens", "secret"), Volume(ConfigVolume.name, "injected")>>]}

PodNames == {"main", "setup", "mesh", "warm", "data", "logs", "state", "certs", "tokens", "config-volume"}

FieldValues ==
    {"v1", "v2", "r1", "r2", "touched", "claim", "empty", "secret", "config", "injected", "1Gi", "2Gi"}
      \cup {Unset, Default}

ImageSpecs == {Plain, [Plain EXCEPT !.image = "v2"]}

\* Only the timing of the probes is edited.
TimingSpecs == {Plain, [Plain EXCEPT !.timing = "v2"]}
=============================================================================
