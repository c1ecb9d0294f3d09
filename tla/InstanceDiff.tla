---------------------------- MODULE InstanceDiff ----------------------------
(***************************************************************************)
(* What an instance of a service should be, what is registered for it, and *)
(* how processSyncInstance tells the two apart (pkg/controller/apis.go,    *)
(* pkg/util/address/address.go).                                           *)
(*                                                                         *)
(* A service is a record of the annotations that matter: ttl (a number, 0  *)
(* when absent or no number), weight (Null when absent or no number),      *)
(* stateful (the workload kind), custom (weights by pod index), meta (the  *)
(* keys of the metadata annotation that parse, Null when it is absent),    *)
(* broken (whether any of that annotation does not parse), labels and      *)
(* alias.  Endpoints map each ip-port pair to [ready, index, protocol,     *)
(* labels], labels being those of the pod as the lister has it.            *)
(***************************************************************************)
EXTENDS Integers, FiniteSets

CONSTANTS Null,
          Source,        \* "polaris-controller"
          ClusterName,   \* config clusterName
          DefaultWeight

NoMap == [k \in {} |-> Null]
SystemMeta == [source |-> Source, clusterName |-> ClusterName]

(* The keys every registered instance has.  The controller sends two of them, *)
(* Polaris adds the others, from the protocol and version it was sent.        *)
PolarisDefaultMetaSet == {"clusterName", "source", "version", "protocol"}

-----------------------------------------------------------------------------
(* A ttl out of range means no health check. *)
HealthChecked(service) == service.ttl \in 1..60

GetWeightFromService(service) ==
  IF service.weight = Null THEN DefaultWeight ELSE service.weight

(* The test of the custom weight's range (w >= 0 || w <= 100) passes always. *)
Weight(service, index) ==
  LET i == IF service.stateful THEN index ELSE ""
  IN  IF i \in DOMAIN service.custom THEN service.custom[i]
      ELSE GetWeightFromService(service)

(* GetAddressMapFromEndpoints: an address that is not ready is isolated. *)
Expected(service, endpoints) ==
  [a \in DOMAIN endpoints |->
     [weight |-> Weight(service, endpoints[a].index), healthy |-> TRUE,
      isolate |-> ~endpoints[a].ready, protocol |-> endpoints[a].protocol,
      labels |-> endpoints[a].labels]]

CustomMeta(service) == IF service.meta = Null THEN NoMap ELSE service.meta

(* The controller's own keys prevail over the annotation's, the pod's labels *)
(* over both.                                                                *)
MergeMetadata(service, labels) ==
  [k \in DOMAIN labels \cup DOMAIN SystemMeta \cup DOMAIN CustomMeta(service) |->
     IF k \in DOMAIN labels THEN labels[k]
     ELSE IF k \in DOMAIN SystemMeta THEN SystemMeta[k] ELSE CustomMeta(service)[k]]

(* What Polaris keeps: keys that were sent have the values that were sent. *)
Stored(metadata) ==
  [k \in DOMAIN metadata \cup PolarisDefaultMetaSet |->
     IF k \in DOMAIN metadata THEN metadata[k] ELSE Null]

(* isSyncInstance: what this controller registered for this cluster. *)
IsSyncInstance(instance) ==
  LET has(k, v) == k \in DOMAIN instance.meta /\ instance.meta[k] = v
  IN  has("clusterName", ClusterName) /\ (has("source", Source) \/ has("platform", Source))

Registered(instances) ==
  [a \in {b \in DOMAIN instances : IsSyncInstance(instances[b])} |-> instances[a]]

-----------------------------------------------------------------------------
\* Mutant: an address that stops being ready does not count as a change.
CompareInstanceUpdate_NoIsolate(service, spec, cur) ==
  \/ cur.healthCheck # HealthChecked(service)
  \/ cur.healthy # spec.healthy
  \/ cur.weight # spec.weight
  \/ cur.protocol # spec.protocol

(* compareInstanceUpdate: of the metadata only the keys of the annotation are *)
(* looked at or, without one, their number; an annotation that does not parse *)
(* says nothing.                                                              *)
CompareInstanceUpdate(service, spec, cur) ==
  \/ cur.healthCheck # HealthChecked(service)
  \/ cur.healthy # spec.healthy
  \/ cur.isolate # spec.isolate
  \/ cur.weight # spec.weight
  \/ cur.protocol # spec.protocol
  \/ /\ service.meta = Null
     /\ Cardinality(DOMAIN cur.meta) > Cardinality(PolarisDefaultMetaSet)
  \/ /\ ~service.broken
     /\ \E k \in DOMAIN CustomMeta(service) \ DOMAIN SystemMeta :
          k \notin DOMAIN cur.meta \/ cur.meta[k] # CustomMeta(service)[k]

\* Mutant: an address that differs is deleted and added anew.
CompareInstance_Recreates(service, spec, cur) ==
  LET differ == {a \in DOMAIN spec \cap DOMAIN cur :
                   CompareInstanceUpdate(service, spec[a], cur[a])}
  IN  [add |-> (DOMAIN spec \ DOMAIN cur) \cup differ, update |-> {},
       delete |-> (DOMAIN cur \ DOMAIN spec) \cup differ]

(* CompareInstance: the addresses to add, update and delete. *)
CompareInstance(service, spec, cur) ==
  [add |-> DOMAIN spec \ DOMAIN cur,
   update |-> {a \in DOMAIN spec \cap DOMAIN cur :
                 CompareInstanceUpdate(service, spec[a], cur[a])},
   delete |-> DOMAIN cur \ DOMAIN spec]

(* addInstances: with a health check an instance starts unhealthy. *)
NewInstance(service, spec) ==
  [healthCheck |-> HealthChecked(service),
   ttl |-> IF HealthChecked(service) THEN service.ttl ELSE 0,
   healthy |-> ~HealthChecked(service) /\ spec.healthy,
   isolate |-> spec.isolate, weight |-> spec.weight, protocol |-> spec.protocol,
   meta |-> Stored(MergeMetadata(service, spec.labels))]

\* Mutant: an update starts with the health of a new instance.
UpdatedInstance_StartsAgain(service, spec, old) ==
  [NewInstance(service, spec) EXCEPT !.protocol = old.protocol]

(* updateInstances sends neither protocol nor version: they stay. *)
UpdatedInstance(service, spec, old) ==
  [NewInstance(service, spec) EXCEPT !.healthy = spec.healthy,
                                     !.protocol = old.protocol]
=============================================================================
