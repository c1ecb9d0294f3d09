---------------------------- MODULE ServiceDetail ----------------------------
(***************************************************************************)
(* One service of one Kubernetes cluster and what syncService writes to    *)
(* Polaris about it: the service and its labels, its alias, its instances  *)
(* with their attributes (InstanceDiff).  ServiceSync, which models when   *)
(* syncService runs and for which services, takes the attributes for a     *)
(* single value; here they are what matters, and one worker syncs the      *)
(* service again and again, as resyncWorker makes it do.                   *)
(***************************************************************************)
EXTENDS InstanceDiff

CONSTANTS
  Objects,       \* states of the Service object
  Addrs,         \* ip-port pairs
  Endpoints,     \* states of an address in the Endpoints object
  LabelKeys,     \* keys a user of Polaris edits in the service's metadata
  FailingCalls,  \* calls of Polaris that may fail
  NoSvc,
  MaxChanges,    \* bound: changes of the Service or the Endpoints object
  MaxEdits,      \* bound: edits made in Polaris
  MaxBeats,      \* bound: heartbeats found missing
  MaxFaults      \* bound: failing calls

Calls == {"service", "alias", "get", "put", "query", "add", "update", "delete"}

ASSUME ServiceDetailAssumption ==
  /\ FailingCalls \subseteq Calls
  /\ NoSvc \notin Objects
  /\ \A obj \in Objects : Null \notin {obj.labels[k] : k \in DOMAIN obj.labels}

VARIABLES
  svc,           \* Kubernetes: the Service object
  endpoints,     \* Kubernetes: its Endpoints object
  service,       \* Polaris: the labels of the service, or Null
  aliases,       \* Polaris: the aliases of the service
  instances,     \* Polaris: the instances of the service
  serviceCache,  \* the object cached for the service, or NoSvc
  sync,          \* what the worker is doing, and what was used when it began
  lost,          \* history: aliases an object was cached with, not yet created
  used           \* how much of each bound is used up

k8sVars == <<svc, endpoints>>
polarisVars == <<service, aliases, instances>>
vars == <<k8sVars, polarisVars, serviceCache, sync, lost, used>>

(* The entries of f, and those of g that it does not have. *)
Over(f, g) == [k \in DOMAIN f \cup DOMAIN g |-> IF k \in DOMAIN f THEN f[k] ELSE g[k]]

NoneUsed == [changes |-> 0, edits |-> 0, beats |-> 0, faults |-> 0]
Nothing == [add |-> {}, update |-> {}, delete |-> {}]
Idle == [pc |-> "idle", obj |-> NoSvc, cached |-> NoSvc, labels |-> NoMap,
         spec |-> NoMap, todo |-> Nothing, since |-> NoneUsed]

Init ==
  /\ svc \in Objects
  /\ endpoints \in [Addrs -> Endpoints]
  /\ service = Null
  /\ aliases = {}
  /\ instances = NoMap
  /\ serviceCache = NoSvc
  /\ sync = Idle
  /\ lost = {}
  /\ used = NoneUsed

Use(bound, max) ==
  /\ used[bound] < max
  /\ used' = [used EXCEPT ![bound] = @ + 1]

-----------------------------------------------------------------------------
HasAlias(obj) == obj.alias # Null

\* Mutant: an alias is created only where there was none before.
IfNeedCreateServiceAlias_FirstOnly(old, new) == ~HasAlias(old) /\ HasAlias(new)

\* Mutant: an alias that is taken off the service is created too.
IfNeedCreateServiceAlias_Empty(old, new) == old.alias # new.alias

IfNeedCreateServiceAlias(old, new) == old.alias # new.alias /\ HasAlias(new)

(* onServiceUpdate caches the old object, its alias created or not: the next  *)
(* sync sees no change of the alias.                                          *)
ChangeService(obj) ==
  /\ obj # svc
  /\ Use("changes", MaxChanges)
  /\ svc' = obj
  /\ serviceCache' = svc
  /\ lost' = lost \cup ({svc.alias} \ (aliases \cup {Null}))
  /\ UNCHANGED <<endpoints, polarisVars, sync>>

ChangeEndpoint(a, e) ==
  /\ a \in DOMAIN endpoints => endpoints[a] # e
  /\ Use("changes", MaxChanges)
  /\ endpoints' = Over([b \in {a} |-> e], endpoints)
  /\ UNCHANGED <<svc, polarisVars, serviceCache, sync, lost>>

RemoveEndpoint(a) ==
  /\ a \in DOMAIN endpoints
  /\ Use("changes", MaxChanges)
  /\ endpoints' = [b \in DOMAIN endpoints \ {a} |-> endpoints[b]]
  /\ UNCHANGED <<svc, polarisVars, serviceCache, sync, lost>>

(* Polaris finds an instance with a health check without heartbeats. *)
MissHeartbeat(a) ==
  /\ a \in DOMAIN instances
  /\ instances[a].healthCheck /\ instances[a].healthy
  /\ Use("beats", MaxBeats)
  /\ instances' = [instances EXCEPT ![a].healthy = FALSE]
  /\ UNCHANGED <<k8sVars, service, aliases, serviceCache, sync, lost>>

\* A user of Polaris drops a label of the service.
DropLabel(k) ==
  /\ service # Null
  /\ k \in DOMAIN service
  /\ Use("edits", MaxEdits)
  /\ service' = [l \in DOMAIN service \ {k} |-> service[l]]
  /\ UNCHANGED <<k8sVars, aliases, instances, serviceCache, sync, lost>>

-----------------------------------------------------------------------------
workerUnchanged == <<k8sVars, lost>>
GoesOn(pc) == sync' = [sync EXCEPT !.pc = pc]
Fails(call) == call \in FailingCalls /\ Use("faults", MaxFaults)

(* The object is read first, then the cache.  Without a cached object the   *)
(* service is new.                                                          *)
TakeTask ==
  /\ sync.pc = "idle"
  /\ sync' = [sync EXCEPT !.pc = "load", !.obj = svc, !.since = used]
  /\ UNCHANGED <<workerUnchanged, polarisVars, serviceCache, used>>

LoadCache ==
  /\ sync.pc = "load"
  /\ sync' = [sync EXCEPT !.cached = serviceCache,
                !.pc = IF serviceCache = NoSvc THEN "create" ELSE "update alias"]
  /\ UNCHANGED <<workerUnchanged, polarisVars, serviceCache, used>>

(* The task fails and is tried again: CreateNamespaces and CreateService do *)
(* nothing about what exists already.                                       *)
CreateService ==
  /\ sync.pc = "create"
  /\ \/ /\ service' = IF service = Null THEN sync.obj.labels ELSE service
        /\ GoesOn(IF HasAlias(sync.obj) THEN "create alias" ELSE "read")
        /\ UNCHANGED used
     \/ Fails("service") /\ sync' = Idle /\ UNCHANGED service
  /\ UNCHANGED <<workerUnchanged, aliases, instances, serviceCache>>

CreateServiceAlias ==
  /\ aliases' = aliases \cup {sync.obj.alias}
  /\ lost' = lost \ {sync.obj.alias}
  /\ UNCHANGED <<k8sVars, service, instances, serviceCache, used>>

(* The alias of a new service: an error fails the task. *)
CreateAlias ==
  /\ sync.pc = "create alias"
  /\ \/ CreateServiceAlias /\ GoesOn("read")
     \/ /\ Fails("alias") /\ sync' = Idle
        /\ UNCHANGED <<workerUnchanged, polarisVars, serviceCache>>

(* The alias of a service that changed: an error is logged, and the task    *)
(* goes on to cache the object that names the alias.                        *)
UpdateAlias ==
  /\ sync.pc = "update alias"
  /\ GoesOn("get")
  /\ IF IfNeedCreateServiceAlias(sync.cached, sync.obj)
     THEN \/ service # Null /\ CreateServiceAlias
          \/ /\ \/ Fails("alias")
                \/ service = Null /\ UNCHANGED used
             /\ lost' = lost \cup {sync.obj.alias}
             /\ UNCHANGED <<k8sVars, polarisVars, serviceCache>>
     ELSE UNCHANGED <<workerUnchanged, polarisVars, serviceCache, used>>

(* updateService reads the labels, adds those of the object and writes all  *)
(* of them back; an error is logged.                                        *)
GetService ==
  /\ sync.pc = "get"
  /\ \/ /\ service # Null
        /\ sync' = [sync EXCEPT !.pc = "put", !.labels = Over(sync.obj.labels, service)]
        /\ UNCHANGED used
     \/ service = Null /\ GoesOn("read") /\ UNCHANGED used
     \/ Fails("get") /\ GoesOn("read")
  /\ UNCHANGED <<workerUnchanged, polarisVars, serviceCache>>

\* Mutant: labels the service has already keep their values.
PutService_KeepsValues ==
  /\ sync.pc = "put"
  /\ service' = Over(service, sync.labels)
  /\ GoesOn("read")
  /\ UNCHANGED <<workerUnchanged, aliases, instances, serviceCache, used>>

PutService ==
  /\ sync.pc = "put"
  /\ GoesOn("read")
  /\ \/ service' = sync.labels /\ UNCHANGED used
     \/ Fails("put") /\ UNCHANGED service
  /\ UNCHANGED <<workerUnchanged, aliases, instances, serviceCache>>

(* processSyncInstance.  A query that fails is taken for an empty answer. *)
CompareAll ==
  /\ sync.pc = "read"
  /\ \E view \in {instances, NoMap} :
       /\ \/ view = instances /\ UNCHANGED used
          \/ view # instances /\ Fails("query")
       /\ LET spec == Expected(sync.obj, endpoints)
          IN  sync' = [sync EXCEPT !.pc = "add", !.spec = spec,
                         !.todo = CompareInstance(sync.obj, spec, Registered(view))]
  /\ UNCHANGED <<workerUnchanged, polarisVars, serviceCache>>

(* The batches, each of which is skipped if it is empty; an error is logged. *)
Send(call, next, result) ==
  /\ sync.pc = call
  /\ GoesOn(next)
  /\ \/ instances' = result /\ UNCHANGED used
     \/ sync.todo[call] # {} /\ Fails(call) /\ UNCHANGED instances
  /\ UNCHANGED <<workerUnchanged, service, aliases, serviceCache>>

(* An instance that exists is left as it is; without a service none can be  *)
(* registered.                                                              *)
AddInstances ==
  Send("add", "update",
    IF service = Null THEN instances
    ELSE Over(instances, [a \in sync.todo.add |-> NewInstance(sync.obj, sync.spec[a])]))

UpdateInstances ==
  Send("update", "delete",
    [a \in DOMAIN instances |->
       IF a \in sync.todo.update
       THEN UpdatedInstance(sync.obj, sync.spec[a], instances[a]) ELSE instances[a]])

DeleteInstances ==
  Send("delete", "store",
    [a \in DOMAIN instances \ sync.todo.delete |-> instances[a]])

StoreCache ==
  /\ sync.pc = "store"
  /\ serviceCache' = sync.obj
  /\ sync' = Idle
  /\ UNCHANGED <<workerUnchanged, polarisVars, used>>

-----------------------------------------------------------------------------
Environment ==
  \/ \E obj \in Objects : ChangeService(obj)
  \/ \E a \in Addrs :
       \/ RemoveEndpoint(a) \/ MissHeartbeat(a)
       \/ \E e \in Endpoints : ChangeEndpoint(a, e)
  \/ \E k \in LabelKeys : DropLabel(k)

SyncService ==
  \/ TakeTask \/ LoadCache
  \/ CreateService \/ CreateAlias \/ UpdateAlias
  \/ GetService \/ PutService
  \/ CompareAll \/ AddInstances \/ UpdateInstances \/ DeleteInstances
  \/ StoreCache

Next == Environment \/ SyncService

(* The worker goes on, and the resync brings a task about the service again  *)
(* and again.                                                                *)
Fairness == WF_vars(SyncService)

Spec == Init /\ [][Next]_vars
FairSpec == Spec /\ Fairness

-----------------------------------------------------------------------------
(* The shape of the state.  The aliases are some that the object had; what   *)
(* the worker is about to add or update, it has expected attributes for.     *)
TypeOK ==
  /\ svc \in Objects
  /\ DOMAIN endpoints \subseteq Addrs
  /\ service # Null => Null \notin {service[k] : k \in DOMAIN service}
  /\ aliases \subseteq {obj.alias : obj \in Objects} \ {Null}
  /\ DOMAIN instances \subseteq Addrs
  /\ serviceCache \in Objects \cup {NoSvc}
  /\ sync.pc \in {"idle", "load", "create", "create alias", "update alias", "get",
                 "put", "read", "store"} \cup Calls
  /\ sync.pc = "idle" <=> sync.obj = NoSvc
  /\ sync.todo.add \cup sync.todo.update \subseteq DOMAIN sync.spec

Created == service # Null

(* A pod label that takes the key "source" or "clusterName" of the metadata  *)
(* makes the instance one that the controller does not take for its own.     *)
Orphaned(a) == a \in DOMAIN instances /\ ~IsSyncInstance(instances[a])

(* The keys of the annotation, if all of it parses, that no pod label overrides. *)
Asked(a) ==
  IF svc.broken THEN {}
  ELSE DOMAIN CustomMeta(svc) \ (DOMAIN SystemMeta \cup DOMAIN endpoints[a].labels)

HasAttributes(a) ==
  LET cur == instances[a]
      spec == Expected(svc, endpoints)[a]
  IN  /\ cur.healthCheck = HealthChecked(svc)
      /\ cur.isolate = spec.isolate /\ cur.weight = spec.weight
      /\ \A k \in Asked(a) : k \in DOMAIN cur.meta /\ cur.meta[k] = CustomMeta(svc)[k]
Matches(a) == HasAttributes(a) /\ instances[a].healthy

(* Nothing has changed and no call has failed since the task was taken. *)
Undisturbed == used = sync.since

(* processSyncInstance: one sync is enough.  If nothing fails or changes while  *)
(* it runs, then whatever was registered before, by syncs that failed at any of *)
(* their batches or for other states of the service, what is registered is what *)
(* the endpoints and annotations ask for: nothing more, nothing less and with   *)
(* these attributes.  An instance just added may wait for its first heartbeat.  *)
(* (Except, again, instances whose pod label hides whose they are.)             *)
SyncExact ==
  sync.pc = "store" /\ Undisturbed /\ Created =>
    /\ \A a \in DOMAIN instances : Orphaned(a) \/ a \in DOMAIN endpoints
    /\ \A a \in DOMAIN endpoints :
         /\ a \in DOMAIN instances
         /\ Orphaned(a) \/ (HasAttributes(a) /\ (instances[a].healthy \/ a \in sync.todo.add))

(* processSyncInstance: once nothing changes, the instances are those of the  *)
(* endpoints, with the weight, isolation, health check and metadata asked for *)
(* by the annotations as they are now, whatever failed on the way; except     *)
(* instances whose pod label hides that they are the controller's.  (The ttl, *)
(* the protocol, the pod's labels and metadata no longer asked for are not    *)
(* part of this, as the code does not bring them up to date.)                 *)
InstancesConverge ==
  <>[](Created =>
         /\ \A a \in DOMAIN instances : Orphaned(a) \/ a \in DOMAIN endpoints
         /\ \A a \in DOMAIN endpoints :
              a \in DOMAIN instances /\ (Orphaned(a) \/ Matches(a)))

(* What the pod's labels put into the metadata is taken for no change of the *)
(* annotation: without one, the pod has no labels but those Polaris has keys  *)
(* for anyway; with one, no label prevails over it with another value.       *)
MetadataFits(obj, labels) ==
  IF obj.meta = Null THEN DOMAIN labels \subseteq PolarisDefaultMetaSet
  ELSE obj.broken \/ \A k \in (DOMAIN obj.meta \cap DOMAIN labels) \ DOMAIN SystemMeta :
                       labels[k] = obj.meta[k]

(* The instances that the controller writes to in every resync, for ever:     *)
(* ones it does not recognise, ones whose port changed its protocol, which an *)
(* update does not send, and ones whose pod's labels do not fit: among them,  *)
(* without a metadata annotation, every pod with a label of its own.          *)
Churns(a) ==
  \/ Orphaned(a)
  \/ /\ a \in DOMAIN instances \cap DOMAIN endpoints
     /\ \/ instances[a].protocol # endpoints[a].protocol
        \/ ~MetadataFits(svc, endpoints[a].labels)

(* A service to which nothing happens is not written to: compareInstanceUpdate *)
(* and what updateInstances sends agree, except in the cases of Churns.        *)
Settles ==
  <>[](Created =>
         \A a \in sync.todo.add \cup sync.todo.update \cup sync.todo.delete : Churns(a))

(* updateService: every label of the service gets to Polaris, with the value  *)
(* it has now, though errors are only logged and users of Polaris drop labels. *)
(* (Labels the service no longer has stay in Polaris.)                        *)
LabelsConverge ==
  <>[](Created => \A k \in DOMAIN svc.labels :
                    k \in DOMAIN service /\ service[k] = svc.labels[k])

(* README.md:38, the alias is created when the service is synchronised: it is, *)
(* also one that replaces another, unless the object changes again before its  *)
(* alias is created, or creating it fails for a service cached already.        *)
AliasConverges ==
  <>[](Created /\ HasAlias(svc) => svc.alias \in aliases \cup lost)
=============================================================================
