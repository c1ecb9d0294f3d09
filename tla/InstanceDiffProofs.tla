-------------------------- MODULE InstanceDiffProofs --------------------------
(***************************************************************************)
(* Theorems about InstanceDiff and about the sync of a service that        *)
(* ServiceDetail builds on it.  Of the operators: when what                *)
(* compareInstanceUpdate looks at and what updateInstances and             *)
(* addInstances send agree, for every service, endpoint and instance, so   *)
(* that one just sent is not updated again by the next sync.  Exactly when *)
(* the pod's labels fit the metadata, and whenever they do not the code    *)
(* does update for ever (see Churns in ServiceDetail).  Of the sync: the   *)
(* shape of its state, that one sync is enough and leaves nothing for the  *)
(* next, and that no alias is lost but in the ways the code is known to    *)
(* lose one.                                                               *)
(***************************************************************************)
EXTENDS ServiceDetail, FiniteSetTheorems, TLAPS

-----------------------------------------------------------------------------
LEMMA DefaultMetaFinite == IsFiniteSet(PolarisDefaultMetaSet)
<1>1. IsFiniteSet({})
  BY FS_EmptySet
<1>2. IsFiniteSet({} \cup {"clusterName"})
  BY <1>1, FS_AddElement
<1>3. IsFiniteSet(({} \cup {"clusterName"}) \cup {"source"})
  BY <1>2, FS_AddElement
<1>4. IsFiniteSet((({} \cup {"clusterName"}) \cup {"source"}) \cup {"version"})
  BY <1>3, FS_AddElement
<1>5. IsFiniteSet(((({} \cup {"clusterName"}) \cup {"source"}) \cup {"version"}) \cup {"protocol"})
  BY <1>4, FS_AddElement
<1>6. PolarisDefaultMetaSet =
        ((({} \cup {"clusterName"}) \cup {"source"}) \cup {"version"}) \cup {"protocol"}
  BY DEF PolarisDefaultMetaSet
<1>7. QED
  BY <1>5, <1>6

(* isPolarisInstanceHasCustomMeta counts: of an instance of a service without *)
(* annotation it finds too many keys if and only if its pod has a label that  *)
(* is no default key.                                                         *)
LEMMA KeysCounted ==
  ASSUME NEW obj, NEW labels, obj.meta = Null,
         IsFiniteSet(DOMAIN labels) \/ DOMAIN labels \subseteq PolarisDefaultMetaSet
  PROVE  Cardinality(DOMAIN Stored(MergeMetadata(obj, labels)))
           > Cardinality(PolarisDefaultMetaSet)
         <=> ~(DOMAIN labels \subseteq PolarisDefaultMetaSet)
<1> DEFINE keys == PolarisDefaultMetaSet \cup DOMAIN labels
<1>1. DOMAIN Stored(MergeMetadata(obj, labels)) = keys
  BY DEF Stored, MergeMetadata, CustomMeta, NoMap, SystemMeta, PolarisDefaultMetaSet
<1>2. IsFiniteSet(keys)
  <2>1. CASE IsFiniteSet(DOMAIN labels)
    BY <2>1, DefaultMetaFinite, FS_Union
  <2>2. CASE DOMAIN labels \subseteq PolarisDefaultMetaSet
    <3>1. keys = PolarisDefaultMetaSet
      BY <2>2
    <3>2. QED
      BY <3>1, DefaultMetaFinite
  <2>3. QED
    BY <2>1, <2>2
<1>3. /\ Cardinality(PolarisDefaultMetaSet) \in Nat /\ Cardinality(keys) \in Nat
      /\ Cardinality(PolarisDefaultMetaSet) <= Cardinality(keys)
      /\ Cardinality(PolarisDefaultMetaSet) = Cardinality(keys) => PolarisDefaultMetaSet = keys
  BY <1>2, DefaultMetaFinite, FS_Subset, FS_CardinalityType
<1>4. keys = PolarisDefaultMetaSet <=> DOMAIN labels \subseteq PolarisDefaultMetaSet
  OBVIOUS
<1> HIDE DEF keys
<1>5. QED
  BY <1>1, <1>3, <1>4

(* The annotation's keys as they are registered. *)
LEMMA MergeLookup ==
  ASSUME NEW obj, NEW labels, NEW k \in DOMAIN CustomMeta(obj) \ DOMAIN SystemMeta
  PROVE  LET meta == Stored(MergeMetadata(obj, labels))
         IN  /\ k \in DOMAIN meta
             /\ meta[k] = IF k \in DOMAIN labels THEN labels[k] ELSE CustomMeta(obj)[k]
BY DEF Stored, MergeMetadata

(* Of an instance whose attributes are the ones to be had, what               *)
(* compareInstanceUpdate finds is a pod's labels that do not fit, if anything. *)
LEMMA UpdatedAgain ==
  ASSUME NEW obj, NEW spec, NEW cur,
         IsFiniteSet(DOMAIN spec.labels) \/ MetadataFits(obj, spec.labels),
         cur.healthCheck = HealthChecked(obj), cur.healthy = spec.healthy,
         cur.isolate = spec.isolate, cur.weight = spec.weight,
         cur.protocol = spec.protocol,
         cur.meta = Stored(MergeMetadata(obj, spec.labels))
  PROVE  CompareInstanceUpdate(obj, spec, cur) <=> ~MetadataFits(obj, spec.labels)
<1>1. CompareInstanceUpdate(obj, spec, cur) <=>
        \/ /\ obj.meta = Null
           /\ Cardinality(DOMAIN cur.meta) > Cardinality(PolarisDefaultMetaSet)
        \/ /\ ~obj.broken
           /\ \E k \in DOMAIN CustomMeta(obj) \ DOMAIN SystemMeta :
                k \notin DOMAIN cur.meta \/ cur.meta[k] # CustomMeta(obj)[k]
  BY DEF CompareInstanceUpdate
<1>2. CASE obj.meta = Null
  <2>1. DOMAIN CustomMeta(obj) = {}
    BY <1>2 DEF CustomMeta, NoMap
  <2>2. QED
    BY <1>1, <1>2, <2>1, KeysCounted DEF MetadataFits
<1>3. CASE obj.meta # Null
  <2>1. CustomMeta(obj) = obj.meta
    BY <1>3 DEF CustomMeta
  <2>2. ASSUME NEW k \in DOMAIN CustomMeta(obj) \ DOMAIN SystemMeta
        PROVE  (k \notin DOMAIN cur.meta \/ cur.meta[k] # CustomMeta(obj)[k])
               <=> k \in DOMAIN spec.labels /\ spec.labels[k] # obj.meta[k]
    BY <2>1, MergeLookup
  <2>3. QED
    BY <1>1, <1>3, <2>1, <2>2 DEF MetadataFits
<1>4. QED
  BY <1>2, <1>3

-----------------------------------------------------------------------------
(* compareInstanceUpdate against updateInstances: an instance that was updated *)
(* is updated again by the next sync, whatever it was before, just when its    *)
(* protocol, which is not sent, differs, or the pod's labels do not fit.       *)
THEOREM UpdateSettles ==
  ASSUME NEW obj, NEW spec, NEW old, IsFiniteSet(DOMAIN spec.labels)
  PROVE  CompareInstanceUpdate(obj, spec, UpdatedInstance(obj, spec, old))
           <=> old.protocol # spec.protocol \/ ~MetadataFits(obj, spec.labels)
<1> DEFINE cur == UpdatedInstance(obj, spec, old)
<1>1. /\ cur.healthCheck = HealthChecked(obj) /\ cur.healthy = spec.healthy
      /\ cur.isolate = spec.isolate /\ cur.weight = spec.weight
      /\ cur.protocol = old.protocol
      /\ cur.meta = Stored(MergeMetadata(obj, spec.labels))
  BY DEF UpdatedInstance, NewInstance
<1> HIDE DEF cur
<1>2. CASE old.protocol = spec.protocol
  BY <1>1, <1>2, UpdatedAgain DEF cur
<1>3. CASE old.protocol # spec.protocol
  BY <1>1, <1>3 DEF CompareInstanceUpdate, cur
<1>4. QED
  BY <1>2, <1>3

LEMMA AddedFits ==
  ASSUME NEW obj, NEW spec, spec.healthy = TRUE, ~HealthChecked(obj),
         IsFiniteSet(DOMAIN spec.labels) \/ MetadataFits(obj, spec.labels)
  PROVE  CompareInstanceUpdate(obj, spec, NewInstance(obj, spec))
           <=> ~MetadataFits(obj, spec.labels)
<1> DEFINE cur == NewInstance(obj, spec)
<1>1. /\ cur.healthCheck = HealthChecked(obj) /\ cur.healthy = spec.healthy
      /\ cur.isolate = spec.isolate /\ cur.weight = spec.weight
      /\ cur.protocol = spec.protocol
      /\ cur.meta = Stored(MergeMetadata(obj, spec.labels))
  BY DEF NewInstance
<1>2. QED
  BY <1>1, UpdatedAgain

(* addInstances: an instance that was added is updated by the next sync just  *)
(* when it has a health check, with which it is added unhealthy, or the pod's *)
(* labels do not fit.                                                         *)
THEOREM AddSettles ==
  ASSUME NEW obj, NEW spec, spec.healthy = TRUE, IsFiniteSet(DOMAIN spec.labels)
  PROVE  CompareInstanceUpdate(obj, spec, NewInstance(obj, spec))
           <=> HealthChecked(obj) \/ ~MetadataFits(obj, spec.labels)
<1> DEFINE cur == NewInstance(obj, spec)
<1>1. HealthChecked(obj) => cur.healthy # spec.healthy
  BY DEF NewInstance
<1> HIDE DEF cur
<1>2. CASE HealthChecked(obj)
  BY <1>1, <1>2 DEF CompareInstanceUpdate, cur
<1>3. CASE ~HealthChecked(obj)
  BY <1>3, AddedFits
<1>4. QED
  BY <1>2, <1>3

-----------------------------------------------------------------------------
(* The shape of the state.  What the worker has is kept apart from the rest,  *)
(* which most of its steps leave alone.                                       *)
NoNull(f) == Null \notin {f[k] : k \in DOMAIN f}
Sending == {"add", "update", "delete"}
Steps == {"load", "create", "create alias", "update alias", "get", "put", "read", "store"}
         \cup Calls
WorkerTyped ==
  /\ DOMAIN sync = DOMAIN Idle
  /\ sync.pc \in Steps \cup {"idle"}
  /\ sync.pc = "idle" <=> sync.obj = NoSvc
  /\ sync.pc # "idle" => sync.obj \in Objects
  /\ sync.pc = "create alias" => HasAlias(sync.obj)
  /\ sync.pc = "put" => NoNull(sync.labels)
  /\ sync.pc \in Sending => DOMAIN sync.spec \subseteq Addrs
  /\ sync.todo.add \cup sync.todo.update \subseteq DOMAIN sync.spec
RestTyped ==
  /\ svc \in Objects
  /\ DOMAIN endpoints \subseteq Addrs
  /\ service # Null => NoNull(service)
  /\ aliases \subseteq {obj.alias : obj \in Objects} \ {Null}
  /\ DOMAIN instances \subseteq Addrs
  /\ serviceCache \in Objects \cup {NoSvc}
TInv == WorkerTyped /\ RestTyped

LEMMA OverLabels ==
  ASSUME NEW f, NEW g, NoNull(f), NoNull(g)
  PROVE  NoNull(Over(f, g))
BY DEF Over, NoNull

LEMMA OverDomain ==
  ASSUME NEW f, NEW g
  PROVE  /\ DOMAIN Over(f, g) = DOMAIN f \cup DOMAIN g
         /\ \A k \in DOMAIN f : Over(f, g)[k] = f[k]
         /\ \A k \in DOMAIN g \ DOMAIN f : Over(f, g)[k] = g[k]
BY DEF Over

LEMMA TInvSuffices == TInv => TypeOK
BY DEF TInv, WorkerTyped, RestTyped, TypeOK, NoNull, Steps

LEMMA InitTInv == ASSUME Init PROVE TInv
<1>1. \A k \in DOMAIN NoMap : FALSE
  BY DEF NoMap
<1>2. DOMAIN endpoints \subseteq Addrs /\ DOMAIN instances \subseteq Addrs
  BY <1>1 DEF Init
<1>3. sync = Idle /\ sync.pc = "idle" /\ sync.obj = NoSvc /\ sync.todo.add = {}
      /\ sync.todo.update = {}
  BY DEF Init, Idle, Nothing
<1>4. QED
  BY <1>2, <1>3 DEF Init, TInv, WorkerTyped, RestTyped, Sending

LEMMA EnvironmentTInv ==
  ASSUME TInv, Environment
  PROVE  TInv'
<1>1. UNCHANGED sync
  BY DEF Environment, ChangeService, RemoveEndpoint, MissHeartbeat, ChangeEndpoint, DropLabel
<1>2. WorkerTyped'
  BY <1>1 DEF TInv, WorkerTyped
<1>3. CASE \E obj \in Objects : ChangeService(obj)
  BY <1>2, <1>3 DEF ChangeService, TInv, RestTyped, polarisVars
<1>4. CASE \E a \in Addrs : RemoveEndpoint(a)
  BY <1>2, <1>4 DEF RemoveEndpoint, TInv, RestTyped, polarisVars
<1>5. CASE \E a \in Addrs : MissHeartbeat(a)
  BY <1>2, <1>5 DEF MissHeartbeat, TInv, RestTyped, k8sVars
<1>6. CASE \E a \in Addrs : \E e \in Endpoints : ChangeEndpoint(a, e)
  <2>1. PICK a \in Addrs, e \in Endpoints : ChangeEndpoint(a, e)
    BY <1>6
  <2> DEFINE new == [b \in {a} |-> e]
  <2>2. DOMAIN new = {a} /\ endpoints' = Over(new, endpoints)
    BY <2>1 DEF ChangeEndpoint
  <2> HIDE DEF new
  <2>3. DOMAIN endpoints' = {a} \cup DOMAIN endpoints
    BY <2>2, OverDomain
  <2>4. QED
    BY <1>2, <2>1, <2>3 DEF ChangeEndpoint, TInv, RestTyped, polarisVars
<1>7. CASE \E k \in LabelKeys : DropLabel(k)
  <2>1. PICK k \in LabelKeys : DropLabel(k)
    BY <1>7
  <2>2. NoNull(service')
    BY <2>1 DEF DropLabel, TInv, RestTyped, NoNull
  <2>3. QED
    BY <1>2, <2>1, <2>2 DEF DropLabel, TInv, RestTyped, k8sVars
<1>8. QED
  BY <1>3, <1>4, <1>5, <1>6, <1>7 DEF Environment

(* The worker ends its task, or goes on to its next step. *)
LEMMA IdleTyped == ASSUME sync' = Idle PROVE WorkerTyped'
BY DEF WorkerTyped, Idle, Nothing, Sending

LEMMA StepTyped ==
  ASSUME WorkerTyped, sync.pc # "idle", NEW pc \in Steps, GoesOn(pc),
         pc = "create alias" => HasAlias(sync.obj), pc # "put",
         pc \in Sending => sync.pc \in Sending
  PROVE  WorkerTyped'
<1>1. /\ DOMAIN sync' = DOMAIN Idle /\ sync'.pc = pc /\ sync'.obj = sync.obj
      /\ sync'.spec = sync.spec /\ sync'.todo = sync.todo
  BY DEF GoesOn, WorkerTyped, Idle
<1>2. "idle" \notin Steps
  BY DEF Steps, Calls
<1>3. QED
  BY <1>1, <1>2 DEF WorkerTyped

LEMMA RestKept ==
  ASSUME RestTyped, UNCHANGED <<k8sVars, polarisVars, serviceCache>>
  PROVE  RestTyped'
BY DEF RestTyped, k8sVars, polarisVars

LEMMA SyncTInv ==
  ASSUME TInv, SyncService
  PROVE  TInv'
<1>1. CASE TakeTask
  <2>1. sync' = [sync EXCEPT !.pc = "load", !.obj = svc, !.since = used]
    BY <1>1 DEF TakeTask
  <2>2. /\ DOMAIN sync' = DOMAIN Idle /\ sync'.pc = "load" /\ sync'.obj = svc
        /\ sync'.spec = sync.spec /\ sync'.todo = sync.todo
    BY <2>1 DEF TInv, WorkerTyped, Idle
  <2>3. svc \in Objects /\ svc # NoSvc
    BY ServiceDetailAssumption DEF ServiceDetailAssumption, TInv, RestTyped
  <2>4. WorkerTyped'
    BY <2>2, <2>3 DEF TInv, WorkerTyped, Steps, Sending
  <2>5. QED
    BY <1>1, <2>4, RestKept DEF TakeTask, TInv, workerUnchanged
<1>2. CASE LoadCache
  <2>1. PICK pc \in {"create", "update alias"} :
          sync' = [sync EXCEPT !.cached = serviceCache, !.pc = pc]
    BY <1>2 DEF LoadCache
  <2>2. /\ DOMAIN sync' = DOMAIN Idle /\ sync'.pc = pc /\ sync'.obj = sync.obj
        /\ sync'.spec = sync.spec /\ sync'.todo = sync.todo
    BY <2>1 DEF TInv, WorkerTyped, Idle
  <2>3. WorkerTyped'
    BY <1>2, <2>2 DEF LoadCache, TInv, WorkerTyped, Steps, Sending
  <2>4. QED
    BY <1>2, <2>3, RestKept DEF LoadCache, TInv, workerUnchanged
<1>3. CASE CreateService
  <2>1. WorkerTyped'
    <3>1. CASE sync' = Idle
      BY <3>1, IdleTyped
    <3>2. CASE GoesOn("create alias") /\ HasAlias(sync.obj)
      BY <1>3, <3>2, StepTyped DEF CreateService, TInv, Steps, Sending
    <3>3. CASE GoesOn("read")
      BY <1>3, <3>3, StepTyped DEF CreateService, TInv, Steps, Sending
    <3>4. QED
      BY <1>3, <3>1, <3>2, <3>3 DEF CreateService
  <2>2. sync.obj \in Objects
    BY <1>3 DEF CreateService, TInv, WorkerTyped
  <2>3. service' = service \/ service' = sync.obj.labels
    BY <1>3 DEF CreateService
  <2>4. service' # Null => NoNull(service')
    BY <2>2, <2>3, ServiceDetailAssumption
       DEF ServiceDetailAssumption, TInv, RestTyped, NoNull
  <2>5. QED
    BY <1>3, <2>1, <2>4 DEF CreateService, TInv, RestTyped, workerUnchanged, k8sVars
<1>4. CASE CreateAlias
  <2>1. WorkerTyped'
    <3>1. sync' = Idle \/ GoesOn("read")
      BY <1>4 DEF CreateAlias
    <3>2. QED
      BY <1>4, <3>1, IdleTyped, StepTyped DEF CreateAlias, TInv, Steps, Sending
  <2>2. sync.obj \in Objects /\ sync.obj.alias # Null
    BY <1>4 DEF CreateAlias, TInv, WorkerTyped, HasAlias
  <2>3. QED
    BY <1>4, <2>1, <2>2
       DEF CreateAlias, CreateServiceAlias, TInv, RestTyped, workerUnchanged, k8sVars, polarisVars
<1>5. CASE UpdateAlias
  <2>1. WorkerTyped'
    BY <1>5, StepTyped DEF UpdateAlias, TInv, Steps, Sending, Calls
  <2>2. sync.obj \in Objects
    BY <1>5 DEF UpdateAlias, TInv, WorkerTyped
  <2>3. CASE CreateServiceAlias /\ sync.obj.alias # Null
    BY <2>1, <2>2, <2>3 DEF CreateServiceAlias, TInv, RestTyped, k8sVars
  <2>4. CASE UNCHANGED <<k8sVars, polarisVars, serviceCache>>
    BY <2>1, <2>4, RestKept DEF TInv
  <2>5. QED
    BY <1>5, <2>3, <2>4
       DEF UpdateAlias, IfNeedCreateServiceAlias, HasAlias, workerUnchanged
<1>6. CASE GetService
  <2>1. CASE sync' = [sync EXCEPT !.pc = "put", !.labels = Over(sync.obj.labels, service)]
             /\ service # Null
    <3>1. sync.obj \in Objects
      BY <1>6 DEF GetService, TInv, WorkerTyped
    <3>2. NoNull(Over(sync.obj.labels, service))
      BY <2>1, <3>1, OverLabels, ServiceDetailAssumption
         DEF ServiceDetailAssumption, TInv, RestTyped, NoNull
    <3>3. /\ DOMAIN sync' = DOMAIN Idle /\ sync'.pc = "put" /\ sync'.obj = sync.obj
          /\ sync'.spec = sync.spec /\ sync'.todo = sync.todo
          /\ sync'.labels = Over(sync.obj.labels, service)
      BY <2>1 DEF TInv, WorkerTyped, Idle
    <3>4. WorkerTyped'
      BY <1>6, <3>2, <3>3 DEF GetService, TInv, WorkerTyped, Steps, Sending, Calls
    <3>5. QED
      BY <1>6, <3>4, RestKept DEF GetService, TInv, workerUnchanged
  <2>2. CASE GoesOn("read")
    <3>1. WorkerTyped'
      BY <1>6, <2>2, StepTyped DEF GetService, TInv, Steps, Sending
    <3>2. QED
      BY <1>6, <3>1, RestKept DEF GetService, TInv, workerUnchanged
  <2>3. QED
    BY <1>6, <2>1, <2>2 DEF GetService
<1>7. CASE PutService
  <2>1. WorkerTyped'
    BY <1>7, StepTyped DEF PutService, TInv, Steps, Sending
  <2>2. service' # Null => NoNull(service')
    BY <1>7 DEF PutService, TInv, WorkerTyped, RestTyped
  <2>3. QED
    BY <1>7, <2>1, <2>2 DEF PutService, TInv, RestTyped, workerUnchanged, k8sVars
<1>8. CASE CompareAll
  <2> DEFINE spec == Expected(sync.obj, endpoints)
  <2>1. PICK view :
          sync' = [sync EXCEPT !.pc = "add", !.spec = spec,
                     !.todo = CompareInstance(sync.obj, spec, Registered(view))]
    BY <1>8 DEF CompareAll
  <2>2. DOMAIN spec \subseteq Addrs
    BY DEF Expected, TInv, RestTyped
  <2> HIDE DEF spec
  <2>3. /\ DOMAIN sync' = DOMAIN Idle /\ sync'.pc = "add" /\ sync'.obj = sync.obj
        /\ sync'.spec = spec
        /\ sync'.todo = CompareInstance(sync.obj, spec, Registered(view))
    BY <2>1 DEF TInv, WorkerTyped, Idle
  <2>4. sync'.todo.add \cup sync'.todo.update \subseteq DOMAIN spec
    BY <2>3 DEF CompareInstance
  <2>5. sync.pc = "read"
    BY <1>8 DEF CompareAll
  <2>6. WorkerTyped'
    BY <2>2, <2>3, <2>4, <2>5 DEF TInv, WorkerTyped, Steps, Calls
  <2>7. QED
    BY <1>8, <2>6, RestKept DEF CompareAll, TInv, workerUnchanged
<1>9. CASE AddInstances \/ UpdateInstances \/ DeleteInstances
  <2>1. PICK next \in {"update", "delete", "store"} : sync.pc \in Sending /\ GoesOn(next)
    BY <1>9 DEF AddInstances, UpdateInstances, DeleteInstances, Send, Sending
  <2>2. WorkerTyped'
    BY <2>1, StepTyped DEF TInv, Steps, Sending, Calls
  <2>3. DOMAIN instances' \subseteq Addrs
    <3>1. sync.todo.add \subseteq Addrs
      BY <2>1 DEF TInv, WorkerTyped
    <3>2. CASE AddInstances
      <4> DEFINE new == [a \in sync.todo.add |-> NewInstance(sync.obj, sync.spec[a])]
      <4>1. DOMAIN new = sync.todo.add
            /\ (instances' = instances \/ instances' = Over(instances, new))
        BY <3>2 DEF AddInstances, Send
      <4> HIDE DEF new
      <4>2. DOMAIN Over(instances, new) = DOMAIN instances \cup DOMAIN new
        BY OverDomain
      <4>3. QED
        BY <3>1, <4>1, <4>2 DEF TInv, RestTyped
    <3>3. CASE UpdateInstances \/ DeleteInstances
      BY <3>3 DEF UpdateInstances, DeleteInstances, Send, TInv, RestTyped
    <3>4. QED
      BY <1>9, <3>2, <3>3
  <2>4. UNCHANGED <<svc, endpoints, service, aliases, serviceCache>>
    BY <1>9 DEF AddInstances, UpdateInstances, DeleteInstances, Send, workerUnchanged, k8sVars
  <2>5. QED
    BY <2>2, <2>3, <2>4 DEF TInv, RestTyped
<1>10. CASE StoreCache
  <2>1. WorkerTyped'
    BY <1>10, IdleTyped DEF StoreCache
  <2>2. sync.obj \in Objects
    BY <1>10 DEF StoreCache, TInv, WorkerTyped
  <2>3. QED
    BY <1>10, <2>1, <2>2
       DEF StoreCache, TInv, RestTyped, workerUnchanged, k8sVars, polarisVars
<1>11. QED
  BY <1>1, <1>2, <1>3, <1>4, <1>5, <1>6, <1>7, <1>8, <1>9, <1>10 DEF SyncService

LEMMA TInvStep == ASSUME TInv, [Next]_vars PROVE TInv'
<1>1. CASE UNCHANGED vars
  BY <1>1 DEF vars, k8sVars, polarisVars, TInv, WorkerTyped, RestTyped
<1>2. QED
  BY <1>1, EnvironmentTInv, SyncTInv DEF Next

(* syncService: the worker has a service while it has a task; it is about to   *)
(* write attributes only to addresses it has expected attributes for, and only *)
(* aliases the service has had, whatever changed or failed meanwhile.          *)
THEOREM DetailTypeCorrect == Spec => []TypeOK
<1>1. TInv /\ [Next]_vars => TInv'
  BY TInvStep
<1>2. Init => TInv
  BY InitTInv
<1>3. QED
  BY <1>1, <1>2, TInvSuffices, PTL DEF Spec

-----------------------------------------------------------------------------
(* One sync is enough.  What is to be done, as it was computed, and what is   *)
(* left of it when each of the batches has been sent.                         *)
Counters == {"changes", "edits", "beats", "faults"}
ClockOk ==
  /\ used \in [Counters -> Nat] /\ sync.since \in [Counters -> Nat]
  /\ \A c \in Counters : sync.since[c] <= used[c]

(* The service that is synced is as it is now, and so is what is expected.    *)
Current ==
  /\ sync.pc # "idle" => sync.obj = svc
  /\ sync.pc \in Sending \cup {"store"} => sync.spec = Expected(svc, endpoints)

AsExpected(a) ==
  a \in DOMAIN instances
    /\ (Orphaned(a) \/ (HasAttributes(a) /\ (instances[a].healthy \/ a \in sync.todo.add)))
Surplus(a) == ~Orphaned(a) /\ a \notin DOMAIN endpoints

LeftToAdd == sync.todo = CompareInstance(svc, sync.spec, Registered(instances))
LeftToUpdate == \A a \in DOMAIN endpoints :
                  a \in DOMAIN instances /\ (a \in sync.todo.update \/ AsExpected(a))
LeftToDelete ==
  /\ sync.todo.delete \cap DOMAIN endpoints = {}
  /\ \A a \in DOMAIN instances : Surplus(a) => a \in sync.todo.delete

Stage ==
  /\ sync.pc = "add" => LeftToAdd
  /\ sync.pc = "update" /\ Created => LeftToUpdate /\ LeftToDelete
  /\ sync.pc = "delete" /\ Created =>
       /\ \A a \in DOMAIN endpoints : AsExpected(a)
       /\ LeftToDelete
  /\ sync.pc = "store" /\ Created =>
       /\ \A a \in DOMAIN endpoints : AsExpected(a)
       /\ \A a \in DOMAIN instances : ~Surplus(a)

EInv == ClockOk /\ (Undisturbed => Current /\ Stage)

LEMMA InitEInv == ASSUME Init PROVE EInv
<1>1. sync = Idle /\ used = NoneUsed
  BY DEF Init
<1>2. NoneUsed \in [Counters -> Nat] /\ \A c \in Counters : NoneUsed[c] <= NoneUsed[c]
  BY DEF NoneUsed, Counters
<1>3. sync.pc = "idle" /\ sync.since = NoneUsed
  BY <1>1 DEF Idle
<1>4. QED
  BY <1>1, <1>2, <1>3 DEF EInv, ClockOk, Current, Stage, Sending

LEMMA ExactInv == EInv => SyncExact
BY DEF EInv, Stage, SyncExact, AsExpected, Surplus

(* A change or a failing call disturbs the sync it falls into. *)
LEMMA UseDisturbs ==
  ASSUME ClockOk, NEW c \in Counters, NEW max, Use(c, max), sync'.since = sync.since
  PROVE  EInv' /\ ~Undisturbed'
<1>1. used' = [used EXCEPT ![c] = used[c] + 1]
  BY DEF Use
<1>2. used[c] \in Nat /\ sync.since[c] \in Nat /\ sync.since[c] <= used[c]
  BY DEF ClockOk
<1>3. /\ used' \in [Counters -> Nat] /\ used'[c] = used[c] + 1
      /\ \A d \in Counters : used[d] \in Nat /\ sync.since[d] \in Nat
                             /\ (d # c => used'[d] = used[d])
  BY <1>1, <1>2 DEF ClockOk
<1>4. used' # sync.since
  BY <1>2, <1>3
<1>5. \A d \in Counters : sync.since[d] <= used'[d]
  BY <1>2, <1>3 DEF ClockOk
<1>6. QED
  BY <1>3, <1>4, <1>5 DEF EInv, ClockOk, Undisturbed

LEMMA EnvironmentEInv ==
  ASSUME EInv, Environment
  PROVE  EInv'
<1>1. UNCHANGED sync
  BY DEF Environment, ChangeService, RemoveEndpoint, MissHeartbeat, ChangeEndpoint, DropLabel
<1>2. \E c \in Counters, max \in {MaxChanges, MaxEdits, MaxBeats} : Use(c, max)
  BY DEF Environment, ChangeService, RemoveEndpoint, MissHeartbeat, ChangeEndpoint, DropLabel,
         Counters
<1>3. QED
  BY <1>1, <1>2, UseDisturbs DEF EInv

(* A failing call ends the task or leaves the worker's record as it is. *)
LEMMA FailureEInv ==
  ASSUME TInv, EInv, NEW call, Fails(call), NEW pc, sync' = Idle \/ GoesOn(pc)
  PROVE  EInv'
<1>1. Use("faults", MaxFaults) /\ "faults" \in Counters
  BY DEF Fails, Counters
<1>2. CASE sync' = Idle
  <2>1. sync'.pc = "idle" /\ sync'.since = NoneUsed
    BY <1>2 DEF Idle
  <2>2. used' = [used EXCEPT !["faults"] = used["faults"] + 1]
    BY <1>1 DEF Use
  <2>3. used' \in [Counters -> Nat]
    BY <1>1, <2>2 DEF EInv, ClockOk
  <2>4. NoneUsed \in [Counters -> Nat] /\ \A c \in Counters : NoneUsed[c] = 0
    BY DEF NoneUsed, Counters
  <2>5. \A c \in Counters : NoneUsed[c] <= used'[c]
    BY <2>3, <2>4
  <2>6. QED
    BY <2>1, <2>3, <2>4, <2>5 DEF EInv, ClockOk, Current, Stage, Sending
<1>3. CASE GoesOn(pc)
  <2>1. sync'.since = sync.since
    BY <1>3 DEF GoesOn, TInv, WorkerTyped, Idle
  <2>2. QED
    BY <1>1, <2>1, UseDisturbs DEF EInv
<1>4. QED
  BY <1>2, <1>3

(* Steps before the instances are compared. *)
LEMMA EarlyStep ==
  ASSUME EInv, UNCHANGED <<svc, used>>, sync.pc # "idle",
         sync'.since = sync.since, sync'.obj = sync.obj,
         sync'.pc \notin Sending \cup {"store"}
  PROVE  EInv'
BY DEF EInv, ClockOk, Undisturbed, Current, Stage, Sending

LEMMA TaskEnds ==
  ASSUME EInv, UNCHANGED used, sync' = Idle
  PROVE  EInv'
<1>1. sync'.pc = "idle" /\ sync'.since = NoneUsed
  BY DEF Idle
<1>2. NoneUsed \in [Counters -> Nat] /\ \A c \in Counters : NoneUsed[c] = 0
  BY DEF NoneUsed, Counters
<1>3. \A c \in Counters : NoneUsed[c] <= used'[c]
  BY <1>2 DEF EInv, ClockOk
<1>4. QED
  BY <1>1, <1>2, <1>3 DEF EInv, ClockOk, Current, Stage, Sending

LEMMA Going ==
  ASSUME TInv, NEW pc, GoesOn(pc)
  PROVE  /\ sync'.pc = pc /\ sync'.obj = sync.obj /\ sync'.since = sync.since
         /\ sync'.spec = sync.spec /\ sync'.todo = sync.todo
BY DEF GoesOn, TInv, WorkerTyped, Idle

LEMMA EarlyEInv ==
  ASSUME TInv, EInv,
         TakeTask \/ LoadCache \/ CreateService \/ CreateAlias \/ UpdateAlias \/ GetService
         \/ PutService
  PROVE  EInv'
<1>1. CASE TakeTask
  <2>1. sync' = [sync EXCEPT !.pc = "load", !.obj = svc, !.since = used]
        /\ UNCHANGED <<svc, used>>
    BY <1>1 DEF TakeTask, workerUnchanged, k8sVars
  <2>2. sync'.pc = "load" /\ sync'.obj = svc /\ sync'.since = used
    BY <2>1 DEF TInv, WorkerTyped, Idle
  <2>3. \A c \in Counters : used[c] <= used[c]
    BY DEF EInv, ClockOk
  <2>4. QED
    BY <2>1, <2>2, <2>3 DEF EInv, ClockOk, Current, Stage, Sending
<1>2. CASE LoadCache
  <2>1. PICK pc \in {"create", "update alias"} :
          sync' = [sync EXCEPT !.cached = serviceCache, !.pc = pc]
    BY <1>2 DEF LoadCache
  <2>2. sync'.pc = pc /\ sync'.obj = sync.obj /\ sync'.since = sync.since
    BY <2>1 DEF TInv, WorkerTyped, Idle
  <2>3. sync.pc # "idle" /\ UNCHANGED <<svc, used>>
    BY <1>2 DEF LoadCache, workerUnchanged, k8sVars
  <2>4. QED
    BY <2>2, <2>3, EarlyStep DEF Sending
<1>3. CASE CreateService
  <2>1. PICK pc \in {"create alias", "read"} :
          \/ GoesOn(pc) /\ UNCHANGED used
          \/ Fails("service") /\ sync' = Idle
    BY <1>3 DEF CreateService
  <2>2. sync.pc # "idle" /\ UNCHANGED svc
    BY <1>3 DEF CreateService, workerUnchanged, k8sVars
  <2>3. QED
    BY <2>1, <2>2, EarlyStep, Going, FailureEInv DEF Sending
<1>4. CASE CreateAlias
  <2>1. \/ GoesOn("read") /\ UNCHANGED used
        \/ Fails("alias") /\ sync' = Idle
    BY <1>4 DEF CreateAlias, CreateServiceAlias
  <2>2. sync.pc # "idle" /\ UNCHANGED svc
    BY <1>4 DEF CreateAlias, CreateServiceAlias, workerUnchanged, k8sVars
  <2>3. QED
    BY <2>1, <2>2, EarlyStep, Going, FailureEInv DEF Sending
<1>5. CASE UpdateAlias
  <2>1. GoesOn("get") /\ (UNCHANGED used \/ Fails("alias"))
    BY <1>5 DEF UpdateAlias, CreateServiceAlias
  <2>2. sync.pc # "idle" /\ UNCHANGED svc
    BY <1>5 DEF UpdateAlias, CreateServiceAlias, workerUnchanged, k8sVars
  <2>3. QED
    BY <2>1, <2>2, EarlyStep, Going, FailureEInv DEF Sending
<1>6. CASE GetService
  <2>1. sync.pc # "idle" /\ UNCHANGED svc
    BY <1>6 DEF GetService, workerUnchanged, k8sVars
  <2>2. CASE GoesOn("read") /\ (UNCHANGED used \/ Fails("get"))
    BY <2>1, <2>2, EarlyStep, Going, FailureEInv DEF Sending
  <2>3. CASE UNCHANGED used
             /\ sync' = [sync EXCEPT !.pc = "put", !.labels = Over(sync.obj.labels, service)]
    <3>1. sync'.pc = "put" /\ sync'.obj = sync.obj /\ sync'.since = sync.since
      BY <2>3 DEF TInv, WorkerTyped, Idle
    <3>2. QED
      BY <2>1, <2>3, <3>1, EarlyStep DEF Sending
  <2>4. QED
    BY <1>6, <2>2, <2>3 DEF GetService
<1>7. CASE PutService
  <2>1. GoesOn("read") /\ (UNCHANGED used \/ Fails("put"))
    BY <1>7 DEF PutService
  <2>2. sync.pc # "idle" /\ UNCHANGED svc
    BY <1>7 DEF PutService, workerUnchanged, k8sVars
  <2>3. QED
    BY <2>1, <2>2, EarlyStep, Going, FailureEInv DEF Sending
<1>8. QED
  BY <1>1, <1>2, <1>3, <1>4, <1>5, <1>6, <1>7

LEMMA CompareEInv ==
  ASSUME TInv, EInv, CompareAll
  PROVE  EInv'
<1> DEFINE spec == Expected(sync.obj, endpoints)
<1>1. PICK view \in {instances, NoMap} :
        /\ \/ view = instances /\ UNCHANGED used
           \/ Fails("query")
        /\ sync' = [sync EXCEPT !.pc = "add", !.spec = spec,
                      !.todo = CompareInstance(sync.obj, spec, Registered(view))]
  BY DEF CompareAll
<1>2. sync.pc = "read" /\ UNCHANGED <<svc, endpoints, instances>>
  BY DEF CompareAll, workerUnchanged, k8sVars, polarisVars
<1> HIDE DEF spec
<1>3. /\ sync'.pc = "add" /\ sync'.obj = sync.obj /\ sync'.since = sync.since
      /\ sync'.spec = spec
      /\ sync'.todo = CompareInstance(sync.obj, spec, Registered(view))
  BY <1>1 DEF TInv, WorkerTyped, Idle
<1>4. CASE Fails("query")
  BY <1>3, <1>4, UseDisturbs DEF Fails, Counters, EInv
<1>5. CASE view = instances /\ UNCHANGED used
  <2>1. ClockOk' /\ (Undisturbed' => Undisturbed)
    BY <1>3, <1>5 DEF EInv, ClockOk, Undisturbed
  <2>2. ASSUME Undisturbed
        PROVE  Current' /\ Stage'
    <3>1. sync.obj = svc
      BY <1>2, <2>2 DEF EInv, Current
    <3>2. Current'
      BY <1>2, <1>3, <3>1 DEF Current, spec
    <3>3. Registered(instances)' = Registered(instances)
      BY <1>2
    <3>4. LeftToAdd'
      BY <1>2, <1>3, <1>5, <3>1, <3>3 DEF LeftToAdd
    <3>5. QED
      BY <1>3, <3>2, <3>4 DEF Stage
  <2>3. QED
    BY <2>1, <2>2 DEF EInv
<1>6. QED
  BY <1>1, <1>4, <1>5

(* What makes an instance as it should be: what is expected of its address,    *)
(* having been found not to need an update, and having been sent.              *)
LEMMA SpecOf ==
  ASSUME NEW a \in DOMAIN endpoints
  PROVE  /\ a \in DOMAIN Expected(svc, endpoints)
         /\ Expected(svc, endpoints)[a].healthy = TRUE
         /\ Expected(svc, endpoints)[a].labels = endpoints[a].labels
BY DEF Expected

LEMMA FoundRight ==
  ASSUME NEW a \in DOMAIN endpoints,
         ~CompareInstanceUpdate(svc, Expected(svc, endpoints)[a], instances[a])
  PROVE  HasAttributes(a) /\ instances[a].healthy
BY SpecOf DEF CompareInstanceUpdate, HasAttributes, Asked

LEMMA SentRight ==
  ASSUME NEW a \in DOMAIN endpoints, NEW cur,
         cur.healthCheck = HealthChecked(svc),
         cur.isolate = Expected(svc, endpoints)[a].isolate,
         cur.weight = Expected(svc, endpoints)[a].weight,
         cur.meta = Stored(MergeMetadata(svc, Expected(svc, endpoints)[a].labels)),
         UNCHANGED <<svc, endpoints>>, instances'[a] = cur
  PROVE  HasAttributes(a)'
<1> DEFINE labels == endpoints[a].labels
           meta == Stored(MergeMetadata(svc, labels))
<1>1. cur.meta = meta
  BY SpecOf
<1>2. \A k \in Asked(a) : k \in DOMAIN meta /\ meta[k] = CustomMeta(svc)[k]
  BY DEF Asked, MergeMetadata, Stored
<1> HIDE DEF meta
<1>3. Asked(a)' = Asked(a) /\ CustomMeta(svc)' = CustomMeta(svc)
      /\ Expected(svc, endpoints)' = Expected(svc, endpoints)
      /\ HealthChecked(svc)' = HealthChecked(svc)
  BY DEF Asked
<1>4. \A k \in Asked(a)' : k \in DOMAIN cur.meta /\ cur.meta[k] = CustomMeta(svc)'[k]
  BY <1>1, <1>2, <1>3
<1>5. QED
  BY <1>3, <1>4 DEF HasAttributes

(* An instance that a batch leaves alone stays as it was. *)
LEMMA LeftAlone ==
  ASSUME NEW a \in DOMAIN instances, a \in DOMAIN instances', instances'[a] = instances[a],
         UNCHANGED <<svc, endpoints>>
  PROVE  Orphaned(a)' = Orphaned(a) /\ HasAttributes(a)' = HasAttributes(a)
         /\ Surplus(a)' = Surplus(a)
<1>1. Orphaned(a)' = Orphaned(a)
  BY DEF Orphaned
<1>2. HasAttributes(a)' = HasAttributes(a)
  BY DEF HasAttributes, Asked
<1>3. Surplus(a)' = Surplus(a)
  BY <1>1 DEF Surplus
<1>4. QED
  BY <1>1, <1>2, <1>3

(* A batch that is sent in the course of an undisturbed sync. *)
LEMMA SendEInv ==
  ASSUME TInv, EInv, NEW call \in Sending, NEW next \in {"update", "delete", "store"}, NEW result,
         Send(call, next, result),
         Undisturbed /\ instances' = result => Stage'
  PROVE  EInv'
<1>1. GoesOn(next) /\ sync.pc = call /\ UNCHANGED <<svc, endpoints>>
  BY DEF Send, workerUnchanged, k8sVars
<1>2. CASE Fails(call)
  BY <1>1, <1>2, FailureEInv
<1>3. CASE instances' = result /\ UNCHANGED used
  <2>1. /\ sync'.pc = next /\ sync'.obj = sync.obj /\ sync'.since = sync.since
        /\ sync'.spec = sync.spec
    BY <1>1, Going
  <2>2. ClockOk' /\ (Undisturbed' => Undisturbed)
    BY <1>3, <2>1 DEF EInv, ClockOk, Undisturbed
  <2>3. Undisturbed => Current'
    BY <1>1, <2>1 DEF EInv, Current, Sending
  <2>4. QED
    BY <1>3, <2>2, <2>3 DEF EInv
<1>4. QED
  BY <1>2, <1>3 DEF Send

(* What the first batch makes of the instances, and what was found for it. *)
LEMMA AddSent ==
  ASSUME TInv, EInv, Undisturbed, sync.pc = "add",
         instances' = Over(instances, [a \in sync.todo.add |->
                                         NewInstance(sync.obj, sync.spec[a])])
  PROVE  /\ DOMAIN instances' = DOMAIN instances \cup sync.todo.add
         /\ \A a \in DOMAIN instances : instances'[a] = instances[a]
         /\ \A a \in sync.todo.add \ DOMAIN instances :
              instances'[a] = NewInstance(svc, Expected(svc, endpoints)[a])
         /\ sync.todo.add = DOMAIN endpoints \ {a \in DOMAIN instances : ~Orphaned(a)}
         /\ sync.todo.delete = {a \in DOMAIN instances : ~Orphaned(a)} \ DOMAIN endpoints
         /\ \A a \in DOMAIN endpoints : a \in DOMAIN instances /\ ~Orphaned(a) =>
              \/ a \in sync.todo.update
              \/ ~CompareInstanceUpdate(svc, Expected(svc, endpoints)[a], instances[a])
<1> DEFINE spec == Expected(svc, endpoints)
           new == [a \in sync.todo.add |-> NewInstance(sync.obj, sync.spec[a])]
<1>1. sync.obj = svc /\ sync.spec = spec /\ DOMAIN spec = DOMAIN endpoints
      /\ sync.todo = CompareInstance(svc, spec, Registered(instances))
  BY DEF EInv, Current, Sending, Stage, LeftToAdd, Expected
<1>2. DOMAIN new = sync.todo.add /\ \A a \in sync.todo.add : new[a] = NewInstance(svc, spec[a])
  BY <1>1
<1>3. instances' = Over(instances, new)
  OBVIOUS
<1> HIDE DEF new, spec
<1>4. /\ DOMAIN instances' = DOMAIN instances \cup DOMAIN new
      /\ \A a \in DOMAIN instances : instances'[a] = instances[a]
      /\ \A a \in DOMAIN new \ DOMAIN instances : instances'[a] = new[a]
  <2> DEFINE all == Over(instances, new)
  <2>1. /\ DOMAIN all = DOMAIN instances \cup DOMAIN new
        /\ \A a \in DOMAIN instances : all[a] = instances[a]
        /\ \A a \in DOMAIN new \ DOMAIN instances : all[a] = new[a]
    BY OverDomain
  <2> HIDE DEF all
  <2>2. instances' = all
    BY <1>3 DEF all
  <2>3. QED
    BY <2>1, <2>2
<1>5. /\ DOMAIN Registered(instances) = {a \in DOMAIN instances : ~Orphaned(a)}
      /\ \A a \in DOMAIN instances : ~Orphaned(a) => Registered(instances)[a] = instances[a]
  BY DEF Registered, Orphaned
<1>6. /\ sync.todo.add = DOMAIN endpoints \ {a \in DOMAIN instances : ~Orphaned(a)}
      /\ sync.todo.delete = {a \in DOMAIN instances : ~Orphaned(a)} \ DOMAIN endpoints
      /\ \A a \in DOMAIN endpoints : a \in DOMAIN instances /\ ~Orphaned(a) =>
           a \in sync.todo.update \/ ~CompareInstanceUpdate(svc, spec[a], instances[a])
  BY <1>1, <1>5 DEF CompareInstance
<1>7. QED
  BY <1>2, <1>4, <1>6 DEF spec

(* And what the second one does. *)
LEMMA UpdateSent ==
  ASSUME TInv, EInv, Undisturbed, Created, sync.pc = "update",
         instances' = [a \in DOMAIN instances |->
                         IF a \in sync.todo.update
                         THEN UpdatedInstance(sync.obj, sync.spec[a], instances[a])
                         ELSE instances[a]]
  PROVE  /\ sync.todo.update \subseteq DOMAIN endpoints /\ LeftToUpdate /\ LeftToDelete
         /\ DOMAIN instances' = DOMAIN instances
         /\ \A a \in DOMAIN instances :
              instances'[a] = IF a \in sync.todo.update
                              THEN UpdatedInstance(svc, Expected(svc, endpoints)[a], instances[a])
                              ELSE instances[a]
<1> DEFINE spec == Expected(svc, endpoints)
<1>1. sync.obj = svc /\ sync.spec = spec /\ DOMAIN spec = DOMAIN endpoints
      /\ LeftToUpdate /\ LeftToDelete
  BY DEF EInv, Current, Sending, Stage, Expected
<1>2. sync.todo.update \subseteq DOMAIN endpoints
  BY <1>1 DEF TInv, WorkerTyped
<1> HIDE DEF spec
<1>3. QED
  BY <1>1, <1>2 DEF spec

LEMMA AddEInv ==
  ASSUME TInv, EInv, AddInstances
  PROVE  EInv'
<1> DEFINE new == [a \in sync.todo.add |-> NewInstance(sync.obj, sync.spec[a])]
           result == IF service = Null THEN instances ELSE Over(instances, new)
<1>1. Send("add", "update", result)
  BY DEF AddInstances
<1>2. sync.pc = "add" /\ UNCHANGED <<svc, endpoints, service>>
  BY <1>1 DEF Send, workerUnchanged, k8sVars
<1>3. sync'.pc = "update" /\ sync'.todo = sync.todo
  BY <1>1, Going DEF Send
<1>4. ASSUME Undisturbed, instances' = result, Created
      PROVE  LeftToUpdate' /\ LeftToDelete'
  <2> DEFINE spec == Expected(svc, endpoints)
  <2>1. instances' = Over(instances, new)
    BY <1>4 DEF Created
  <2> HIDE DEF new, result
  <2>2. /\ DOMAIN instances' = DOMAIN instances \cup sync.todo.add
        /\ \A a \in DOMAIN instances : instances'[a] = instances[a]
        /\ \A a \in sync.todo.add \ DOMAIN instances : instances'[a] = NewInstance(svc, spec[a])
        /\ sync.todo.add = DOMAIN endpoints \ {a \in DOMAIN instances : ~Orphaned(a)}
        /\ sync.todo.delete = {a \in DOMAIN instances : ~Orphaned(a)} \ DOMAIN endpoints
        /\ \A a \in DOMAIN endpoints : a \in DOMAIN instances /\ ~Orphaned(a) =>
             a \in sync.todo.update \/ ~CompareInstanceUpdate(svc, spec[a], instances[a])
    BY <1>2, <1>4, <2>1, AddSent DEF new
  <2> HIDE DEF spec
  <2>3. ASSUME NEW a \in DOMAIN endpoints
        PROVE  a \in DOMAIN instances' /\ (a \in sync.todo.update \/ AsExpected(a)')
    <3>1. CASE a \in DOMAIN instances /\ ~Orphaned(a)
      <4>1. a \in sync.todo.update \/ (HasAttributes(a) /\ instances[a].healthy)
        BY <2>2, <3>1, FoundRight DEF spec
      <4>2. a \in DOMAIN instances' /\ instances'[a] = instances[a]
        BY <2>2, <3>1
      <4>3. HasAttributes(a)' = HasAttributes(a)
        BY <1>2, <3>1, <4>2, LeftAlone
      <4>4. QED
        BY <4>1, <4>2, <4>3 DEF AsExpected
    <3>2. CASE a \in DOMAIN instances /\ Orphaned(a)
      <4>1. a \in DOMAIN instances' /\ instances'[a] = instances[a]
        BY <2>2, <3>2
      <4>2. Orphaned(a)'
        BY <1>2, <3>2, <4>1, LeftAlone
      <4>3. QED
        BY <4>1, <4>2 DEF AsExpected
    <3>3. CASE a \notin DOMAIN instances
      <4>1. a \in sync.todo.add
        BY <2>2, <3>3
      <4>2. a \in DOMAIN instances' /\ instances'[a] = NewInstance(svc, spec[a])
        BY <2>2, <3>3, <4>1
      <4> DEFINE cur == NewInstance(svc, spec[a])
      <4>3. /\ cur.healthCheck = HealthChecked(svc) /\ cur.isolate = spec[a].isolate
            /\ cur.weight = spec[a].weight /\ cur.meta = Stored(MergeMetadata(svc, spec[a].labels))
        BY DEF NewInstance
      <4> HIDE DEF cur
      <4>4. instances'[a] = cur
        BY <4>2 DEF cur
      <4>5. HasAttributes(a)'
        BY <1>2, <4>3, <4>4, SentRight DEF spec
      <4>6. QED
        BY <1>3, <4>1, <4>2, <4>5 DEF AsExpected
    <3>4. QED
      BY <3>1, <3>2, <3>3
  <2>4. LeftToUpdate'
    BY <1>2, <1>3, <2>3 DEF LeftToUpdate
  <2>5. ASSUME NEW a \in DOMAIN instances', Surplus(a)'
        PROVE  a \in sync.todo.delete
    <3>1. a \notin DOMAIN endpoints
      BY <1>2, <2>5 DEF Surplus
    <3>2. a \in DOMAIN instances /\ instances'[a] = instances[a]
      BY <2>2, <2>5, <3>1
    <3>3. ~Orphaned(a)
      BY <1>2, <2>5, <3>2, LeftAlone DEF Surplus
    <3>4. QED
      BY <2>2, <3>1, <3>2, <3>3
  <2>6. QED
    BY <1>2, <1>3, <2>2, <2>4, <2>5 DEF LeftToDelete
<1>5. Undisturbed /\ instances' = result => Stage'
  BY <1>2, <1>3, <1>4 DEF Stage, Created
<1> HIDE DEF result
<1>6. QED
  BY <1>1, <1>5, SendEInv DEF Sending

LEMMA UpdateEInv ==
  ASSUME TInv, EInv, UpdateInstances
  PROVE  EInv'
<1> DEFINE result == [a \in DOMAIN instances |->
                        IF a \in sync.todo.update
                        THEN UpdatedInstance(sync.obj, sync.spec[a], instances[a])
                        ELSE instances[a]]
<1>1. Send("update", "delete", result)
  BY DEF UpdateInstances
<1>2. sync.pc = "update" /\ UNCHANGED <<svc, endpoints, service>>
  BY <1>1 DEF Send, workerUnchanged, k8sVars
<1>3. sync'.pc = "delete" /\ sync'.todo = sync.todo
  BY <1>1, Going DEF Send
<1>4. ASSUME Undisturbed, instances' = result, Created
      PROVE  (\A a \in DOMAIN endpoints : AsExpected(a)') /\ LeftToDelete'
  <2> DEFINE spec == Expected(svc, endpoints)
  <2>1. /\ sync.todo.update \subseteq DOMAIN endpoints /\ LeftToUpdate /\ LeftToDelete
        /\ DOMAIN instances' = DOMAIN instances
        /\ \A a \in DOMAIN instances :
             instances'[a] = IF a \in sync.todo.update
                             THEN UpdatedInstance(svc, spec[a], instances[a]) ELSE instances[a]
    BY <1>2, <1>4, UpdateSent
  <2> HIDE DEF spec, result
  <2>2. ASSUME NEW a \in DOMAIN endpoints
        PROVE  AsExpected(a)'
    <3>1. a \in DOMAIN instances
      BY <2>1 DEF LeftToUpdate
    <3>2. CASE a \in sync.todo.update
      <4> DEFINE cur == UpdatedInstance(svc, spec[a], instances[a])
      <4>1. /\ cur.healthCheck = HealthChecked(svc) /\ cur.isolate = spec[a].isolate
            /\ cur.weight = spec[a].weight /\ cur.meta = Stored(MergeMetadata(svc, spec[a].labels))
            /\ cur.healthy = spec[a].healthy
        BY DEF NewInstance, UpdatedInstance
      <4> HIDE DEF cur
      <4>2. instances'[a] = cur
        BY <2>1, <3>1, <3>2 DEF cur
      <4>3. HasAttributes(a)'
        BY <1>2, <4>1, <4>2, SentRight DEF spec
      <4>4. instances'[a].healthy
        BY <4>1, <4>2, SpecOf DEF spec
      <4>5. QED
        BY <2>1, <3>1, <4>3, <4>4 DEF AsExpected
    <3>3. CASE a \notin sync.todo.update
      <4>1. AsExpected(a) /\ instances'[a] = instances[a] /\ a \in DOMAIN instances'
        BY <2>1, <3>1, <3>3 DEF LeftToUpdate
      <4>2. QED
        BY <1>2, <1>3, <3>1, <4>1, LeftAlone DEF AsExpected
    <3>4. QED
      BY <3>2, <3>3
  <2>3. ASSUME NEW a \in DOMAIN instances', Surplus(a)'
        PROVE  a \in sync.todo.delete
    <3>1. a \notin DOMAIN endpoints
      BY <1>2, <2>3 DEF Surplus
    <3>2. a \in DOMAIN instances /\ instances'[a] = instances[a]
      BY <2>1, <2>3, <3>1
    <3>3. Surplus(a)
      BY <1>2, <2>3, <3>2, LeftAlone
    <3>4. QED
      BY <2>1, <3>2, <3>3 DEF LeftToDelete
  <2>4. QED
    BY <1>2, <1>3, <2>1, <2>2, <2>3 DEF LeftToDelete
<1>5. Undisturbed /\ instances' = result => Stage'
  BY <1>2, <1>3, <1>4 DEF Stage, Created
<1> HIDE DEF result
<1>6. QED
  BY <1>1, <1>5, SendEInv DEF Sending

LEMMA DeleteEInv ==
  ASSUME TInv, EInv, DeleteInstances
  PROVE  EInv'
<1> DEFINE result == [a \in DOMAIN instances \ sync.todo.delete |-> instances[a]]
<1>1. Send("delete", "store", result)
  BY DEF DeleteInstances
<1>2. sync.pc = "delete" /\ UNCHANGED <<svc, endpoints, service>>
  BY <1>1 DEF Send, workerUnchanged, k8sVars
<1>3. sync'.pc = "store" /\ sync'.todo = sync.todo
  BY <1>1, Going DEF Send
<1>4. ASSUME Undisturbed, instances' = result, Created
      PROVE  (\A a \in DOMAIN endpoints : AsExpected(a)')
             /\ \A a \in DOMAIN instances' : ~Surplus(a)'
  <2>1. /\ DOMAIN instances' = DOMAIN instances \ sync.todo.delete
        /\ \A a \in DOMAIN instances' : instances'[a] = instances[a]
    BY <1>4
  <2>2. LeftToDelete /\ \A a \in DOMAIN endpoints : AsExpected(a)
    BY <1>2, <1>4 DEF EInv, Stage
  <2>3. ASSUME NEW a \in DOMAIN endpoints
        PROVE  AsExpected(a)'
    <3>1. a \in DOMAIN instances /\ a \in DOMAIN instances' /\ instances'[a] = instances[a]
      BY <2>1, <2>2 DEF AsExpected, LeftToDelete
    <3>2. QED
      BY <1>2, <1>3, <2>2, <3>1, LeftAlone DEF AsExpected
  <2>4. ASSUME NEW a \in DOMAIN instances'
        PROVE  ~Surplus(a)'
    <3>1. a \in DOMAIN instances /\ a \notin sync.todo.delete /\ instances'[a] = instances[a]
      BY <2>1
    <3>2. QED
      BY <1>2, <2>2, <3>1, LeftAlone DEF LeftToDelete
  <2>5. QED
    BY <2>3, <2>4
<1>5. Undisturbed /\ instances' = result => Stage'
  BY <1>2, <1>3, <1>4 DEF Stage, Created
<1> HIDE DEF result
<1>6. QED
  BY <1>1, <1>5, SendEInv DEF Sending

LEMMA EInvStep == ASSUME TInv, EInv, [Next]_vars PROVE EInv'
<1>1. CASE UNCHANGED vars
  <2>1. UNCHANGED <<svc, endpoints, service, instances, sync, used>>
    BY <1>1 DEF vars, k8sVars, polarisVars
  <2>2. UNCHANGED <<Undisturbed, Current, ClockOk>>
    BY <2>1 DEF Undisturbed, Current, ClockOk
  <2>3. Stage' = Stage
    BY <2>1 DEF Stage, Created, LeftToAdd, LeftToUpdate, LeftToDelete, AsExpected, Surplus,
                Orphaned, HasAttributes, Asked
  <2>4. QED
    BY <2>2, <2>3 DEF EInv
<1>2. CASE StoreCache
  BY <1>2, TaskEnds DEF StoreCache
<1>3. QED
  BY <1>1, <1>2, EnvironmentEInv, EarlyEInv, CompareEInv, AddEInv, UpdateEInv, DeleteEInv
     DEF Next, SyncService

(* processSyncInstance, endpoint.go:164: for any services, endpoints, labels and *)
(* annotations, whatever earlier syncs have left behind: a sync during which    *)
(* nothing changes and no call fails ends with just the instances that the     *)
(* endpoints ask for, with the attributes asked for.                            *)
THEOREM OneSyncExact == Spec => []SyncExact
<1>1. TInv /\ EInv /\ [Next]_vars => (TInv /\ EInv)'
  BY TInvStep, EInvStep
<1>2. Init => TInv /\ EInv
  BY InitTInv, InitEInv
<1>3. QED
  BY <1>1, <1>2, ExactInv, PTL DEF Spec

-----------------------------------------------------------------------------
(* Nothing is left for the next sync.  An instance is settled if the next      *)
(* comparison will not find it to differ, or is one of those the code writes   *)
(* for ever (Churns), or was just added and waits for its first heartbeat.     *)
Settled(a) ==
  \/ Churns(a)
  \/ HealthChecked(svc) /\ a \in sync.todo.add
  \/ ~CompareInstanceUpdate(svc, Expected(svc, endpoints)[a], instances[a])

SettledStage ==
  /\ sync.pc = "update" =>
       \A a \in DOMAIN endpoints : a \in sync.todo.update \/ Settled(a)
  /\ sync.pc \in {"delete", "store"} => \A a \in DOMAIN endpoints : Settled(a)
SInv == Undisturbed /\ Created => SettledStage

LEMMA InitSInv == ASSUME Init PROVE SInv
BY DEF Init, Idle, SInv, SettledStage

(* What a batch leaves alone is as settled as before. *)
LEMMA StaysSettled ==
  ASSUME NEW a \in DOMAIN endpoints, a \in DOMAIN instances, a \in DOMAIN instances',
         instances'[a] = instances[a], sync'.todo = sync.todo,
         UNCHANGED <<svc, endpoints>>
  PROVE  Settled(a)' = Settled(a)
<1>1. Orphaned(a)' = Orphaned(a)
  BY DEF Orphaned
<1>2. Churns(a)' = Churns(a)
  BY <1>1 DEF Churns
<1>3. QED
  BY <1>2 DEF Settled

(* What is sent is settled, be it the first time or again. *)
LEMMA FitsOrChurns ==
  ASSUME NEW a \in DOMAIN endpoints, a \in DOMAIN instances
  PROVE  Churns(a) \/ (MetadataFits(svc, endpoints[a].labels)
                        /\ instances[a].protocol = endpoints[a].protocol)
BY DEF Churns, MetadataFits

SentSettles ==
  \A a \in DOMAIN endpoints \cap DOMAIN instances :
    LET spec == Expected(svc, endpoints)[a]
    IN  /\ a \in sync.todo.add /\ instances[a] = NewInstance(svc, spec) => Settled(a)
        /\ \A old : instances[a] = UpdatedInstance(svc, spec, old) => Settled(a)

LEMMA SentIsSettled == SentSettles
<1> SUFFICES ASSUME NEW a \in DOMAIN endpoints, a \in DOMAIN instances
             PROVE  LET spec == Expected(svc, endpoints)[a]
                    IN  /\ a \in sync.todo.add /\ instances[a] = NewInstance(svc, spec)
                             => Settled(a)
                        /\ \A old : instances[a] = UpdatedInstance(svc, spec, old) => Settled(a)
  BY DEF SentSettles
<1> DEFINE spec == Expected(svc, endpoints)[a]
<1>1. /\ spec.healthy = TRUE /\ spec.labels = endpoints[a].labels
      /\ spec.protocol = endpoints[a].protocol
  BY DEF Expected
<1>2. /\ Churns(a) => Settled(a)
      /\ HealthChecked(svc) /\ a \in sync.todo.add => Settled(a)
      /\ ~CompareInstanceUpdate(svc, spec, instances[a]) => Settled(a)
  BY DEF Settled
<1> HIDE DEF spec
<1>3. ASSUME a \in sync.todo.add, instances[a] = NewInstance(svc, spec)
      PROVE  Settled(a)
  <2>1. CASE ~HealthChecked(svc) /\ MetadataFits(svc, endpoints[a].labels)
    <3>1. ~CompareInstanceUpdate(svc, spec, NewInstance(svc, spec))
      BY <1>1, <2>1, AddedFits
    <3>2. QED
      BY <1>2, <1>3, <3>1
  <2>2. QED
    BY <1>2, <1>3, <2>1, FitsOrChurns
<1>4. ASSUME NEW old, instances[a] = UpdatedInstance(svc, spec, old)
      PROVE  Settled(a)
  <2>1. CASE MetadataFits(svc, endpoints[a].labels)
             /\ instances[a].protocol = endpoints[a].protocol
    <3>1. /\ instances[a].healthCheck = HealthChecked(svc)
          /\ instances[a].healthy = spec.healthy /\ instances[a].isolate = spec.isolate
          /\ instances[a].weight = spec.weight /\ instances[a].protocol = spec.protocol
          /\ instances[a].meta = Stored(MergeMetadata(svc, spec.labels))
      BY <1>1, <1>4, <2>1 DEF UpdatedInstance, NewInstance
    <3>2. QED
      BY <1>1, <1>2, <2>1, <3>1, UpdatedAgain
  <2>2. QED
    BY <1>2, <2>1, FitsOrChurns
<1>5. QED
  BY <1>3, <1>4 DEF spec

LEMMA SentWillBeSettled == SentSettles'
BY SentIsSettled, PTL

(* A step that disturbs the sync, or whose next is none of the last three. *)
LEMMA EarlySInv ==
  ASSUME ~Undisturbed' \/ sync'.pc \notin {"update", "delete", "store"}
  PROVE  SInv'
BY DEF SInv, SettledStage

(* A batch that fails disturbs the sync; one that is sent does not. *)
LEMMA SendSInv ==
  ASSUME TInv, EInv, SInv, NEW call \in Sending, NEW next \in {"update", "delete", "store"},
         NEW result, Send(call, next, result),
         Undisturbed /\ Created /\ instances' = result => SettledStage'
  PROVE  SInv'
<1>1. GoesOn(next) /\ UNCHANGED service
  BY DEF Send
<1>2. sync'.since = sync.since
  BY <1>1, Going
<1>3. CASE Fails(call)
  <2>1. ~Undisturbed'
    BY <1>2, <1>3, UseDisturbs DEF Fails, EInv, Counters
  <2>2. QED
    BY <2>1, EarlySInv
<1>4. CASE instances' = result /\ UNCHANGED used
  BY <1>1, <1>2, <1>4 DEF SInv, Undisturbed, Created
<1>5. QED
  BY <1>3, <1>4 DEF Send

LEMMA AddSInv ==
  ASSUME TInv, EInv, SInv, AddInstances
  PROVE  SInv'
<1> DEFINE new == [a \in sync.todo.add |-> NewInstance(sync.obj, sync.spec[a])]
           result == IF service = Null THEN instances ELSE Over(instances, new)
<1>1. Send("add", "update", result)
  BY DEF AddInstances
<1>2. sync.pc = "add" /\ UNCHANGED <<svc, endpoints>>
  BY <1>1 DEF Send, workerUnchanged, k8sVars
<1>3. sync'.pc = "update" /\ sync'.todo = sync.todo
  BY <1>1, Going DEF Send
<1>4. ASSUME Undisturbed, Created, instances' = result, NEW a \in DOMAIN endpoints,
             a \notin sync.todo.update
      PROVE  Settled(a)'
  <2> DEFINE spec == Expected(svc, endpoints)
  <2>1. instances' = Over(instances, new)
    BY <1>4 DEF Created
  <2> HIDE DEF new, result
  <2>2. /\ DOMAIN instances' = DOMAIN instances \cup sync.todo.add
        /\ \A b \in DOMAIN instances : instances'[b] = instances[b]
        /\ \A b \in sync.todo.add \ DOMAIN instances : instances'[b] = NewInstance(svc, spec[b])
        /\ sync.todo.add = DOMAIN endpoints \ {b \in DOMAIN instances : ~Orphaned(b)}
        /\ \A b \in DOMAIN endpoints : b \in DOMAIN instances /\ ~Orphaned(b) =>
             b \in sync.todo.update \/ ~CompareInstanceUpdate(svc, spec[b], instances[b])
    BY <1>2, <1>4, <2>1, AddSent DEF new
  <2> HIDE DEF spec
  <2>3. CASE a \in DOMAIN instances
    <3>1. Orphaned(a) \/ ~CompareInstanceUpdate(svc, spec[a], instances[a])
      BY <1>4, <2>2, <2>3
    <3>2. Settled(a)
      BY <3>1 DEF Settled, Churns, spec
    <3>3. QED
      BY <1>2, <1>3, <2>2, <2>3, <3>2, StaysSettled
  <2>4. CASE a \notin DOMAIN instances
    <3>1. a \in sync.todo.add /\ a \in DOMAIN instances'
          /\ instances'[a] = NewInstance(svc, spec[a])
      BY <2>2, <2>4
    <3>2. QED
      BY <1>2, <1>3, <3>1, SentWillBeSettled DEF spec, SentSettles
  <2>5. QED
    BY <2>3, <2>4
<1>5. Undisturbed /\ Created /\ instances' = result => SettledStage'
  BY <1>2, <1>3, <1>4 DEF SettledStage
<1> HIDE DEF result
<1>6. QED
  BY <1>1, <1>5, SendSInv DEF Sending

LEMMA UpdateSInv ==
  ASSUME TInv, EInv, SInv, UpdateInstances
  PROVE  SInv'
<1> DEFINE result == [a \in DOMAIN instances |->
                        IF a \in sync.todo.update
                        THEN UpdatedInstance(sync.obj, sync.spec[a], instances[a])
                        ELSE instances[a]]
<1>1. Send("update", "delete", result)
  BY DEF UpdateInstances
<1>2. sync.pc = "update" /\ UNCHANGED <<svc, endpoints>>
  BY <1>1 DEF Send, workerUnchanged, k8sVars
<1>3. sync'.pc = "delete" /\ sync'.todo = sync.todo
  BY <1>1, Going DEF Send
<1>4. ASSUME Undisturbed, Created, instances' = result, NEW a \in DOMAIN endpoints
      PROVE  Settled(a)'
  <2> DEFINE spec == Expected(svc, endpoints)
  <2>1. /\ LeftToUpdate
        /\ DOMAIN instances' = DOMAIN instances
        /\ \A b \in DOMAIN instances :
             instances'[b] = IF b \in sync.todo.update
                             THEN UpdatedInstance(svc, spec[b], instances[b]) ELSE instances[b]
    BY <1>2, <1>4, UpdateSent
  <2>2. a \in DOMAIN instances
    BY <2>1 DEF LeftToUpdate
  <2>3. CASE a \in sync.todo.update
    BY <1>2, <2>1, <2>2, <2>3, SentWillBeSettled DEF SentSettles
  <2>4. CASE a \notin sync.todo.update
    <3>1. Settled(a)
      BY <1>2, <1>4, <2>4 DEF SInv, SettledStage
    <3>2. QED
      BY <1>2, <1>3, <2>1, <2>2, <2>4, <3>1, StaysSettled
  <2>5. QED
    BY <2>3, <2>4
<1>5. Undisturbed /\ Created /\ instances' = result => SettledStage'
  BY <1>2, <1>3, <1>4 DEF SettledStage
<1> HIDE DEF result
<1>6. QED
  BY <1>1, <1>5, SendSInv DEF Sending

LEMMA DeleteSInv ==
  ASSUME TInv, EInv, SInv, DeleteInstances
  PROVE  SInv'
<1> DEFINE result == [a \in DOMAIN instances \ sync.todo.delete |-> instances[a]]
<1>1. Send("delete", "store", result)
  BY DEF DeleteInstances
<1>2. sync.pc = "delete" /\ UNCHANGED <<svc, endpoints>>
  BY <1>1 DEF Send, workerUnchanged, k8sVars
<1>3. sync'.pc = "store" /\ sync'.todo = sync.todo
  BY <1>1, Going DEF Send
<1>4. ASSUME Undisturbed, Created, instances' = result, NEW a \in DOMAIN endpoints
      PROVE  Settled(a)'
  <2>1. AsExpected(a) /\ LeftToDelete
    BY <1>2, <1>4 DEF EInv, Stage
  <2>2. a \in DOMAIN instances /\ a \in DOMAIN instances' /\ instances'[a] = instances[a]
    BY <1>4, <2>1 DEF AsExpected, LeftToDelete
  <2>3. Settled(a)
    BY <1>2, <1>4 DEF SInv, SettledStage
  <2>4. QED
    BY <1>2, <1>3, <2>2, <2>3, StaysSettled
<1>5. Undisturbed /\ Created /\ instances' = result => SettledStage'
  BY <1>2, <1>3, <1>4 DEF SettledStage
<1> HIDE DEF result
<1>6. QED
  BY <1>1, <1>5, SendSInv DEF Sending

LEMMA SInvStep == ASSUME TInv, EInv, SInv, [Next]_vars PROVE SInv'
<1>1. CASE UNCHANGED vars
  <2>1. UNCHANGED <<svc, endpoints, service, instances, sync, used>>
    BY <1>1 DEF vars, k8sVars, polarisVars
  <2>2. \A a : Churns(a)' = Churns(a)
    BY <2>1 DEF Churns, Orphaned
  <2>3. \A a : Settled(a)' = Settled(a)
    BY <2>1, <2>2 DEF Settled
  <2>4. QED
    BY <2>1, <2>3 DEF SInv, SettledStage, Undisturbed, Created
<1>2. CASE Environment
  <2>1. UNCHANGED sync
    BY <1>2 DEF Environment, ChangeService, RemoveEndpoint, MissHeartbeat, ChangeEndpoint,
       DropLabel
  <2>2. \E c \in Counters, max \in {MaxChanges, MaxEdits, MaxBeats} : Use(c, max)
    BY <1>2 DEF Environment, ChangeService, RemoveEndpoint, MissHeartbeat, ChangeEndpoint,
       DropLabel, Counters
  <2>3. QED
    BY <2>1, <2>2, UseDisturbs, EarlySInv DEF EInv
<1>3. ASSUME NEW pc \in {"load", "create alias", "get", "read"}, sync.pc # "idle", GoesOn(pc)
      PROVE  SInv'
  BY <1>3, Going, EarlySInv
<1>4. CASE sync' = Idle
  <2>1. sync'.pc = "idle"
    BY <1>4 DEF Idle
  <2>2. QED
    BY <2>1, EarlySInv
<1>5. CASE TakeTask \/ LoadCache \/ CompareAll
  <2>1. sync'.pc \in {"load", "create", "update alias", "add"}
    BY <1>5 DEF TakeTask, LoadCache, CompareAll, TInv, WorkerTyped, Idle
  <2>2. QED
    BY <2>1, EarlySInv
<1>6. CASE CreateService \/ CreateAlias \/ UpdateAlias \/ PutService
  BY <1>3, <1>4, <1>6 DEF CreateService, CreateAlias, UpdateAlias, PutService
<1>7. CASE GetService
  <2>1. CASE sync' = [sync EXCEPT !.pc = "put", !.labels = Over(sync.obj.labels, service)]
    <3>1. sync'.pc = "put"
      BY <2>1 DEF TInv, WorkerTyped, Idle
    <3>2. QED
      BY <3>1, EarlySInv
  <2>2. CASE GoesOn("read")
    BY <1>3, <1>7, <2>2 DEF GetService
  <2>3. QED
    BY <1>7, <2>1, <2>2 DEF GetService
<1>8. CASE StoreCache
  BY <1>4, <1>8 DEF StoreCache
<1>9. QED
  BY <1>1, <1>2, <1>5, <1>6, <1>7, <1>8, AddSInv, UpdateSInv, DeleteSInv DEF Next, SyncService

(* What the sync after this one would do, were it to begin now. *)
NextTodo == CompareInstance(svc, Expected(svc, endpoints), Registered(instances))
NothingLeft ==
  sync.pc = "store" /\ Undisturbed /\ Created =>
    /\ NextTodo.delete = {}
    /\ \A a \in NextTodo.add : Orphaned(a)
    /\ \A a \in NextTodo.update :
         Churns(a) \/ (HealthChecked(svc) /\ a \in sync.todo.add)

LEMMA SInvSuffices ==
  ASSUME EInv, SInv
  PROVE  NothingLeft
<1> SUFFICES ASSUME sync.pc = "store", Undisturbed, Created
             PROVE  /\ NextTodo.delete = {}
                    /\ \A a \in NextTodo.add : Orphaned(a)
                    /\ \A a \in NextTodo.update :
                         Churns(a) \/ (HealthChecked(svc) /\ a \in sync.todo.add)
  BY DEF NothingLeft
<1>1. /\ \A a \in DOMAIN endpoints : AsExpected(a) /\ Settled(a)
      /\ \A a \in DOMAIN instances : ~Surplus(a)
  BY DEF EInv, Stage, SInv, SettledStage
<1>2. /\ DOMAIN Registered(instances) = {a \in DOMAIN instances : ~Orphaned(a)}
      /\ \A a \in DOMAIN instances : ~Orphaned(a) => Registered(instances)[a] = instances[a]
  BY DEF Registered, Orphaned
<1>3. DOMAIN Expected(svc, endpoints) = DOMAIN endpoints
  BY DEF Expected
<1>4. /\ NextTodo.add = DOMAIN endpoints \ {a \in DOMAIN instances : ~Orphaned(a)}
      /\ NextTodo.delete = {a \in DOMAIN instances : ~Orphaned(a)} \ DOMAIN endpoints
      /\ \A a \in NextTodo.update :
           /\ a \in DOMAIN endpoints
           /\ CompareInstanceUpdate(svc, Expected(svc, endpoints)[a], instances[a])
  BY <1>2, <1>3 DEF NextTodo, CompareInstance
<1>5. QED
  BY <1>1, <1>4 DEF Settled, Surplus, AsExpected

(* compareInstanceUpdate, updateInstances: for any services, endpoints, labels   *)
(* and annotations, a sync during which nothing changes and no call fails leaves *)
(* nothing for the next one to write, which would delete nothing, add nothing    *)
(* but what it cannot recognise, and update nothing but the cases of Churns and  *)
(* what it has just added and Polaris still takes for unhealthy.                 *)
THEOREM SyncLeavesNothing == Spec => []NothingLeft
<1>1. TInv /\ EInv /\ SInv /\ [Next]_vars => (TInv /\ EInv /\ SInv)'
  BY TInvStep, EInvStep, SInvStep
<1>2. Init => TInv /\ EInv /\ SInv
  BY InitTInv, InitEInv, InitSInv
<1>3. QED
  BY <1>1, <1>2, SInvSuffices, PTL DEF Spec

-----------------------------------------------------------------------------
(* Aliases.  An alias is known if it is there, or recorded as not created.     *)
Known(alias) == alias \in aliases \cup lost \cup {Null}
Synced == {"get", "put", "read", "store"} \cup Sending

CachedAliasKnown == serviceCache # NoSvc => Known(serviceCache.alias)
AliasInv ==
  /\ CachedAliasKnown
  /\ sync.pc = "update alias" => Known(sync.cached.alias)
  /\ sync.pc \in Synced => Known(sync.obj.alias)

LEMMA AliasStep == ASSUME TInv, AliasInv, [Next]_vars PROVE AliasInv'
<1>1. /\ aliases \cup lost \subseteq aliases' \cup lost'
      /\ \/ serviceCache' = serviceCache
         \/ serviceCache' = svc /\ (svc.alias \in aliases' \cup lost' \cup {Null})
         \/ serviceCache' = sync.obj /\ sync.pc = "store"
  BY DEF Next, Environment, SyncService, ChangeService, ChangeEndpoint, RemoveEndpoint, MissHeartbeat,
     DropLabel, TakeTask, LoadCache, CreateService, CreateAlias, UpdateAlias, CreateServiceAlias,
     GetService, PutService, CompareAll, AddInstances, UpdateInstances, DeleteInstances, Send,
     StoreCache, workerUnchanged, polarisVars, k8sVars, vars
<1>2. \A alias : Known(alias) => Known(alias)'
  BY <1>1 DEF Known
<1>3. CachedAliasKnown'
  BY <1>1, <1>2 DEF AliasInv, CachedAliasKnown, Known, Synced
<1>4. ASSUME UNCHANGED <<sync.pc, sync.obj, sync.cached>>
      PROVE  AliasInv'
  BY <1>2, <1>3, <1>4 DEF AliasInv
<1>5. ASSUME sync.pc \in Synced, sync'.pc \in Synced, sync'.obj = sync.obj
      PROVE  AliasInv'
  BY <1>2, <1>3, <1>5 DEF AliasInv, Synced, Sending
<1>6. ASSUME sync'.pc \notin Synced \cup {"update alias"}
      PROVE  AliasInv'
  BY <1>3, <1>6 DEF AliasInv
<1>7. sync' = Idle => sync'.pc = "idle"
  BY DEF Idle
<1>8. CASE UNCHANGED vars \/ Environment
  <2>1. UNCHANGED sync
    BY <1>8 DEF vars, Environment, ChangeService, ChangeEndpoint, RemoveEndpoint, MissHeartbeat,
       DropLabel
  <2>2. QED
    BY <1>4, <2>1
<1>9. CASE TakeTask
  <2>1. sync'.pc = "load"
    BY <1>9 DEF TakeTask, TInv, WorkerTyped, Idle
  <2>2. QED
    BY <1>6, <2>1 DEF Synced, Sending
<1>10. CASE LoadCache
  <2>1. /\ sync'.cached = serviceCache
        /\ sync'.pc = IF serviceCache = NoSvc THEN "create" ELSE "update alias"
    BY <1>10 DEF LoadCache, TInv, WorkerTyped, Idle
  <2>2. QED
    BY <1>2, <1>3, <2>1 DEF AliasInv, CachedAliasKnown, Synced, Sending
<1>11. CASE CreateService
  <2>1. CASE GoesOn("create alias") \/ sync' = Idle
    <3>1. sync'.pc \in {"create alias", "idle"}
      BY <1>7, <2>1, Going
    <3>2. QED
      BY <1>6, <3>1 DEF Synced, Sending
  <2>2. CASE GoesOn("read") /\ sync.obj.alias = Null
    <3>1. sync'.pc = "read" /\ sync'.obj = sync.obj
      BY <2>2, Going
    <3>2. QED
      BY <1>3, <2>2, <3>1 DEF AliasInv, Known
  <2>3. QED
    BY <1>11, <2>1, <2>2 DEF CreateService, HasAlias
<1>12. CASE CreateAlias \/ UpdateAlias
  <2>1. CASE sync' = Idle
    BY <1>6, <1>7, <2>1 DEF Synced, Sending
  <2>2. CASE CreateServiceAlias /\ (GoesOn("read") \/ GoesOn("get"))
    <3>1. sync'.pc \in {"read", "get"} /\ sync'.obj = sync.obj
      BY <2>2, Going
    <3>2. Known(sync.obj.alias)'
      BY <2>2, <3>1 DEF CreateServiceAlias, Known
    <3>3. QED
      BY <1>3, <3>1, <3>2 DEF AliasInv
  <2>3. CASE UpdateAlias /\ ~CreateServiceAlias
    <3>1. GoesOn("get") /\ sync.pc = "update alias"
      BY <2>3 DEF UpdateAlias
    <3>2. sync'.pc = "get" /\ sync'.obj = sync.obj
      BY <3>1, Going
    <3>3. Known(sync.obj.alias)'
      <4>1. CASE IfNeedCreateServiceAlias(sync.cached, sync.obj)
        BY <2>3, <3>2, <4>1 DEF UpdateAlias, Known
      <4>2. CASE ~IfNeedCreateServiceAlias(sync.cached, sync.obj)
        <5>1. sync.obj.alias = sync.cached.alias \/ sync.obj.alias = Null
          BY <4>2 DEF IfNeedCreateServiceAlias, HasAlias
        <5>2. Known(sync.obj.alias)
          BY <3>1, <5>1 DEF AliasInv, Known
        <5>3. QED
          BY <1>2, <3>2, <5>2 DEF Known
      <4>3. QED
        BY <4>1, <4>2
    <3>4. QED
      BY <1>3, <3>2, <3>3 DEF AliasInv
  <2>4. QED
    BY <1>12, <2>1, <2>2, <2>3 DEF CreateAlias, UpdateAlias
<1>13. CASE GetService \/ PutService \/ CompareAll
  <2>1. sync'.obj = sync.obj /\ sync.pc \in Synced /\ sync'.pc \in Synced
    BY <1>13 DEF GetService, PutService, CompareAll, GoesOn, TInv, WorkerTyped, Idle, Synced, Sending
  <2>2. QED
    BY <1>5, <2>1
<1>14. CASE AddInstances \/ UpdateInstances \/ DeleteInstances
  <2>1. PICK next \in Synced : GoesOn(next) /\ sync.pc \in Synced
    BY <1>14 DEF AddInstances, UpdateInstances, DeleteInstances, Send, Synced, Sending
  <2>2. QED
    BY <1>5, <2>1, Going
<1>15. CASE StoreCache
  BY <1>6, <1>7, <1>15 DEF StoreCache, Synced, Sending
<1>16. QED
  BY <1>8, <1>9, <1>10, <1>11, <1>12, <1>13, <1>14, <1>15 DEF Next, SyncService

(* service.go:282, service.go:73: an alias of a cached object, for which no     *)
(* later sync asks again, has been created, or is one of those that are lost in *)
(* the two known ways: creating it failed, or its service was not there, for a  *)
(* service cached already, or the object was overtaken by a change before.      *)
THEOREM AliasesAccounted == Spec => []CachedAliasKnown
<1>1. Init => TInv /\ AliasInv
  <2>1. Init => AliasInv
    BY DEF Init, Idle, AliasInv, CachedAliasKnown, Synced, Sending
  <2>2. QED
    BY <2>1, InitTInv
<1>2. TInv /\ AliasInv /\ [Next]_vars => (TInv /\ AliasInv)'
  BY TInvStep, AliasStep
<1>3. QED
  BY <1>1, <1>2, PTL DEF Spec, AliasInv
=============================================================================
