----------------------------- MODULE ServiceSync -----------------------------
(***************************************************************************)
(* Synchronisation of Kubernetes services into the Polaris registry        *)
(* (pkg/controller: controller.go, service.go, endpoint.go, namespace.go,  *)
(* rsync.go): the informer handlers of one namespace, the worker           *)
(* goroutines, the resync and health-check loops, and the registry.        *)
(*                                                                         *)
(* A step is what runs between two accesses to state another goroutine can *)
(* change: a lister, one of the caches, the registry.  Tasks about a       *)
(* service are interchangeable (syncService depends on nothing else in the *)
(* Task), so the queue is a count of tasks by retries used; TaskQueue      *)
(* models the queue itself.                                                *)
(***************************************************************************)
EXTENDS Integers, SequencesExt

CONSTANTS
  Services,        \* names of the services of the namespace
  Addrs,           \* ip-port pairs an endpoint or an instance can have
  Attrs,           \* what is registered with an instance: ttl, weight, metadata
  Objects,         \* Service objects: sync annotation, attrs, enableRegister
  NsAnnotations,   \* values the namespace's sync annotation takes
  SyncMode,        \* config serviceSync.mode
  Workers,         \* --concurrent-polaris-syncs goroutines
  MaxRetries,      \* maxRetries
  MissedDeletes,   \* whose deletions the informers may miss, and deliver a
                   \* tombstone for: some of "service" and "endpoints"
  NoSvc, NoAddr, NoInstance, Foreign, Idle,
  MaxChanges,      \* bound: changes made in Kubernetes
  MaxEnables,      \* bound: namespace changes from not synced to synced
  MaxWriteFaults,  \* bound: failing calls of the Polaris HTTP API
  MaxRefusals,     \* bound: its calls answered with 401000, unauthorised
  MaxQueryFaults,  \* bound: failing GetAllInstances of the SDK
  MaxProbeFaults,  \* bound: failing health checks
  MaxRestarts,     \* bound: restarts of the controller
  MaxForeign,      \* bound: instances registered by others
  MaxPending       \* bound: tasks of a service beyond which resync waits

ASSUME ServiceSyncAssumption ==
  /\ Objects \subseteq [sync : {"true", "false", "unset", "ignored"},
                        attrs : Attrs, enableRegister : {"unset", "false"}]
  /\ NsAnnotations \subseteq {"true", "false", "unset"}
  /\ SyncMode \in {"all", "demand"}
  /\ NoSvc \notin Objects
  /\ NoAddr \notin Addrs
  /\ NoInstance \notin Attrs /\ Foreign \notin Attrs /\ Foreign # NoInstance
  /\ MaxRetries \in Nat
  /\ MissedDeletes \subseteq {"service", "endpoints"}
  /\ IsFiniteSet(Services)
  /\ Idle \notin Services
  /\ Idle \notin [svc : Services, cache : Objects \cup {NoSvc},
                  resync : Objects \cup {NoSvc}]

\* No Endpoints object, as opposed to one without addresses.
NoEndpoints == {NoAddr}

VARIABLES
  \* Kubernetes, as the informers' stores hold it
  svc,          \* [Services -> Objects \cup {NoSvc}]
  eps,          \* [Services -> (SUBSET Addrs) \cup {NoEndpoints}]
  nsSync,       \* the namespace's sync annotation
  svcEvents,    \* service notifications not yet handled
  epEvents,     \* endpoints notifications not yet handled
  nsEvents,     \* namespace notifications not yet handled
  \* the controller
  handler,      \* what onService* still has to store after it enqueued
  pending,      \* tasks in the queue: [Services -> [0..MaxRetries -> Nat]]
  serviceCache, \* the service as last synced
  resyncServiceCache, \* the services the resync loop enqueues
  worker,       \* what each worker goroutine is doing
  healthy,      \* isPolarisServerHealthy
  failedTimes,  \* polarisServerFailedTimes
  \* Polaris
  registry,     \* [Services -> [Addrs -> Attrs \cup {NoInstance, Foreign}]]
  created,      \* services for which CreateService succeeded
  orphans,      \* history, for the properties: instances serviceCache does
                \* not tell of any more, [Services -> SUBSET Addrs]
  \* bounds
  used          \* how much of each bound is used up

k8sVars == <<svc, eps, nsSync>>
eventVars == <<svcEvents, epEvents, nsEvents>>
cacheVars == <<serviceCache, resyncServiceCache>>
healthVars == <<healthy, failedTimes>>
polarisVars == <<registry, created, orphans>>
vars == <<k8sVars, eventVars, handler, pending, cacheVars, worker, healthVars,
          polarisVars, used>>

Retries == 0..MaxRetries
NoView == [a \in Addrs |-> NoInstance]
IdleWorker == [pc |-> "idle", svc |-> Idle, retries |-> 0, obj |-> NoSvc,
               cached |-> NoSvc, eps |-> {}, view |-> NoView]

(* The informers start by adding every object there is. *)
Existing(objs, none) == SetToSeq({s \in Services : objs[s] # none})
AddEvents(objs, none) ==
  [i \in DOMAIN Existing(objs, none) |->
     LET s == Existing(objs, none)[i]
     IN  [type |-> "add", svc |-> s, old |-> none, new |-> objs[s]]]

Init ==
  /\ svc \in [Services -> Objects \cup {NoSvc}]
  /\ eps \in [Services -> (SUBSET Addrs) \cup {NoEndpoints}]
  /\ \A s \in Services : svc[s] = NoSvc => eps[s] = NoEndpoints
  /\ nsSync \in NsAnnotations
  /\ svcEvents = AddEvents(svc, NoSvc)
  /\ epEvents = AddEvents(eps, NoEndpoints)
  /\ nsEvents = << >>
  /\ handler = Idle
  /\ pending = [s \in Services |-> [r \in Retries |-> 0]]
  /\ serviceCache = [s \in Services |-> NoSvc]
  /\ resyncServiceCache = [s \in Services |-> NoSvc]
  /\ worker = [w \in Workers |-> IdleWorker]
  /\ healthy = TRUE
  /\ failedTimes = 0
  /\ registry = [s \in Services |-> NoView]
  /\ created = {}
  /\ orphans = [s \in Services |-> {}]
  /\ used = [changes |-> 0, enables |-> 0, writes |-> 0, refusals |-> 0,
             queries |-> 0, probes |-> 0, restarts |-> 0, foreign |-> 0]

Use(bound, max) ==
  /\ used[bound] < max
  /\ used' = [used EXCEPT ![bound] = @ + 1]

-----------------------------------------------------------------------------
(* Which objects are to be synced. *)
IsNamespaceSyncEnable(annotation) ==
  annotation = "true" \/ (SyncMode # "demand" /\ annotation = "unset")

(* IsPolarisService reads the namespace from its lister each time. *)
IsPolarisService(obj) ==
  \/ obj.sync = "true"
  \/ obj.sync = "unset" /\ IsNamespaceSyncEnable(nsSync)

(* util.EnableSync on a service or a namespace. *)
EnableSync(annotation) == annotation = "true"

\* Mutant: any instance found counts as registered by this controller.
IsSyncInstance_Any(instance) == instance # NoInstance

(* isSyncInstance: the instances this controller registered. *)
IsSyncInstance(instance) == instance \in Attrs
Managed(view) == {a \in Addrs : IsSyncInstance(view[a])}
Registered == [s \in Services |-> Managed(registry[s])]

(* insertTask: a fresh task about s, with all its retries. *)
Enqueued(p, s, r) == [p EXCEPT ![s][r] = @ + 1]
Enqueue(s) == pending' = Enqueued(pending, s, 0)

-----------------------------------------------------------------------------
(* Kubernetes, and the informers that store a change and notify of it. *)
controllerVars == <<handler, pending, cacheVars, worker, healthVars>>

ServiceChange(s, obj, type) ==
  /\ Use("changes", MaxChanges)
  /\ svc' = [svc EXCEPT ![s] = obj]
  /\ svcEvents' = Append(svcEvents,
                         [type |-> type, svc |-> s, old |-> svc[s], new |-> obj])
  /\ UNCHANGED <<eps, nsSync, epEvents, nsEvents, controllerVars, polarisVars>>

CreateService(s, obj) == svc[s] = NoSvc /\ ServiceChange(s, obj, "add")
UpdateService(s, obj) == svc[s] # NoSvc /\ ServiceChange(s, obj, "update")
DeleteService(s) ==
  /\ svc[s] # NoSvc
  /\ \/ ServiceChange(s, NoSvc, "delete")
     \/ "service" \in MissedDeletes /\ ServiceChange(s, NoSvc, "tombstone")

EndpointsChange(s, e, type) ==
  /\ Use("changes", MaxChanges)
  /\ eps' = [eps EXCEPT ![s] = e]
  /\ epEvents' = Append(epEvents,
                        [type |-> type, svc |-> s, old |-> eps[s], new |-> e])
  /\ UNCHANGED <<svc, nsSync, svcEvents, nsEvents, controllerVars, polarisVars>>

(* The endpoints controller keeps Endpoints for the services there are. *)
SetEndpoints(s, e) ==
  /\ svc[s] # NoSvc
  /\ EndpointsChange(s, e, IF eps[s] = NoEndpoints THEN "add" ELSE "update")
RemoveEndpoints(s) ==
  /\ svc[s] = NoSvc /\ eps[s] # NoEndpoints
  /\ \/ EndpointsChange(s, NoEndpoints, "delete")
     \/ /\ "endpoints" \in MissedDeletes
        /\ EndpointsChange(s, NoEndpoints, "tombstone")

AnnotateNamespace(annotation) ==
  /\ annotation # nsSync
  /\ used.changes < MaxChanges
  /\ LET enabled == ~IsNamespaceSyncEnable(nsSync)
                    /\ IsNamespaceSyncEnable(annotation)
     IN  /\ enabled => used.enables < MaxEnables
         /\ used' = [used EXCEPT !.changes = @ + 1,
                                 !.enables = IF enabled THEN @ + 1 ELSE @]
  /\ nsSync' = annotation
  /\ nsEvents' = Append(nsEvents, [old |-> nsSync, new |-> annotation])
  /\ UNCHANGED <<svc, eps, svcEvents, epEvents, controllerVars, polarisVars>>

(* Another client of Polaris registers the address first, say the pod. *)
ForeignRegister(s, a) ==
  /\ Use("foreign", MaxForeign)
  /\ registry[s][a] = NoInstance
  /\ registry' = [registry EXCEPT ![s][a] = Foreign]
  /\ UNCHANGED <<k8sVars, eventVars, controllerVars, created, orphans>>

K8sChange ==
  \/ \E s \in Services :
       \/ \E obj \in Objects : CreateService(s, obj) \/ UpdateService(s, obj)
       \/ DeleteService(s)
       \/ \E e \in SUBSET Addrs : SetEndpoints(s, e)
       \/ RemoveEndpoints(s)
       \/ \E a \in Addrs : ForeignRegister(s, a)
  \/ \E annotation \in NsAnnotations : AnnotateNamespace(annotation)

-----------------------------------------------------------------------------
(* The handlers of service notifications.  Each first enqueues, then stores; *)
(* a worker may take the task in between.                                    *)
serviceEventUnchanged == <<k8sVars, epEvents, nsEvents, cacheVars, worker,
                           healthVars, polarisVars, used>>

Ignored == UNCHANGED <<handler, pending>>
EnqueueThenStore(s, cache, resync) ==
  /\ Enqueue(s)
  /\ handler' = [svc |-> s, cache |-> cache, resync |-> resync]

onServiceAdd(event) ==
  IF IsPolarisService(event.new)
  THEN EnqueueThenStore(event.svc, NoSvc, event.new)
  ELSE Ignored

onServiceUpdate(event) ==
  LET oldIsPolaris == IsPolarisService(event.old)
      curIsPolaris == IsPolarisService(event.new)
  IN  \/ /\ ~oldIsPolaris /\ ~curIsPolaris
         /\ Ignored
      \/ /\ oldIsPolaris /\ ~curIsPolaris
         /\ EnqueueThenStore(event.svc, NoSvc, NoSvc)
      \/ /\ oldIsPolaris /\ curIsPolaris
         /\ EnqueueThenStore(event.svc, event.old, event.new)
      \/ /\ ~oldIsPolaris /\ curIsPolaris
         /\ EnqueueThenStore(event.svc, NoSvc, event.new)

\* Mutant: a deleted service stays in resyncServiceCache.
onServiceDelete_StaysInResync(event) ==
  IF event.type = "delete" /\ IsPolarisService(event.old)
  THEN EnqueueThenStore(event.svc, NoSvc, resyncServiceCache[event.svc])
  ELSE Ignored

(* A tombstone is no *v1.Service: it is dropped. *)
onServiceDelete(event) ==
  IF event.type = "delete" /\ IsPolarisService(event.old)
  THEN EnqueueThenStore(event.svc, NoSvc, NoSvc)
  ELSE Ignored

HandleServiceEvent ==
  /\ handler = Idle
  /\ svcEvents # << >>
  /\ svcEvents' = Tail(svcEvents)
  /\ LET event == Head(svcEvents)
     IN  \/ event.type = "add" /\ onServiceAdd(event)
         \/ event.type = "update" /\ onServiceUpdate(event)
         \/ event.type \in {"delete", "tombstone"} /\ onServiceDelete(event)
  /\ UNCHANGED serviceEventUnchanged

HandlerStores ==
  /\ handler # Idle
  /\ serviceCache' = IF handler.cache = NoSvc THEN serviceCache
                     ELSE [serviceCache EXCEPT ![handler.svc] = handler.cache]
  /\ resyncServiceCache' =
       [resyncServiceCache EXCEPT ![handler.svc] = handler.resync]
  /\ handler' = Idle
  /\ UNCHANGED <<k8sVars, eventVars, pending, worker, healthVars, polarisVars,
                 used>>

(* isPolarisEndpoints: whether endpoints of s are to be synced. *)
IsPolarisEndpoints(s) ==
  \/ SyncMode = "all"
  \/ /\ svc[s] # NoSvc
     /\ IsPolarisService(svc[s])
     /\ EnableSync(svc[s].sync) \/ EnableSync(nsSync)

HandleEndpointsEvent ==
  /\ epEvents # << >> /\ Head(epEvents).type # "tombstone"
  /\ epEvents' = Tail(epEvents)
  /\ LET event == Head(epEvents)
     IN  IF /\ IsPolarisEndpoints(event.svc)
            /\ event.type = "update" => event.old # event.new
         THEN Enqueue(event.svc)
         ELSE UNCHANGED pending
  /\ UNCHANGED <<k8sVars, svcEvents, nsEvents, handler, cacheVars, worker,
                 healthVars, polarisVars, used>>

(* onNamespaceUpdate: the task to create the namespace in Polaris changes   *)
(* no state of this module; of the services, those that the code does not   *)
(* skip are enqueued.                                                       *)
SyncedOnNamespaceUpdate(event) ==
  LET isOldSync == IsNamespaceSyncEnable(event.old)
      isCurSync == IsNamespaceSyncEnable(event.new)
      add == isCurSync
      skipped(obj) ==
        \/ obj.sync = "ignored"
        \/ IsPolarisService(obj)
        \/ add /\ ~IsPolarisService(obj)
  IN  IF isOldSync \/ isCurSync
      THEN {s \in Services : svc[s] # NoSvc /\ ~skipped(svc[s])}
      ELSE {}

HandleNamespaceEvent ==
  /\ nsEvents # << >>
  /\ nsEvents' = Tail(nsEvents)
  /\ LET synced == SyncedOnNamespaceUpdate(Head(nsEvents))
     IN  pending' = [s \in Services |->
                       IF s \in synced THEN [pending[s] EXCEPT ![0] = @ + 1]
                       ELSE pending[s]]
  /\ UNCHANGED <<k8sVars, svcEvents, epEvents, handler, cacheVars, worker,
                 healthVars, polarisVars, used>>

-----------------------------------------------------------------------------
(* The worker goroutines: syncService, step by step. *)
Worker(w, pc) == worker[w].pc = pc
(* A worker holds only what it still reads. *)
Goto(w, pc) ==
  worker' = [worker EXCEPT
    ![w].pc = pc,
    ![w].cached = NoSvc,
    ![w].eps = IF pc \in {"store", "forget"} THEN {} ELSE @,
    ![w].view = IF pc \in {"store", "forget"} THEN NoView ELSE @]
Finish(w) == worker' = [worker EXCEPT ![w] = IdleWorker]

\* Mutant: the last retry is never made.
Retried_OneLess(p, w) ==
  IF worker[w].retries + 1 < MaxRetries
  THEN Enqueued(p, worker[w].svc, worker[w].retries + 1) ELSE p

(* syncService returned an error: a retry, or the task is dropped. *)
Retried(p, w) ==
  LET s == worker[w].svc  r == worker[w].retries
  IN  IF r < MaxRetries THEN Enqueued(p, s, r + 1) ELSE p
Fail(w) == Finish(w) /\ pending' = Retried(pending, w)

workerUnchanged == <<k8sVars, eventVars, handler, resyncServiceCache, healthVars>>
onlyWorker == <<workerUnchanged, pending, serviceCache, polarisVars, used>>

(* serviceLister.Get is the first thing a worker does with a task. *)
TakeTask(w, s, r) ==
  /\ Worker(w, "idle")
  /\ pending[s][r] > 0
  /\ pending' = [pending EXCEPT ![s][r] = @ - 1]
  /\ worker' = [worker EXCEPT ![w] = [IdleWorker EXCEPT !.pc = "lookup",
                                       !.svc = s, !.retries = r, !.obj = svc[s]]]
  /\ UNCHANGED <<workerUnchanged, serviceCache, polarisVars, used>>

LoadCache(w) ==
  /\ Worker(w, "lookup")
  /\ LET cached == serviceCache[worker[w].svc]
         next == IF worker[w].obj = NoSvc
                 THEN IF cached = NoSvc THEN "done" ELSE "queryPurge"
                 ELSE IF cached = NoSvc THEN "create" ELSE "compare"
     IN  IF next = "done"
         THEN Finish(w)
         ELSE worker' = [worker EXCEPT
                ![w].pc = next,
                ![w].cached = IF next = "compare" THEN cached ELSE NoSvc]
  /\ UNCHANGED onlyWorker

(* processSyncNamespaceAndService; what exists already is no error. *)
CreateInPolaris(w) ==
  /\ Worker(w, "create")
  /\ \/ /\ ~IsPolarisService(worker[w].obj)
        /\ Goto(w, "recheck")
        /\ UNCHANGED <<pending, created, used>>
     \/ /\ IsPolarisService(worker[w].obj)
        /\ created' = created \cup {worker[w].svc}
        /\ Goto(w, "recheck")
        /\ UNCHANGED <<pending, used>>
     \/ /\ IsPolarisService(worker[w].obj)
        /\ Use("writes", MaxWriteFaults)
        /\ Fail(w)
        /\ UNCHANGED created
  /\ UNCHANGED <<workerUnchanged, serviceCache, registry, orphans>>

(* syncService asks IsPolarisService again, and stores nothing if it fails. *)
Recheck(w) ==
  /\ Worker(w, "recheck")
  /\ IF IsPolarisService(worker[w].obj) THEN Goto(w, "endpoints") ELSE Finish(w)
  /\ UNCHANGED onlyWorker

\* Mutant: nothing is synced while the annotations are as they were.
OnlyEnableRegisterChanged_OrNothing(old, new) == old.attrs = new.attrs

(* processUpdateService: CompareServiceChange of the cached service and the *)
(* current one.  A change of nothing but enableRegister is stored only.     *)
OnlyEnableRegisterChanged(old, new) ==
  old.attrs = new.attrs /\ old.enableRegister # new.enableRegister

Compare(w) ==
  /\ Worker(w, "compare")
  /\ LET obj == worker[w].obj  cached == worker[w].cached
     IN  \/ ~IsPolarisService(obj) /\ Goto(w, "queryUnsync")
         \/ /\ IsPolarisService(obj)
            /\ Goto(w, IF OnlyEnableRegisterChanged(cached, obj)
                       THEN "store" ELSE "endpoints")
  /\ UNCHANGED onlyWorker

\* Mutant: a lister's NotFound is not checked.
ReadEndpoints_Unchecked(w) ==
  /\ Worker(w, "endpoints")
  /\ worker' = [worker EXCEPT ![w].pc = "query", ![w].eps = eps[worker[w].svc]]
  /\ UNCHANGED <<workerUnchanged, pending, serviceCache, polarisVars, used>>

(* processSyncInstance reads the endpoints, then queries Polaris. *)
ReadEndpoints(w) ==
  /\ Worker(w, "endpoints")
  /\ LET e == eps[worker[w].svc]
     IN  IF e = NoEndpoints
         THEN Fail(w)
         ELSE /\ worker' = [worker EXCEPT ![w].pc = "query", ![w].eps = e]
              /\ UNCHANGED pending
  /\ UNCHANGED <<workerUnchanged, serviceCache, polarisVars, used>>

(* getAllInstance: a query that fails returns no instances and no error. *)
AfterQuery == [query |-> "add", queryPurge |-> "purge", queryUnsync |-> "unsync"]
GetAllInstance(w) ==
  /\ worker[w].pc \in DOMAIN AfterQuery
  /\ \E view \in {registry[worker[w].svc], NoView} :
       /\ \/ view = registry[worker[w].svc] /\ UNCHANGED used
          \/ view = NoView /\ Use("queries", MaxQueryFaults)
       /\ worker' = [worker EXCEPT ![w].pc = AfterQuery[@], ![w].view = view]
  /\ UNCHANGED <<workerUnchanged, pending, serviceCache, polarisVars>>

(* CompareInstance on the view and the endpoints. *)
ToAdd(k) == k.eps \ Managed(k.view)
ToUpdate(k) == {a \in k.eps \cap Managed(k.view) : k.view[a] # k.obj.attrs}
ToDelete(k) == Managed(k.view) \ k.eps

(* A batch call on the targets.  All are reached; or only some are, because   *)
(* Polaris refuses it (401000, which dealAddInstanceResponse and              *)
(* dealDeleteInstanceResponse take for success), or because it fails.  What   *)
(* fails here is only logged by processSyncInstance.                          *)
Completed(targets, reached) ==
  \/ reached = targets /\ UNCHANGED used
  \/ reached # targets /\ Use("refusals", MaxRefusals)
Failed(targets, reached) == reached # targets /\ Use("writes", MaxWriteFaults)
Reached(targets, reached) == Completed(targets, reached) \/ Failed(targets, reached)

Write(w, next, effect(_)) ==
  LET s == worker[w].svc
  IN  /\ registry' = [registry EXCEPT ![s] = [a \in Addrs |-> effect(a)]]
      /\ Goto(w, next)
      /\ UNCHANGED <<workerUnchanged, pending, serviceCache, created>>

(* An instance that exists already is left as it is, without an error.  The *)
(* service is synced again: what a refusal left of it is accounted for.      *)
AddInstances(w) ==
  LET current == registry[worker[w].svc]
  IN  /\ Worker(w, "add")
      /\ orphans' = [orphans EXCEPT ![worker[w].svc] = {}]
      /\ \E reached \in SUBSET ToAdd(worker[w]) :
           /\ Reached(ToAdd(worker[w]), reached)
           /\ Write(w, "update", LAMBDA a :
                IF a \in reached /\ current[a] = NoInstance
                THEN worker[w].obj.attrs ELSE current[a])

(* An update writes whatever instance has the address. *)
UpdateInstances(w) ==
  LET current == registry[worker[w].svc]
  IN  /\ Worker(w, "update")
      /\ UNCHANGED orphans
      /\ \E reached \in SUBSET ToUpdate(worker[w]) :
           /\ Reached(ToUpdate(worker[w]), reached)
           /\ Write(w, "remove", LAMBDA a :
                IF a \in reached /\ current[a] # NoInstance
                THEN worker[w].obj.attrs ELSE current[a])

Removed(w, reached, a) ==
  IF a \in reached THEN NoInstance ELSE registry[worker[w].svc][a]

DeleteInstances(w) ==
  /\ Worker(w, "remove")
  /\ UNCHANGED orphans
  /\ \E reached \in SUBSET ToDelete(worker[w]) :
       /\ Reached(ToDelete(worker[w]), reached)
       /\ Write(w, "store", LAMBDA a : Removed(w, reached, a))

(* processDeleteService: its failure fails the task.  The service being     *)
(* gone, syncService has also put the task back itself: the second entry is *)
(* the same task, with the retries counted so far, or with none once        *)
(* handleTask gave up on it and forgot the count.                           *)
AfterDelete == [purge |-> "forget", unsync |-> "store"]
PutBack(w) ==
  LET s == worker[w].svc  r == worker[w].retries
  IN  IF Worker(w, "purge")
      THEN Enqueued(pending, s, IF r < MaxRetries THEN r + 1 ELSE 0)
      ELSE pending

(* The deletion of all instances returned no error. *)
AllDeleted(w, reached) ==
  /\ orphans' = [orphans EXCEPT ![worker[w].svc] = Managed(worker[w].view) \ reached]
  /\ Write(w, AfterDelete[worker[w].pc], LAMBDA a : Removed(w, reached, a))

\* Mutant: processDeleteService ignores what deleteInstances returns.
DeleteAllInstances_ErrorIgnored(w) ==
  /\ worker[w].pc \in DOMAIN AfterDelete
  /\ \E reached \in SUBSET Managed(worker[w].view) :
       \/ /\ Completed(Managed(worker[w].view), reached)
          /\ AllDeleted(w, reached)
       \/ /\ Failed(Managed(worker[w].view), reached)
          /\ UNCHANGED orphans
          /\ Write(w, AfterDelete[worker[w].pc], LAMBDA a : Removed(w, reached, a))

DeleteAllInstances(w) ==
  /\ worker[w].pc \in DOMAIN AfterDelete
  /\ \E reached \in SUBSET Managed(worker[w].view) :
       \/ /\ Completed(Managed(worker[w].view), reached)
          /\ AllDeleted(w, reached)
       \/ /\ Failed(Managed(worker[w].view), reached)
          /\ registry' = [registry EXCEPT ![worker[w].svc] =
                            [a \in Addrs |-> Removed(w, reached, a)]]
          /\ pending' = Retried(PutBack(w), w)
          /\ Finish(w)
          /\ UNCHANGED <<workerUnchanged, serviceCache, created, orphans>>

CacheService(w, obj) ==
  /\ serviceCache' = [serviceCache EXCEPT ![worker[w].svc] = obj]
  /\ Finish(w)
  /\ UNCHANGED <<workerUnchanged, pending, polarisVars, used>>
StoreCache(w) == Worker(w, "store") /\ CacheService(w, worker[w].obj)
ForgetCache(w) == Worker(w, "forget") /\ CacheService(w, NoSvc)

WorkerStep(w) ==
  \/ LoadCache(w) \/ CreateInPolaris(w) \/ Recheck(w) \/ Compare(w)
  \/ ReadEndpoints(w) \/ GetAllInstance(w) \/ AddInstances(w)
  \/ UpdateInstances(w) \/ DeleteInstances(w) \/ DeleteAllInstances(w)
  \/ StoreCache(w) \/ ForgetCache(w)

-----------------------------------------------------------------------------
(* resyncWorker, for one entry of the map: its Load never finds the entry,   *)
(* whose key it truncates, so it always enqueues.                            *)
Resync(s) ==
  /\ healthy
  /\ resyncServiceCache[s] # NoSvc
  /\ SumFunction(pending[s]) < MaxPending
  /\ Enqueue(s)
  /\ UNCHANGED <<k8sVars, eventVars, handler, cacheVars, worker, healthVars,
                 polarisVars, used>>

\* Mutant: a probe that succeeds only resets the count of failures.
CheckHealth_NeverRecovers ==
  \/ /\ failedTimes' = 0
     /\ UNCHANGED <<k8sVars, eventVars, handler, pending, cacheVars, worker,
                    healthy, polarisVars, used>>
  \/ /\ Use("probes", MaxProbeFaults)
     /\ IF healthy
        THEN /\ failedTimes' = (failedTimes + 1) % 3
             /\ healthy' = (failedTimes + 1 < 3)
        ELSE UNCHANGED healthVars
     /\ UNCHANGED <<k8sVars, eventVars, handler, pending, cacheVars, worker,
                    polarisVars>>

CheckHealth ==
  \/ /\ healthy' = TRUE
     /\ failedTimes' = 0
     /\ serviceCache' = IF healthy THEN serviceCache
                        ELSE [s \in Services |-> NoSvc]
     /\ orphans' = IF healthy THEN orphans ELSE Registered
     /\ UNCHANGED <<used, resyncServiceCache>>
     /\ UNCHANGED <<k8sVars, eventVars, handler, pending, worker, registry, created>>
  \/ /\ Use("probes", MaxProbeFaults)
     /\ IF healthy
        THEN /\ failedTimes' = (failedTimes + 1) % 3
             /\ healthy' = (failedTimes + 1 < 3)
        ELSE UNCHANGED healthVars
     /\ UNCHANGED <<k8sVars, eventVars, handler, pending, cacheVars, worker,
                    polarisVars>>

(* The process starts anew: what it kept is lost, the informers start over. *)
(* (An added namespace enqueues no service.)                                *)
StartAnew ==
  /\ svcEvents' = AddEvents(svc, NoSvc)
  /\ epEvents' = AddEvents(eps, NoEndpoints)
  /\ nsEvents' = << >>
  /\ handler' = Idle
  /\ pending' = [s \in Services |-> [r \in Retries |-> 0]]
  /\ serviceCache' = [s \in Services |-> NoSvc]
  /\ resyncServiceCache' = [s \in Services |-> NoSvc]
  /\ worker' = [w \in Workers |-> IdleWorker]
  /\ healthy' = TRUE
  /\ failedTimes' = 0
  /\ orphans' = Registered
  /\ UNCHANGED <<k8sVars, registry, created>>

Restart == Use("restarts", MaxRestarts) /\ StartAnew

(* onEndpointDelete takes for granted that it is given Endpoints: the *)
(* tombstone of a missed deletion is none, and the panic ends the     *)
(* process, which is started again.                                   *)
EndpointsTombstone ==
  /\ epEvents # << >> /\ Head(epEvents).type = "tombstone"
  /\ StartAnew
  /\ UNCHANGED used

-----------------------------------------------------------------------------
Next ==
  \/ K8sChange
  \/ HandleServiceEvent \/ HandlerStores
  \/ HandleEndpointsEvent \/ EndpointsTombstone \/ HandleNamespaceEvent
  \/ \E w \in Workers :
       \/ \E s \in Services, r \in Retries : TakeTask(w, s, r)
       \/ WorkerStep(w)
  \/ \E s \in Services : Resync(s)
  \/ CheckHealth
  \/ Restart

(* wait.Until keeps the workers, the resync and the health check running, each *)
(* informer calls its handlers in turn, and the queue hands tasks out in      *)
(* order, so that none is passed over for ever (hence SF: an idle worker is   *)
(* not always there).  Changes in Kubernetes, faults and restarts are not     *)
(* fair.                                                                      *)
Fairness ==
  /\ WF_vars(HandleServiceEvent)
  /\ WF_vars(HandlerStores)
  /\ WF_vars(HandleEndpointsEvent)
  /\ WF_vars(EndpointsTombstone)
  /\ WF_vars(HandleNamespaceEvent)
  /\ \A w \in Workers : WF_vars(WorkerStep(w))
  /\ \A s \in Services, r \in Retries : SF_vars(\E w \in Workers : TakeTask(w, s, r))
  /\ \A s \in Services : WF_vars(Resync(s))
  /\ WF_vars(CheckHealth)

Spec == Init /\ [][Next]_vars
FairSpec == Spec /\ Fairness

-----------------------------------------------------------------------------
Views == [Addrs -> Attrs \cup {NoInstance, Foreign}]
PCs == {"idle", "lookup", "create", "recheck", "compare", "endpoints", "store",
        "forget", "add", "update", "remove"} \cup DOMAIN AfterQuery
       \cup DOMAIN AfterDelete

(* The shape of the state. *)
TypeOK ==
  /\ svc \in [Services -> Objects \cup {NoSvc}]
  /\ eps \in [Services -> (SUBSET Addrs) \cup {NoEndpoints}]
  /\ nsSync \in NsAnnotations
  /\ handler = Idle \/ handler \in [svc : Services, cache : Objects \cup {NoSvc},
                                    resync : Objects \cup {NoSvc}]
  /\ pending \in [Services -> [Retries -> Nat]]
  /\ serviceCache \in [Services -> Objects \cup {NoSvc}]
  /\ resyncServiceCache \in [Services -> Objects \cup {NoSvc}]
  /\ \A w \in Workers :
       /\ worker[w].pc \in PCs
       /\ worker[w].svc \in Services \cup {Idle}
       /\ worker[w].svc = Idle <=> worker[w].pc = "idle"
       /\ worker[w].retries \in Retries
       /\ worker[w].obj \in Objects \cup {NoSvc}
       /\ worker[w].cached \in Objects \cup {NoSvc}
       /\ worker[w].eps \subseteq Addrs
       /\ worker[w].view \in Views
  /\ healthy \in BOOLEAN
  /\ failedTimes \in 0..2
  /\ registry \in [Services -> Views]
  /\ created \subseteq Services
  /\ orphans \in [Services -> SUBSET Addrs]

IsLive(s) == svc[s] # NoSvc /\ IsPolarisService(svc[s])

(* The registry has, of this controller's instances of s, those the          *)
(* endpoints ask for, with the attributes the service asks for.              *)
Mirrors(s) ==
  \A a \in Addrs :
    IF a \in eps[s] THEN registry[s][a] \in {svc[s].attrs, Foreign}
    ELSE ~IsSyncInstance(registry[s][a])

(* Once Kubernetes and Polaris are quiet, a service to be synced has its      *)
(* endpoints registered, with its current attributes, and nothing else: what  *)
(* processSyncInstance swallows (failed batches, failed queries taken for     *)
(* empty ones), what two workers overwrite and what a restart loses is        *)
(* repaired by resyncWorker.                                                  *)
LiveConverges ==
  \A s \in Services : <>[](IsLive(s) /\ eps[s] # NoEndpoints => Mirrors(s))

(* What this controller has registered of s and serviceCache is to tell of.   *)
(* It does not tell of what was left by a deletion that Polaris refused, for  *)
(* which dealDeleteInstanceResponse reports no error: syncService takes the   *)
(* service for removed (service.go:161) or for stored.  Nor of what was there *)
(* when the process started or the cache was cleared after an outage.  Both   *)
(* hold until the service is synced again.                                    *)
Remaining(s) == Managed(registry[s]) \ orphans[s]

(* service.go:145: a service found deleted has what was registered for it     *)
(* looked up in the cache and deleted.  So once Kubernetes is quiet, a        *)
(* service that is gone, or is not to be synced any more, has none of the     *)
(* instances left that the controller can know of.  No resync helps here,     *)
(* unless the deletion was missed: all depends on the task of the event and   *)
(* on serviceCache.                                                           *)
RemovedConverges ==
  \A s \in Services : <>[](~IsLive(s) => Remaining(s) = {})

(* syncService can undo only what it finds in serviceCache.  So instances of  *)
(* this controller are never registered for a service that is not cached,     *)
(* but by the worker that is about to cache it, or by a deletion refused or   *)
(* before the cache was lost.                                                 *)
InstancesAccounted ==
  \A s \in Services :
    Remaining(s) # {} =>
      \/ serviceCache[s] # NoSvc
      \/ \E w \in Workers :
           worker[w].svc = s /\ worker[w].pc \in {"update", "remove", "store"}

(* With one worker, whoever registered an address keeps it: no step of the    *)
(* controller touches an instance it does not own, although it decides on a   *)
(* view that may be out of date when it writes.  (Two workers may: one frees   *)
(* the address, someone else takes it, the other acts on what it saw before.) *)
ForeignUntouched ==
  [][\A s \in Services, a \in Addrs :
       registry[s][a] = Foreign => registry'[s][a] = Foreign]_vars

(* The resync loop works from what the handlers of service events left: when  *)
(* they have no event left, it enqueues exactly the services to be synced.    *)
ResyncTracksServices ==
  svcEvents = << >> /\ handler = Idle =>
    \A s \in Services :
      resyncServiceCache[s] = IF IsLive(s) THEN svc[s] ELSE NoSvc

(* service.go:186: namespace and service are created in Polaris, and a        *)
(* failure puts the task in the queue to be tried again.                      *)
EventuallyCreated ==
  \A s \in Services : IsLive(s) ~> (s \in created \/ ~IsLive(s))
=============================================================================
