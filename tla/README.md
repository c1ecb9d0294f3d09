# polaris-controller: a TLA+ development

polaris-controller runs in a Kubernetes cluster and does three things: it
mirrors Kubernetes services and their endpoints into the Polaris registry, it
mirrors ConfigMaps into the Polaris configuration centre (and back), and it
injects sidecars and agents into pods through a mutating webhook. This
directory holds TLA+ models of that code, the TLC configurations that check
them, and proofs checked by TLAPS. Paths below are relative to the root of the
repository.

## 1. Inventory

| component | code | state | operations | talks to |
|---|---|---|---|---|
| task queue, worker loop | `pkg/controller/controller.go`, `types.go` | client-go rate-limited queue, failure counts | `insertTask`, `worker`, `handleTask`, `process` | every handler inserts; `process` calls `syncService`, `syncNamespace`, `syncConfigMap` |
| service and instance sync | `service.go`, `endpoint.go`, `namespace.go`, `apis.go`, `rsync.go`, `pkg/cache/service_cache.go` | `serviceCache`, `resyncServiceCache`, `isPolarisServerHealthy`, failure count | informer handlers, `syncService`, `resyncWorker`, `checkHealth` | listers, task queue, Polaris HTTP API, Polaris SDK |
| Polaris naming client | `pkg/polarisapi/service_api.go` | none | batch add, update and delete of instances, create service, namespace, health | Polaris |
| instance comparison | `apis.go`, `pkg/util/address` | none | endpoints to addresses, comparison with the registry | |
| config sync, K8s to Polaris | `configmap.go`, `pkg/polarisapi/config_api.go`, `pkg/cache/config_cache.go` | `configFileCache`, `resyncConfigFileCache`, the lister's objects (written to) | informer handlers, `syncConfigMap` | task queue, Polaris HTTP API |
| config sync, Polaris to K8s | `configmap.go` (`PolarisConfigWatcher`) | namespaces watched, groups and their revisions | watch of namespaces, discover stream, fetch, create/update/delete ConfigMap | Polaris gRPC, Kubernetes API, executor |
| executor, concurrent maps | `pkg/util/scheduler.go`, `map.go` | task channel (128), worker goroutines, stop flag | `Execute`, `DelayExecute`, `IntervalExecute`, `AffinityExecute`, `Stop` | config watcher |
| injection policy | `pkg/inject/pkg/kube/inject/{inject,pod,common}.go` | none | `requireInject`, selectors, annotations | webhook |
| injection patches | `.../apply/{base,mesh,javaagent}` | none | JSON patches for containers, volumes, labels | webhook |
| webhook, its configuration | `.../webhook.go`, `pkg/inject/pkg/config` | certificate, templates, mesh config | `serveInject`, `Update` on file changes | policy, patches |
| manager | `cmd/polaris-controller/app` | leader lease, own registration | leader election, start of the controllers, `registerController`, `deregisterController` | all; Kubernetes, Polaris SDK |
| logs, metrics, flags | `common`, `pkg/metrics`, `pkg/util/configz` | | | |

How they interact. Informers call the handlers one event at a time, per kind;
each handler decides whether the object concerns Polaris (annotations of the
object and of its namespace), inserts a task, and updates the caches. Five
workers (`--concurrent-polaris-syncs`) take tasks and bring Polaris to what the
*listers* say now: the task is only a trigger. Every 30 s (`--...resync`) all of
`resyncServiceCache` is inserted again; a health check stops that while Polaris
is down and clears `serviceCache` when it comes back.

What is hard. Several workers may process one object at once, each from its own
reading of lister, cache and registry; handlers enqueue before they store; a
failed batch, a failed query, a missed deletion or a restart each leave the
caches and the registry in disagreement; what is no longer to be synced is
found only through a cache in memory. For the configuration files: the cached
object is the lister's own, which the sync writes into; creation and release are
two calls; both directions may write the same ConfigMap.

What correctness means, by component:

- *task queue*: no task lost or processed by two workers, retries bounded and
  counted per failing task, every task comes to a result;
- *service sync*: registry converges to endpoints for services to be synced and
  to nothing for others; instances of others untouched; whatever is registered
  can still be found for removal; resync covers exactly what is to be synced;
- *config sync*: files converge to the ConfigMaps, deletions name the file that
  was created, what is created is released; no echo between the directions;
- *executor*: the lists are handled one after the other, each once its fetches
  have ended;
- *instance comparison*: applying the three difference sets yields the endpoints
  with the attributes asked for, and then nothing more is written;
- *manager*: one process runs the controllers at a time, one does in the end, and
  Polaris knows that one;
- *injection*: the policy's precedence, and patches that, applied in order,
  yield the pod intended.

`PROJECT.json` lists the hazards one by one, at their line.

## 2. Modules

| module | models |
|---|---|
| `TaskLedger` | what the task queue promises: an abstract specification |
| `TaskQueue` | the work queue and `handleTask`; implements `TaskLedger` |
| `TaskQueueProofs` | theorems about `TaskQueue`, the refinement among them |
| `ServiceSync`, `MCServiceSync` | when which services of a namespace are synced, and by how many workers |
| `ServiceSyncProofs` | theorems about `ServiceSync`: the resync, the registry, removals |
| `InstanceDiff` | attributes of instances, and the three difference sets, as operators |
| `ServiceDetail`, `MCServiceDetail` | what one sync writes about a service: labels, alias, instances; over `InstanceDiff` |
| `InstanceDiffProofs` | theorems about `InstanceDiff` and `ServiceDetail` |
| `ConfigSync`, `MCConfigSync` | one ConfigMap into the configuration centre |
| `ConfigSyncProofs` | theorems about `ConfigSync` |
| `Executor` | `util.TaskExecutor` as the watcher uses it |
| `ConfigWatcher`, `MCConfigWatcher` | the files of a namespace back into ConfigMaps, over `Executor` |
| `ConfigWatcherProofs` | theorems about `ConfigWatcher` |
| `PatchBuild` | the JSON patches of an injection, and applying them, as operators |
| `InjectConfig` | the watching and loading of the webhook's files |
| `Webhook`, `MCWebhook` | requests about pods, over the two modules above |
| `WebhookProofs` | theorems about `Webhook`: the certificate, the configuration |
| `InjectionProofs` | theorems about what patches do, and with them what a pod holds |
| `Manager`, `MCManager` | the processes of the controller, their lease and their own entry in Polaris |
| `ManagerProofs` | theorems about `Manager` |

The `MC` modules only name the objects a configuration may use; `TaskQueue` has
none because its constants are sets of model values.

`TaskQueue` and its environment implement `TaskLedger` under a refinement mapping
(`Ledger` in `TaskQueue`): tasks due are those dirty or waiting for their
delay. `ConfigWatcher` instantiates `Executor` with its own variable `jobs`;
`ServiceDetail` extends `InstanceDiff`; `Webhook` extends `InjectConfig`, whose
variables its requests read, and `PatchBuild`. Otherwise the models share no
variables. `TaskQueue` gives, for any `process`, the
guarantees that the two sync modules rely on: a task is handled by one worker,
retried at most `MaxRetries` times and never lost. They in turn keep the queue
as a count of tasks by retries used, because tasks about one object are
interchangeable: the Task pointers differ, so the queue merges nothing, and
`syncService` and `syncConfigMap` depend on nothing of a task but the object's
key (and, for a ConfigMap, the operation). `ConfigWatcher` takes the direction
Kubernetes to Polaris, which `ConfigSync` models in detail, as one step
(`SyncConfigMap`), to ask what the two directions do to each other. `ServiceSync`
and `ServiceDetail` divide `syncService`: the first has several workers, services
that come, go and change their mind, restarts and outages, and a single value for
all attributes; the second has one worker and one service that is always to be
synced, and every attribute. `Manager` justifies that both take the workers of one
process to be the only ones.

## 3. State and actions

### TaskQueue

| in the model | in the code |
|---|---|
| `queue`, `dirty`, `processing`, `waiting`, `requeues` | client-go's rate-limiting queue, external |
| `InsertTask` | `insertTask`: a new `*Task`, added |
| `GetTask`, `Done` | `queue.Get` and the deferred `queue.Done` of `handleTask` |
| `Succeed`, `Retry`, `Drop` | the three results in `handleTask` (`Forget`, `AddRateLimited`, `Forget`) |
| `ReenqueueSelf` | `enqueueService` in `syncService`, the `insertTask` of `syncConfigMap`, after a failed deletion |
| `ShutDown` | `Run` returns |

`TaskLedger` has the same tasks without queue or workers: `Insert`, `Start`,
`PutBack`, the three results, `Stop`.

### ServiceSync

One namespace. A step is what runs between two accesses to state that another
goroutine can change.

| in the model | in the code |
|---|---|
| `svc`, `eps`, `nsSync` | the stores of the three informers; `nsSync` is the namespace's sync annotation |
| `svcEvents`, `epEvents`, `nsEvents` | notifications of each informer, in order |
| `handler` | `onServiceUpdate` between its insertion and its two stores |
| `serviceCache`, `resyncServiceCache` | the caches of the same names |
| `pending` | the queue, as a count of tasks by service and retries used |
| `worker[w]` | a worker inside `syncService`: what it has read of lister, cache, endpoints and registry |
| `healthy`, `failedTimes` | `isPolarisServerHealthy`, the count of `checkHealth` |
| `registry`, `created` | Polaris: per address nothing, an instance of this controller, or someone else's |
| `HandleServiceEvent`, `HandlerStores` | `onServiceAdd`, `onServiceUpdate`, `onServiceDelete` |
| `HandleEndpointsEvent`, `HandleNamespaceEvent` | `onEndpoints*`, `onNamespace*` |
| `TakeTask` to `ForgetCache` | `syncService`, `processSyncNamespaceAndService`, `processUpdateService`, `processSyncInstance`, `processDeleteService`, and the batch calls of `service_api.go` |
| `Resync`, `CheckHealth` | `resyncWorker`, `checkHealth` |
| `StartAnew`, by `Restart` or `EndpointsTombstone` | a crash, of its own or the panic of `onEndpointDelete` on a tombstone; caches and queue are gone, the informers list again |
| `Completed`, `Failed` | what the code makes of the answer to a batch: no error, which a refusal (401000) is too, or an error |
| `orphans` | history: instances left by a refused deletion, or registered when `serviceCache` was lost, until the service is next synced |

The instances of an address are told apart only by owner and attributes.
`Foreign` is an instance without this cluster's metadata, which `Managed`
leaves out the way `IsSyncInstance` and the platform filter do.

### ServiceDetail, InstanceDiff

`TakeTask` to `StoreCache` are `syncService` on its create or its update path:
`CreateService` and `CreateAlias` with `processSyncNamespaceAndService`;
`UpdateAlias`, `GetService`, `PutService` with `processUpdateService`; then
`processSyncInstance`: `CompareAll` reads endpoints and registry and computes the
batches (`CompareInstance`), which `AddInstances`, `UpdateInstances`,
`DeleteInstances` send. `ChangeService` is the informer with `onServiceUpdate`, which
caches the old object. `MissHeartbeat` and `DropLabel` are Polaris and its users.

`InstanceDiff` keeps of a service the annotations that matter, and of an address
its readiness, pod index, protocol and the pod's labels. `Expected` is
`GetAddressMapFromEndpoints`; `NewInstance` and `UpdatedInstance` are what the two
batches send, which is not the same; `CompareInstanceUpdate` is what the comparison
looks at, which is not the same either. `Stored` is what Polaris keeps of the metadata
sent: besides `source` and `clusterName` it has `version` and `protocol`
(`PolarisDefaultMetaSet`). `broken` marks a metadata annotation that does not parse, of
which `mergeMetadataWithService` sends what did. `lost` and `sync.since` are history: aliases the
code has given up, and how much had changed or failed when the task was taken.

### ConfigSync

One ConfigMap: ConfigMaps share nothing but the queue. The informer's store, its
notifications and `configFileCache` hold *pointers* to the same objects, and
`syncConfigMap` writes the group annotation into the one the lister returns. So
`objs` is memory, a sequence of all objects there have been, and `cm`, `events`,
`configFileCache` and `worker[w].obj` are indices into it. A file in Polaris and
its release are named by the object they were sent from, which is what lets
`NeverRegresses` speak about age.

`HandleEvent`/`HandlerCaches` are `onConfigMapAdd/Update/Delete`; `TakeTask`,
`Prepare`, `LoadCache`, `Create`, `Update`, `Release`, `Delete`, `StoreCache` and
`ForgetCache` are `syncConfigMap` in its order; `Call` is any HTTP call of
`config_api.go`, which may fail before or after its effect.

### ConfigWatcher

`ListNamespaces`, `OpenWatch`, `WatchNamespaces` are `Start` and `watchNamespaces`,
`WatchEnds` and `StreamBreaks` the ends of the watch and of the discover stream,
after either of which the code goes on without it. `FetchResources` is a tick of
`fetchResources`: for a namespace that is known it asks for the groups and for the
list of each group known; `ReceiveGroups`, `ReceiveConfigFiles`, `SyncFile` and
`DropFile` are `doRecv` with `receiveGroups` and `receiveConfigFiles`, which waits for
the executor before it takes the next answer. `SyncFile` hands the file to a worker of
the `Executor` (`jobs`), which may be at work on another; `FetchConfigFile`,
`CreateCm`, `UpdateCm` and `FetchFails` are `fetchConfigFile` as that worker runs it.
`SyncConfigMap` is a completed task of the other direction, which the handlers insert for
what was or is to be synced (`ToSync`). `hops` in files and
ConfigMaps is history: how often a content has been mirrored.

### Manager

| in the model | in the code |
|---|---|
| `pc[p]` | how far a process is: down, a candidate, the steps of `run`, exiting |
| `starts`, `Identity` | host name and uuid: a name of its own at every start |
| `holder`, `waited`, `Observe`, `Acquire`, `Renew` | the lease, external: client-go's leader election |
| `age` | the leader's time since it renewed the lease |
| `CreateControllerContext`, `StartPolarisController`, `RegisterController`, `StartInformers` | `run`, up to its `select {}`; every error is `log.Fatalf` or a panic |
| `StoppedLeading`, `DeregisterController`, `Exit` | `RunOrDie` returns; the deregistration, if it is in time; the end of the process |
| `instance`, `Lapse` | Polaris: the entry of each process, healthy while it sends heartbeats |
| `Tick` | time, which passes only when nothing that is due is left undone |

### PatchBuild, InjectConfig, Webhook

A pod is what the API server holds: its four lists of items (init containers,
containers, volumes, pull secrets), its annotations, and the status annotation
of an earlier injection. `createPatch` is a sequence of operations made from the
pod as it came in; `ApplyPatch` applies them one by one, as JSON patches are.

| in the model | in the code |
|---|---|
| `disk`, `events` | the mounted volumes and fsnotify, external. `GetWatchList` does not name the bootstrap file (nor the values file) |
| `timerC`, `loading` | the debounce timer of `Run`; how far `loadConfig` has read |
| `templates`, `cert`, `meshConfs` | `SafeTemplateConfig`; a request keeps the pointer to the mesh configuration it got, hence a sequence |
| `WatchEvent`, `TimerFires`, `ReadFile`, `UpdateTemplateConfig` | `Run` and `UpdateTemplateConfig`, or `NewTemplateConfig` after a start |
| `GetInjectMode`, `SetOnDemand`, `GetTemplate` | `assignPodDataInfo` and the checks of `getPodPatch` |
| `GetMeshEnvoyConfig`, `Render`, `GetRootCert`, `CreateRootCert`, `Patch` | the rest of `getPodPatch`: the template, then `createPatch` with the calls it makes |
| `Submit`, `CallAgain`, `Validate`, `Resubmit` | users and the API server, with `failurePolicy: Fail` |
| `Crash` | the runtime ends the process when the map of a mesh configuration is written while a template reads it |
| `own`, `past` | history, for the properties |

## 4. Runs

| run | question | bounds that make it happen |
|---|---|---|
| `task_queue` | is a task lost, shared or stuck? | 2 workers, 3 tasks, 1 retry, 4 failures: a task can fail, be put back by itself and by `handleTask`, and be dropped, while another is held; shutdown anywhere |
| `service_removed` | does a removed service leave instances behind? | 1 worker, 2 changes, missed deletions of the service and of its Endpoints, a failing batch, a refused one, a restart |
| `service_live` | do two workers on one service end right? | 2 workers, a change of attributes or endpoints, a refused batch |
| `service_restart` | what do a restart, an outage, a failing query lose? | demand mode, namespace annotation, 3 failing probes (what it takes to be reported down), 1 restart, a missed deletion, a failing query, a foreign registration |
| `config_safety` | what may reach Polaris at all? | 2 workers, every kind of ConfigMap, restart, failing calls, missed deletions |
| `config_converges` | are files and releases right whenever nothing is left to do, is that point reached, and is nothing older than before published on the way? | 1 worker, 3 changes (create, change, delete or turn private), 2 failing calls |
| `config_watcher` | do the two directions feed each other? | 2 files, 3 ConfigMaps in the chain of names that would build a cycle, 3 changes by users on either side or of the namespace (enough to delete it and create it again), 1 failing call, end of the watch or of the stream, 2 workers with room for 1 file. A tick happens when no answer is unread; users' ConfigMaps all ask for their files to be synced to Kubernetes (`CmTags`) |
| `webhook_calls` | is a pod called for again injected exactly once? | 2 pods, 2 calls each, a mode label that changes, an edit between two submissions, 2 versions of the templates, 1 failing call; symmetric in the pods |
| `webhook_reload` | are the files on the disk in use whenever the loop has nothing left to do, and in the end? | 3 versions of the templates, so that a broken one can be repaired, 2 certificates, a broken one not repaired (then nothing is claimed), requests that may end the process |
| `service_detail` | does one undisturbed sync leave exactly the instances asked for, do instances, labels and alias become what Kubernetes says, and do the writes then stop? | 4 states of the service (plain; checked and weighted; out of range, stateful; metadata that parses in part), 5 of its address (ready or not, two protocols, a pod label that Polaris has a key for, labels that add and override keys, one that hides whose the instance is), 2 changes, 1 edit in Polaris, 1 missed heartbeat, 1 failing call of any kind |
| `manager` | does one process run the controllers, one at a time? | 3 processes, 2 on one host, durations 4, 2, 1 in the order of the defaults, 2 faults: a leader is cut off or fails, and so does its successor |

`service_detail` has one address because everything about an address depends on that
address, the service and nothing else. Section 6 gives the run that expects a
violation.

The bounds (`MaxChanges`, `MaxFaults`, `MaxRestarts`, ...) limit what the
environment does. Everything the controller does in reply is unbounded, but for
`MaxPending` and `MaxInFlight`: `Resync` waits when a service has that many tasks, a
tick when that many answers are unread. That leaves out only runs in which tasks pile up, and one more task than the workers have in
hand reads nothing the others could not. Nor does `config_watcher` lose a case by
`MaxInFlight` 1: one tick leaves several answers, which users overtake, and a second tick
before they are read would ask for lists that are answered as late. `CmTags` has no
`FALSE` there: such a ConfigMap makes a file with one reason more not to be mirrored.
One service and one ConfigMap suffice
because the code shares nothing between two of them except the queue, the
health flag and the clearing of the cache. Two workers are the least at which
one acts on an outdated reading of the other's work; the violations show that
they meet.

Runs that expect a pass use as many workers and faults as the property allows.
The limits were found with TLC, and they are statements about the code:

- `RemovedConverges` of `ServiceSync` fails with two workers, with a failing query, and
  when a batch fails more often than there are retries. It and `InstancesAccounted`
  except `orphans`, without which they fail, too, with a deletion that is refused, with a
  restart or a tombstone of Endpoints, and when `checkHealth` clears `serviceCache` after
  an outage: nothing but the cache remembers what must be removed;
- `RefusedOnlyForAgent` excepts the java agent: its patch replaces containers by the
  index they had before removals, so an injected pod cannot be injected with it
  again (it is refused, never admitted wrongly: `InjectedAsIntended`), and a pod
  without annotations makes it panic;
- `ConfigConverges` and `NoUpdateLost` leave out the mesh configuration, and fail if a
  broken bootstrap file is repaired: its volume is not watched, so that the
  attempt given up for it leaves new templates read but unused, and no event comes;
- `ForeignUntouched` fails with two workers: an address freed by one is taken by
  someone else and removed by the other, which acts on the view it has;
- `RemovedConverges` and `PublishedConverges` of `ConfigSync`, and with them
  `QuietIsSynced`, fail with two workers (as does `NeverRegresses`),
  with a restart, with missed deletions, if a creation or release fails before
  the ConfigMap is deleted (the cache is only written at the end), if the group
  annotation changes (the file of the old group is never deleted), and if
  Polaris refuses to update a file that does not exist (`UpdateCreates`);
- `Settles` excepts the instances of `Churns`, `InstancesConverge` those of `Orphaned`,
  and `AliasConverges` the aliases in `lost`: section 6 says why;
- `MirrorConverges` and `NamespacesFollowed` claim nothing of what a broken stream or an
  ended watch no longer tells.

## 5. Fairness

Fair are the goroutines that the code keeps running: workers and their ticker
loops (`wait.Until`), the resync and the health check, the informers' calls of
their handlers, the goroutine of the delaying queue, the ticker of
`fetchResources`, `Start` up to its end, the loop of `doRecv`, the workers of the executor. In
`ServiceSync` taking a task is strongly fair per service and number of retries:
the queue is first in, first out, so no task is passed over for ever, although
with `Resync` adding tasks an idle worker is not always there to enable it for
good. `ConfigSync` needs weak fairness only, as nothing adds tasks for ever.
In `Webhook` only the goroutine of `Run`, and the process
being started again, are fair. `ServiceDetail` has one worker that goes on, and a
resync that brings it the service again and again. In `Manager` time passes, each
process goes on and is started again by Kubernetes, the API server is reached again in
the end, and entries without heartbeats lapse; that a deregistration is in time is not
assumed. Changes made by users, failing calls, failing probes, missed deletions and
refusals and restarts are never fair. That a call of Polaris or Kubernetes returns is an
assumption. The code has a timeout of 10 s for the calls of the Polaris SDK only
(`polaris-controller-manager.go:497`): those over HTTP use `http.DefaultClient`
(`service_api.go:762`), which has none, so that a call without an answer keeps its worker
for good.

## 6. What does not hold

The run `service_creates` ends with a counterexample; `PROJECT.json` quotes the comment
of the repository that says otherwise. `onServiceUpdate` (`service.go:73`) stores the
old object in `serviceCache` even when it was never synced; from then on every task
takes the path of an update, and the service is never created in Polaris.

What follows was met while modelling and has no run of its own.

What the exception of `orphans` stands for, and what else removals suffer from:

- A deletion of instances that Polaris refuses with 401000 (`service_api.go:261`, and 273
  for a single instance) is no error: `syncService` forgets the service
  (`service.go:161`) with its instances registered. An addition that is refused
  (`service_api.go:145`) is none either, but the resync tries it again.
- `onEndpointDelete` (`endpoint.go:86`) asserts that it is given Endpoints, where the
  informer delivers a `DeletedFinalStateUnknown` for a deletion it missed: the panic ends
  the process. (`onServiceDelete` and `onConfigMapDelete` check, and drop it.)
- What the process had registered before such an end, any other restart, or an outage that
  lets `checkHealth` clear `serviceCache`, is removed only if its service is synced again
  first.
- A query that fails during a deletion (`apis.go:221`) leaves all of its instances.

Seen with a configuration changed as said:

- `RemovedConverges` of `ServiceSync` with two workers, one change and no fault
  (`service.go:146`): a worker that has read a service registers its instances after
  another has handled its deletion. `serviceCache` then has the service,
  `resyncServiceCache` has not, and no event will come.
- `RemovedConverges` of `ConfigSync` with the one object `[kind |-> "synced",
  group |-> NoGroup]` (`configmap.go:125`): the default group is set in a copy, the
  lister's object is cached without it, and the deletion asks for group "".
- `PublishedConverges` with two workers and one update: the worker that read the
  older ConfigMap may write last, and the resync, which inserts tasks of type
  service (`rsync.go:60`), never looks at a ConfigMap again.
- `watchPolarisConfig` (`configmap.go:286`) writes ConfigMaps also with `syncDirection`
  `kubernetesToPolaris`, which `options/polaris.go:50` says only goes the other way:
  set `Direction` so, and `ReceiveConfigFiles` is still taken.
- `SetOnDemand` changes the mesh configuration of all pods (`common.go:61`): the
  next pod in mesh mode is rendered with on-demand loading though `pod.go:135` has it
  asked for explicitly, and a reload takes it from the pod that did.

What the exceptions in the properties of `ServiceDetail` stand for:

- Updates for ever, one in each resync: the port of an address changes its protocol
  (`compareInstanceUpdate` looks at it, `updateInstances` does not send it); a pod label
  overrides a key of the metadata annotation; and, in a service without that annotation,
  every pod with a label of its own. Of these `isPolarisInstanceHasCustomMeta`
  (`apis.go:351`) counts the keys: the four that every registered instance has
  (`PolarisDefaultMetaSet`, `types.go:128`) are as many as it allows, so that any
  label besides is taken for metadata the user has removed.
- A pod label `source` or `clusterName` overrides the controller's own key: the
  instance is not recognised as the controller's, added again in every resync and
  never removed.
- Never brought up to date: a `ttl` that changes within 1..60, keys taken out of a
  metadata annotation, pod labels, labels the service no longer has.
- An alias whose creation fails on the update path, or whose object is overtaken by the
  next update before it was synced, is never created; `README.md:38` says the alias is
  created when the service is synchronised.
- The resync sets an instance healthy that Polaris found without heartbeats, because
  an address of Endpoints always counts as healthy.
- The range of a custom weight is not checked: `w >= 0 || w <= 100`
  (`address.go:83`) is always true.

And in `ConfigWatcher` and `Manager`: a namespace listed by `Start` and deleted before
the watch is opened stays known; neither a closed watch nor a broken stream is opened
again; a registration that fails is not tried again, and one for which `net.Dial` fails
panics on the nil connection.

## 7. What is abstracted, and what is assumed of others

- The queue, the informers and the listers are client-go's and modelled from
  how the code uses them. Informers are created with a resync period of 0: no
  notification comes without a change.
- Polaris is modelled by the codes that the code tolerates: an instance that
  exists already is left as it is (400201), a batch to add or delete that is refused, as
  a whole or for some instances (401000), does nothing for these and is no error, a file
  that exists already is no error, instances of a service that was not created are
  accepted. A batch that fails may have reached any part of its instances.
- A query sees all writes that completed before it; one that fails is the empty list
  (`getAllInstance` drops the error). The first is more than the code knows:
  `GetAllInstances` is the SDK's, which may answer from a cache of its own.
  `ForeignUntouched` and the properties of removals rest on it: on an answer from before
  a registration, a removal misses what was registered.
- Polaris adds to the metadata of a registered instance the keys of
  `PolarisDefaultMetaSet` that were not sent, which are `version` and `protocol`, and keeps
  the values that were sent: `types.go:128` says that every instance has these keys, and
  the controller sends two of them only.
- A release publishes the stored content or the content in the request: the code
  sends both, and the model takes either. `UpdateCreates` says whether a PUT of a
  missing file creates it.
- Of `ServiceSync` are left out the attributes that `ServiceDetail` has, the override of
  a service's Polaris name, and `syncPolarisService` of namespaces. An address stands
  for an ip and a port.
- Of `ServiceDetail`: services not to be synced and `enableRegister` (so that every
  update leads to `processSyncInstance`; the `WorkloadKind` case of
  `processUpdateService` is never reached), several workers, the split of batches, and
  a service in Polaris whose metadata is null, for which `updateService` would write
  into a nil map. So are a metadata annotation `null`, with which
  `mergeMetadataWithService` writes into a nil map and the process ends (`apis.go:412`), and
  the values of version and protocol in the metadata: only their number and that a label or
  an annotation replaces them matter.
- Of `ConfigSync`: the namespace annotation (a change of it enqueues no ConfigMap)
  and the resync, which does not reach ConfigMaps (section 6).
- Of `ConfigWatcher`: one namespace; the mirror names of two files are taken to differ;
  an answer of the stream is the list at the time it was asked for; an update of a missing
  file creates it. An Error event of the namespace watch, which carries a `Status`, makes
  `watchNamespaces` panic (`configmap.go:425`) and is left out: a watch that fails is
  taken to end.
- Of `Executor`: `DelayExecute`, `IntervalExecute`, the keyed tasks and `Stop`, which
  have no caller in the program.
- Of `Manager`: a start without `--leader-elect`; a process suspended for longer than
  the lease that then goes on; calls to Polaris still under way when the lease passes
  to another process; clocks of different speed; reading of flags and files.
  `log.Fatalf` is taken to end the process, which it does unless the output level of
  the default log scope is below fatal.
- Of the webhook: the environments, images and labels of containers, DNS and
  security settings, the values file, the validation of annotation values, and
  errors of rendering a template. An API call whose error is only logged leaves a
  container without its environment (`configured`). The copy of the root
  certificate is never refreshed; its content is not in the model.
- Not to be modelled: logging, metrics, flags, debug servers.

## 8. Proofs

Every safety invariant of the passing runs is a theorem, and so are the action
properties and the refinement. The assumptions on constants are
the named `ASSUME`s of the modules, which TLC evaluates in every run. Where a theorem needs
more, it says so in an `ASSUME` of its own, which the run of the property satisfies;
what goes wrong without it is said below or in section 4.

### Task queue

`TaskQueueProofs` proves, for every number of tasks, workers, retries and
failures, `Spec => []IInv` (`IInvInvariant`) and from it the four safety
properties of the run: `TypeCorrect`, `TaskExclusion`, `TasksKept`,
`CountsForgotten`; and the refinement `Spec => Ledger!Spec` (`Refinement`). None of the
four is inductive. `OneWorkerPerTask` needs that the queue
has each pointer once and none that is held (`QueueInv`: `queue` is injective and
its range is `dirty \ processing`) and that `processing` is exactly what workers
hold; `NoTaskLost` needs that a task whose attempt failed is scheduled again
*before* its worker lets go of it (`WorkerInv`). The lemmas state what `Add`,
`Head` and `Tail` do to an injective sequence; the step lemma takes one action at a
time. The refinement uses the same invariant: a task taken by a worker is one that
the ledger has due and not running because `processing` is what workers hold, and a
task becomes due or stops being so exactly when the mapped set says so.

### Configuration, Kubernetes to Polaris

`ConfigSyncProofs` proves, for any groups, ConfigMaps, workers and bounds,
`Spec => []IInv`, `ConfigTypeCorrect` and `OnlySyncedSent`: every file and every
release in Polaris was sent from an object that was to be synced. The
difficulty is that objects are mutated in place while indices to them are held
everywhere. `Grown` says what any step may do to memory: objects are added, none
changes its kind, indices stay indices. `WorkerSound` says that a worker about to
create, update or release holds an object to be synced, and
`OnlySyncedReachesPolaris` follows once `Grown` carries it over each step.

Three more theorems are about what Polaris ends up with. They assume `Plain`: one worker,
one group, deletions allowed, no restart, and neither a creation nor a release
fails. `FileInv` is their invariant: the release is never newer than the file, a
worker never holds an object older than the file, and where it is in its task says what
file and release are (`InOrder`). From it follow `FilesAreAccounted` (what Polaris has,
`configFileCache` has, or a worker is about to store) and `ReleasesInOrder` (no release of
an earlier state of the ConfigMap, although a retry sends whatever the lister has by
then).

`QuietAndSynced` is the safety half of convergence: when no notification, task or busy
worker is left, Polaris publishes the ConfigMap as it is, or has nothing of one that is gone
or withdrawn. It assumes moreover (`Steady`) that calls fail no more often than a task is
retried, that an update creates what it does not find, and that no deletion is
missed. For every state that is not yet right, `SyncInv` names what will see to it: a
ConfigMap not yet published has a notification, a task, or a worker that holds this very
object and has still to release it (`ToPublish`); a file that must go has the
notification of the withdrawal, a task, or a worker that has seen it (`ToRemove`), and so
has a worker that is about to cache an object no longer to be synced. That a failing task
is always put back is `Tries`: it has not been retried more often than calls have failed.
That some such state is always reached is what `PublishedConverges` and
`RemovedConverges` add, and TLC checks.

### Services

`ServiceSyncProofs` proves `Spec => []HInv` and from it `ResyncExact`: when the handlers
have no event left, `resyncServiceCache` has exactly the services to be synced, each as
it is now. `Steady` is assumed: the namespace annotation does not change and the
informer misses no deletion of a service. Without it the statement is false: a change of the
annotation leaves `resyncServiceCache` as it is, and `onServiceDelete` does not handle the
tombstone of a missed deletion.
`ResyncTracksServices` speaks of the moment when nothing is left to handle;
the invariant (`History`) speaks of all others. For each service there is a sequence of
values that begins with what the cache has, or will have when the running handler has
stored, passes through the old and the new object of each undelivered event of that
service, and ends with what Kubernetes has. A change lengthens it at the end, a handler
shortens it at the beginning, and after a restart it is the informer's initial list,
which is why `Services` is assumed finite. (A tombstone of Endpoints is such a restart.)
That workers, health check and resync
leave all of this alone is part of the proof.

The same module proves `TypeCorrect` from `TInv`, without assumptions, and from it
`OthersUntouched`: an instance that another client registered is never updated or
deleted. A worker sends its batches on a view of the registry that may be out of date, and
a query may fail. What makes it right is `ViewOwned`: what the view has as the
controller's own is still its own when the batch is sent, because other clients take
only addresses that are free. This needs one worker: a second one can free an address
that the first still takes for its own.

It proves, too, `Spec => []AInv` and `AlwaysFound`: of what the controller has registered for
a service, apart from `orphans`, there is nothing unless `serviceCache` has the service or
the worker is about to store it. `Calm` is assumed: one worker and no failing query.
Writes may fail or be refused in part, the process may be started anew or lose its cache at
any time, and other clients may register addresses. The property
rests on what `ForgetCache` and `StoreCache` do, hence on what the worker holds when it gets there,
which is what `WorkerOk` says: it has a service to store, and what it saw of the registry
before a removal has all that remains there. `orphans` is as small as it can be: a
deletion without error adds the instances it was to delete and did not reach
(`DeleteAllResult`), the loss of the cache those that are registered, and the next sync of
the service ends the exception.
A query that fails makes the statement false, because the worker then finds nothing to
remove and forgets the service.

From all of these follows `RemovedWhenAtRest`, the safety half of `RemovedConverges`: when no
service event is left to handle, no task is queued and the worker is idle, nothing is
registered of a service that is gone or no longer to be synced, apart from `orphans`. The
invariant is `RInv`
(`RemovalTracked`). Of such a service either the change has yet to be handled
(`Announced`), or a task is queued (`Queued`), or the worker is on its way to remove what
it sees, and it sees all there is (`Removing`); each of the three is needed. A worker
that found the service before the change counts as an instance (`Registers`), as it
will still register some. `HInv` gives that the events are those of the changes,
`AlwaysFound` that a worker that does not find the service cached has nothing to
remove, and `FailureQueued` that no failed removal is dropped. For the last, a task has been
retried no more often than writes have failed, and `Retrying` assumes, besides `Calm` and
`Steady`, that no more writes fail than a task has retries: otherwise the task is dropped,
and TLC finds the instance that stays. Only for a service that is gone is that no
problem, as `syncService` then puts the task back a second time, so the proof treats the
two kinds of removal (`purge`, `unsync`) apart. A start without cache (`AnewTracked`) leaves
no task and no event of the removal; what was registered until then is `orphans`.

### Instances of one service

`InstanceDiffProofs` proves, for any service, address, finite set of labels and instance, when
the comparison finds an instance to differ that was just sent, as Polaris keeps it. Both
theorems are equivalences. One just updated (`UpdateSettles`) is updated again if and only
if its protocol has changed or its pod's labels do not fit (`MetadataFits`); these
are the cases in which the code repeats its updates for ever (section 6), and there are no
others. One just added (`AddSettles`) is updated if and only if its labels do not fit or
it has a health check, with which it starts out unhealthy. The keys of a service without
annotation are counted in `KeysCounted`: the default keys and the labels are more than the
default keys just when some label is none of them.

Of the whole sync it proves `DetailTypeCorrect` and `OneSyncExact`: whatever earlier syncs,
stopped at any of their batches or made for other states of the service, have left behind,
a sync during which nothing changes and nothing fails ends with exactly the instances
that the endpoints ask for, with weight, isolation, health check and metadata. `EInv` says,
as long as the sync is undisturbed, that it works on the service as it is now (`Current`)
and what is left to do at each stage: before the first batch all that the
comparison found, before the second no address is missing, before the third each address
is as asked for and every surplus instance is among those to be deleted. The step from
each stage to the next compares what the batch sends with what the comparison looked at,
which is where `CompareInstance` could leave a difference unsent.

`SyncLeavesNothing` is the safety half of `Settles`: what a next sync would find after such a
sync (`NextTodo`) is nothing to delete, nothing to add but what it does not recognise as
the controller's, and nothing to update but the cases of `Churns` and instances with a
health check that were just added and wait for their first heartbeat. Both exceptions
are needed: without either TLC finds a counterexample. The invariant, `SInv`, adds to
`EInv` what each batch has `Settled`: after the comparison whatever is not to be updated,
after the updates every address. `UpdateSettles` and `NotUpdated` are used for each
instance, as it was sent.

`AliasesAccounted` is about a property no run checks as such: the alias of the cached object,
for which no later sync asks, exists or was lost in one of the two ways of section 6.
So there are no other ways, and `AliasConverges` excepts no more than it must.

### Configuration, Polaris to Kubernetes

`ConfigWatcherProofs` proves `Spec => []IInv` and `NothingEchoes`: with both directions on,
nothing that came from Polaris is sent to Polaris again. The invariant counts how
often a content was mirrored, in all three places it can be: at most once in a file
(`FileHops`) and in a fetch under way (`FetchHops`), and never in a ConfigMap without the
source label (`CmHops`), which is the only kind that `SyncConfigMap` sends. A ConfigMap from
Polaris that a user replaces by one without the label, a file overwritten during a fetch
and two files with one ConfigMap between them are all among the steps.

`WatcherTypeCorrect` says more than types: a file that is being fetched is one that
is needed, and no ConfigMap is in a namespace that is gone. Its invariant `WInv`
ties the map of needed files, the workers' channels and the fetches together: a fetch
under way is of a file queued with some worker and not in the batch being handed out. A
list that would take the file out of the map is only handled when the executor is
empty.

`NamespacesKnown` is the safety half of `NamespacesFollowed`: with the watch open and no event
left, a namespace that is there is known, also one created between the list of `Start` and
the opening of the watch. It rests on the last event under way telling what is there now
(`LastEvent`). The converse is false (section 6).

### Webhook

`WebhookProofs` proves `Spec => []IInv` and `CertificateThere`, for any pods, templates and any
reloading of the configuration. `Served` says what a request may rely on at each of the
three steps after the template was rendered. It holds for all requests at once because the
copy of the certificate, once there, stays, and because a request's pod and mode are
its own.

`UpdatesNotLost` proves `NoUpdateLost`: whenever the loop of `Run` has no event, no timer
and no loading left, templates and certificate in use are those on the disk. A change may
come between any two of the files that `loadConfig` reads, and an attempt is given up at the
first file that cannot be read. `UpdateInv` is its invariant: no timer is set while the
loop loads, and as long as no event is there, what was read so far of a watched volume
is what is there. `CInv` is under it: a version read or in use is one the volume has
held. The theorem assumes that the bootstrap file is never broken; section 4 says why.

`WebhookTypeCorrect` adds `RInv` of the requests; in particular the mesh configuration a
request has a pointer to is among those kept, however often it is replaced meanwhile.

### Injection

`InjectionProofs` proves `InjectedAsIntended` (`PodsAsIntended`) and `RefusedOnlyForAgent`
(`RefusedOnlyByAgent`), for any pods, templates and numbers of calls. There are two parts.

The first is about `createPatch`, with no state: all of its operations are made from the
pod as it came in and applied one after the other, to lists that change under them. A
patch is applied by a recursive function; that a fact holds after every one of its
operations is shown by induction over the natural numbers, for sets (`NatSetInduction`,
from the well-foundedness of `<`) as the library's theorems take a predicate. So
`Removed` says that removals from the last index to the first leave what is not named, in
its order; `Added` that what is added follows it; `Updated` that the agent's
replacements find their container as long as nothing was removed before it. `PatchMade`
puts the four lists and the stages together: what a patch makes of a pod, or that it fails.

The second is the invariant, `Known`. Neither property is inductive, since they speak of
pods that run or were refused only, and a pod between two calls is neither. `Held` says of
a pod in any state of its requests that each list has its user's names and after them
those that the last injection added, that the status annotation names just these (so that the
next removal finds them all, and nothing else), and how often the agent is mounted at
least. What it is at most, and that it is mounted once, follows from the API server's
`ValidPod`: a second injection of the agent is refused. `KnownStep` goes through the actions;
`SetOnDemand` and a change of the templates between two calls are among them.

Three assumptions on constants are needed; without either of the first two TLC finds a
counterexample, in a configuration changed accordingly:

- `UserPodsAssumption`: a pod comes without a status annotation, would be admitted as it
  is, and uses none of the injector's names. The code does not look at names: a user's
  volume `polaris-log` makes for two of that name, and the pod is refused.
- `TemplatesAssumption`: a template injects each name once, only the java agent's has the
  agent's volume, and it adds no container, as in the ConfigMaps under `deploy`. If it added
  one, a pod that had a sidecar before would be admitted with that container replaced.
- `NullAssumption`: `Null` is not one of the values it stands for the lack of.

### Manager

`ManagerProofs` proves, for any processes, hosts and durations, `Spec => []IInv`,
`ManagerTypeCorrect` and `Exclusion`: no two processes run the controllers at once.
`OneActive` is not inductive. The invariant says that the lease names the active
process (`LeaseHeld`), and that every other process has been waiting since its last
sight of the lease for no longer than the leader has gone without renewing it. The
leader gives up at `RetryPeriod + RenewDeadline`, another takes over no sooner than at
`LeaseDuration`; `ManagerAssumption` has the first below the second, as the defaults
(2 s, 10 s, 15 s) have it.

### Only model-checked

- Whatever needs fairness, which is out of the prover's reach: `EveryTaskSettles`, the
  properties named `...Converges`, `NamespacesFollowed`, `Settles`, `LabelsConverge`,
  `TakesOver`, `SelfRegistered`.

Of these, the safety half is proved for `NamespacesFollowed` (`NamespacesKnown`), for
`PublishedConverges` and `RemovedConverges` of `ConfigSync` (`QuietAndSynced`), for
`RemovedConverges` of `ServiceSync`, as far as no deletion of a service is missed
(`RemovedWhenAtRest`), for
`ConfigConverges` (`UpdatesNotLost`), for `InstancesConverge` (`OneSyncExact`) and for
`Settles` (`SyncLeavesNothing`).

## 9. What is left

1. The override of a service's Polaris name, whose change leaves what is registered
   under the old name.
2. Two namespaces in `ConfigWatcher`, one of which goes while the other's answers are
   under way.
