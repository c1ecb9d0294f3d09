------------------------------ MODULE ConfigSync ------------------------------
(***************************************************************************)
(* Synchronisation of one ConfigMap into the Polaris configuration centre  *)
(* (pkg/controller/configmap.go, pkg/polarisapi/config_api.go).            *)
(* ConfigMaps share nothing but the queue.                                 *)
(*                                                                         *)
(* The informer's store, its notifications and configFileCache hold        *)
(* pointers to the same objects, and syncConfigMap writes into the one it  *)
(* gets from the lister.  So every state of the ConfigMap is an entry of   *)
(* objs, and everything else refers to it by its index.  A file's content  *)
(* is named by the object it was sent from.                                *)
(***************************************************************************)
EXTENDS Naturals, Sequences

CONSTANTS
  Groups,          \* values of the group annotation
  DefaultGroup,    \* configSync.defaultGroup, or the cluster's name
  NoGroup,         \* the group annotation is absent: "" in a request
  Objects,         \* ConfigMaps: kind and group annotation
  Workers,         \* --concurrent-polaris-syncs goroutines
  MaxRetries,      \* maxRetries
  AllowDelete,     \* configSync.allowDelete
  UpdateCreates,   \* Polaris creates the file if a PUT finds none
  FailingCalls,    \* the calls of Polaris that may fail
  MissedDeletes,   \* the informer may miss a deletion and deliver a tombstone
  Idle,
  MaxChanges,      \* bound: changes of the ConfigMap
  MaxFaults,       \* bound: failing calls of Polaris
  MaxRestarts      \* bound: restarts of the controller

ASSUME ConfigSyncAssumption ==
  /\ DefaultGroup \in Groups
  /\ NoGroup \notin Groups
  /\ Objects \subseteq [kind : {"synced", "private", "fromPolaris"},
                        group : Groups \cup {NoGroup}]
  /\ MaxRetries \in Nat
  /\ AllowDelete \in BOOLEAN /\ UpdateCreates \in BOOLEAN
  /\ MissedDeletes \in BOOLEAN
  /\ FailingCalls \subseteq {"create", "update", "release", "delete"}
  /\ MaxChanges \in Nat /\ MaxFaults \in Nat /\ MaxRestarts \in Nat

VARIABLES
  objs,            \* every object there has been, as it is in memory
  cm,              \* the object in the informer's store, or None
  events,          \* notifications not yet handled
  handler,         \* what onConfigMapUpdate still has to cache, or None
  pending,         \* tasks in the queue, by operation and retries used
  configFileCache, \* the object last synced, or None
  worker,          \* what each worker goroutine is doing
  files,           \* Polaris: the object each group's file was sent from
  published,       \* Polaris: the object each group's release was sent from
  used             \* how much of each bound is used up

vars == <<objs, cm, events, handler, pending, configFileCache, worker, files,
          published, used>>
polarisVars == <<files, published>>

None == 0
Ops == {"Add", "Update", "Delete"}
Retries == 0..MaxRetries
IdleWorker ==
  [pc |-> "idle", op |-> Idle, retries |-> 0, obj |-> None, group |-> NoGroup]
NoTasks == [o \in Ops |-> [r \in Retries |-> 0]]
NoFiles == [g \in Groups \cup {NoGroup} |-> None]

(* The informer adds the ConfigMap there is when the controller starts. *)
AddEvent(i) ==
  IF i = None THEN << >> ELSE << [type |-> "add", old |-> None, new |-> i] >>

Init ==
  /\ objs \in {<< >>} \cup {<<o>> : o \in Objects}
  /\ cm = Len(objs)
  /\ events = AddEvent(cm)
  /\ handler = None
  /\ pending = NoTasks
  /\ configFileCache = None
  /\ worker = [w \in Workers |-> IdleWorker]
  /\ files = NoFiles
  /\ published = NoFiles
  /\ used = [changes |-> 0, faults |-> 0, restarts |-> 0]

Use(bound, max) ==
  /\ used[bound] < max
  /\ used' = [used EXCEPT ![bound] = @ + 1]

(* Not what came from Polaris, and with the sync annotation of the object,   *)
(* or else of its namespace, set.                                            *)
IsPolarisConfigMap(i) == objs[i].kind = "synced"

-----------------------------------------------------------------------------
(* Kubernetes. *)
SetConfigMap(o) ==
  /\ Use("changes", MaxChanges)
  /\ objs' = Append(objs, o)
  /\ cm' = Len(objs) + 1
  /\ events' = Append(events, [type |-> IF cm = None THEN "add" ELSE "update",
                               old |-> cm, new |-> Len(objs) + 1])
  /\ UNCHANGED <<handler, pending, configFileCache, worker, polarisVars>>

RemoveConfigMap ==
  /\ cm # None
  /\ Use("changes", MaxChanges)
  /\ cm' = None
  /\ \E type \in {"delete"} \cup (IF MissedDeletes THEN {"tombstone"} ELSE {}) :
       events' = Append(events, [type |-> type, old |-> cm, new |-> None])
  /\ UNCHANGED <<objs, handler, pending, configFileCache, worker, polarisVars>>

-----------------------------------------------------------------------------
(* The handlers.  onConfigMapUpdate first enqueues, then caches. *)
Enqueued(p, op, r) == [p EXCEPT ![op][r] = @ + 1]
Enqueue(op) == pending' = Enqueued(pending, op, 0)
Ignored == UNCHANGED <<pending, handler>>

onConfigMapAdd(event) ==
  IF IsPolarisConfigMap(event.new)
  THEN Enqueue("Add") /\ UNCHANGED handler
  ELSE Ignored

\* Mutant: an update is handled like an addition.
onConfigMapUpdate_OnlyNew(event) == onConfigMapAdd(event)

onConfigMapUpdate(event) ==
  LET oldIsPolaris == IsPolarisConfigMap(event.old)
      curIsPolaris == IsPolarisConfigMap(event.new)
  IN  \/ ~oldIsPolaris /\ ~curIsPolaris /\ Ignored
      \/ oldIsPolaris /\ ~curIsPolaris /\ Enqueue("Update") /\ UNCHANGED handler
      \/ oldIsPolaris /\ curIsPolaris /\ Enqueue("Update") /\ handler' = event.old
      \/ ~oldIsPolaris /\ curIsPolaris /\ Enqueue("Add") /\ UNCHANGED handler

(* A tombstone is no *v1.ConfigMap: it is dropped. *)
onConfigMapDelete(event) ==
  IF event.type = "delete" /\ IsPolarisConfigMap(event.old)
  THEN Enqueue("Delete") /\ UNCHANGED handler
  ELSE Ignored

HandleEvent ==
  /\ handler = None
  /\ events # << >>
  /\ events' = Tail(events)
  /\ LET event == Head(events)
     IN  \/ event.type = "add" /\ onConfigMapAdd(event)
         \/ event.type = "update" /\ onConfigMapUpdate(event)
         \/ event.type \in {"delete", "tombstone"} /\ onConfigMapDelete(event)
  /\ UNCHANGED <<objs, cm, configFileCache, worker, polarisVars, used>>

HandlerCaches ==
  /\ handler # None
  /\ configFileCache' = handler
  /\ handler' = None
  /\ UNCHANGED <<objs, cm, events, pending, worker, polarisVars, used>>

-----------------------------------------------------------------------------
(* The worker goroutines: syncConfigMap, step by step. *)
Worker(w, pc) == worker[w].pc = pc
Goto(w, pc) == worker' = [worker EXCEPT ![w].pc = pc]
Finish(w) == worker' = [worker EXCEPT ![w] = IdleWorker]

\* Mutant: the last retry is never made.
Retried_OneLess(p, w) ==
  IF worker[w].retries + 1 < MaxRetries
  THEN Enqueued(p, worker[w].op, worker[w].retries + 1) ELSE p

(* handleTask on an error: a retry, or the task is dropped.  A task that     *)
(* syncConfigMap has put back itself comes with the retries counted so far,  *)
(* or with none once the count is forgotten.                                 *)
Retried(p, w) ==
  LET r == worker[w].retries
  IN  IF r < MaxRetries THEN Enqueued(p, worker[w].op, r + 1) ELSE p
PutBack(w) ==
  LET r == worker[w].retries
  IN  Enqueued(pending, worker[w].op, IF r < MaxRetries THEN r + 1 ELSE 0)
Fail(w) == Finish(w) /\ pending' = Retried(pending, w)

environmentUnchanged == <<cm, events, handler>>
onlyWorker == <<environmentUnchanged, pending, configFileCache, polarisVars, used>>

(* configMapLister.Get is the first thing a worker does with a task. *)
TakeTask(w, op, r) ==
  /\ Worker(w, "idle")
  /\ pending[op][r] > 0
  /\ pending' = [pending EXCEPT ![op][r] = @ - 1]
  /\ worker' = [worker EXCEPT ![w] =
                  [pc |-> IF cm = None THEN "load" ELSE "prepare", op |-> op,
                   retries |-> r, obj |-> cm, group |-> NoGroup]]
  /\ UNCHANGED <<environmentUnchanged, objs, configFileCache, polarisVars, used>>

GroupOf(o) == IF o.group = NoGroup THEN DefaultGroup ELSE o.group

\* Mutant: the default group is not set.
Prepare_NoDefault(w) ==
  /\ Worker(w, "prepare")
  /\ worker' = [worker EXCEPT ![w].pc = "load", ![w].group = objs[worker[w].obj].group]
  /\ UNCHANGED <<onlyWorker, objs>>

(* The group annotation is set: in a copy for the task of an addition, in    *)
(* the lister's object for any other.                                        *)
Prepare(w) ==
  LET i == worker[w].obj
  IN  /\ Worker(w, "prepare")
      /\ worker' = [worker EXCEPT ![w].pc = "load", ![w].group = GroupOf(objs[i])]
      /\ IF worker[w].op = "Add" /\ IsPolarisConfigMap(i)
         THEN UNCHANGED objs
         ELSE objs' = [objs EXCEPT ![i].group = GroupOf(objs[i])]
      /\ UNCHANGED onlyWorker

\* Mutant: processUpdateConfigMap does not ask whether to sync any more.
LoadCache_SyncsPrivate(w) ==
  /\ Worker(w, "load")
  /\ IF worker[w].obj = None
     THEN IF configFileCache = None THEN Finish(w)
          ELSE worker' = [worker EXCEPT ![w].pc = "purge",
                                        ![w].group = objs[configFileCache].group]
     ELSE Goto(w, IF configFileCache # None THEN "update"
                  ELSE IF IsPolarisConfigMap(worker[w].obj) THEN "create" ELSE "store")
  /\ UNCHANGED <<onlyWorker, objs>>

(* What is in the cache decides between creating and updating, and names    *)
(* the file of a ConfigMap that is gone.                                     *)
LoadCache(w) ==
  LET i == worker[w].obj
      cached == configFileCache # None
  IN  /\ Worker(w, "load")
      /\ \/ i = None /\ ~cached /\ Finish(w)
         \/ /\ i = None /\ cached
            /\ worker' = [worker EXCEPT ![w].pc = "purge",
                                        ![w].group = objs[configFileCache].group]
         \/ /\ i # None
            /\ Goto(w, CASE ~cached /\ IsPolarisConfigMap(i) -> "create"
                         [] ~cached /\ ~IsPolarisConfigMap(i) -> "store"
                         [] cached /\ IsPolarisConfigMap(i) -> "update"
                         [] cached /\ ~IsPolarisConfigMap(i) -> "unsync")
      /\ UNCHANGED <<onlyWorker, objs>>

(* A call of Polaris about the worker's file: it has its effect, or it fails  *)
(* (with its effect, if only the answer is lost).                            *)
callUnchanged == <<environmentUnchanged, objs, configFileCache>>
Call(w, name, effect, next) ==
  \/ effect /\ Goto(w, next) /\ UNCHANGED <<pending, used>>
  \/ /\ name \in FailingCalls
     /\ Use("faults", MaxFaults)
     /\ effect \/ UNCHANGED polarisVars
     /\ Fail(w)

\* Mutant: an update sends the cached object.
SetFile_Cached(w) ==
  files' = [files EXCEPT ![worker[w].group] =
              IF configFileCache = None THEN worker[w].obj ELSE configFileCache]

SetFile(w) == files' = [files EXCEPT ![worker[w].group] = worker[w].obj]

(* CreateConfigMap: a file that exists is left as it is, without an error. *)
Create(w) ==
  /\ Worker(w, "create")
  /\ Call(w, "create",
          /\ IF files[worker[w].group] = None THEN SetFile(w) ELSE UNCHANGED files
          /\ UNCHANGED published,
          "release")
  /\ UNCHANGED callUnchanged

(* UpdateConfigMap. *)
Update(w) ==
  /\ Worker(w, "update")
  /\ IF files[worker[w].group] # None \/ UpdateCreates
     THEN Call(w, "update", SetFile(w) /\ UNCHANGED published, "release")
     ELSE Fail(w) /\ UNCHANGED <<polarisVars, used>>
  /\ UNCHANGED callUnchanged

\* Mutant: a file is updated and not released.
Release_OnlyOnce(w) ==
  /\ Worker(w, "release")
  /\ Goto(w, "store")
  /\ published' = IF published[worker[w].group] = None
                  THEN [published EXCEPT ![worker[w].group] = worker[w].obj]
                  ELSE published
  /\ UNCHANGED <<callUnchanged, files, pending, used>>

(* releaseConfigMap: Polaris publishes the file it has, or the content in    *)
(* the request.                                                              *)
Release(w) ==
  LET g == worker[w].group
  IN  /\ Worker(w, "release")
      /\ IF files[g] # None
         THEN \E content \in {files[g], worker[w].obj} :
                Call(w, "release",
                     /\ published' = [published EXCEPT ![g] = content]
                     /\ UNCHANGED files,
                     "store")
         ELSE Fail(w) /\ UNCHANGED <<polarisVars, used>>
      /\ UNCHANGED callUnchanged

\* Mutant: a deletion that fails is not put back.
Delete_GivesUp(w) ==
  /\ worker[w].pc \in {"purge", "unsync"}
  /\ \/ files' = [files EXCEPT ![worker[w].group] = None]
        /\ published' = [published EXCEPT ![worker[w].group] = None]
        /\ UNCHANGED used
     \/ "delete" \in FailingCalls /\ Use("faults", MaxFaults) /\ UNCHANGED polarisVars
  /\ Goto(w, IF Worker(w, "purge") THEN "forget" ELSE "store")
  /\ UNCHANGED <<callUnchanged, pending>>

(* processDeleteConfigMap.  If the ConfigMap is gone, syncConfigMap puts the  *)
(* task of a failed deletion back, and handleTask retries it as well.        *)
Delete(w) ==
  LET g == worker[w].group
      next == IF Worker(w, "purge") THEN "forget" ELSE "store"
      deleted == /\ files' = [files EXCEPT ![g] = None]
                 /\ published' = [published EXCEPT ![g] = None]
  IN  /\ worker[w].pc \in {"purge", "unsync"}
      /\ \/ /\ ~AllowDelete
            /\ Goto(w, next)
            /\ UNCHANGED <<polarisVars, pending, used>>
         \/ /\ AllowDelete
            /\ deleted
            /\ Goto(w, next)
            /\ UNCHANGED <<pending, used>>
         \/ /\ AllowDelete /\ "delete" \in FailingCalls
            /\ Use("faults", MaxFaults)
            /\ deleted \/ UNCHANGED polarisVars
            /\ pending' = Retried(IF Worker(w, "purge") THEN PutBack(w) ELSE pending, w)
            /\ Finish(w)
      /\ UNCHANGED callUnchanged

CacheObject(w, i) ==
  /\ configFileCache' = i
  /\ Finish(w)
  /\ UNCHANGED <<environmentUnchanged, objs, pending, polarisVars, used>>
(* The object cached is the lister's, not the copy. *)
StoreCache(w) == Worker(w, "store") /\ CacheObject(w, worker[w].obj)
ForgetCache(w) == Worker(w, "forget") /\ CacheObject(w, None)

WorkerStep(w) ==
  \/ Prepare(w) \/ LoadCache(w) \/ Create(w) \/ Update(w) \/ Release(w)
  \/ Delete(w) \/ StoreCache(w) \/ ForgetCache(w)

(* The controller restarts: what it kept is lost.  The informer lists the     *)
(* ConfigMap anew, without the annotations set in memory.                     *)
Restart(o) ==
  /\ Use("restarts", MaxRestarts)
  /\ IF cm = None THEN UNCHANGED <<objs, cm>>
     ELSE /\ o.kind = objs[cm].kind
          /\ objs[cm].group \in {o.group, GroupOf(o)}
          /\ objs' = [objs EXCEPT ![cm] = o]
          /\ UNCHANGED cm
  /\ events' = AddEvent(cm)
  /\ handler' = None
  /\ pending' = NoTasks
  /\ configFileCache' = None
  /\ worker' = [w \in Workers |-> IdleWorker]
  /\ UNCHANGED polarisVars

-----------------------------------------------------------------------------
Next ==
  \/ \E o \in Objects : SetConfigMap(o) \/ Restart(o)
  \/ RemoveConfigMap
  \/ HandleEvent \/ HandlerCaches
  \/ \E w \in Workers :
       \/ \E op \in Ops, r \in Retries : TakeTask(w, op, r)
       \/ WorkerStep(w)

(* The informer calls its handlers in turn, and wait.Until keeps the workers  *)
(* running, each taking some task when it is idle.  (In which order does not  *)
(* matter here: nothing adds tasks for ever.)                                 *)
Fairness ==
  /\ WF_vars(HandleEvent)
  /\ WF_vars(HandlerCaches)
  /\ \A w \in Workers :
       WF_vars(WorkerStep(w) \/ \E op \in Ops, r \in Retries : TakeTask(w, op, r))

Spec == Init /\ [][Next]_vars
FairSpec == Spec /\ Fairness

-----------------------------------------------------------------------------
Indices == 1..Len(objs)
Slots == [Groups \cup {NoGroup} -> {None} \cup Indices]

(* The shape of the state; no file is ever sent without a group. *)
TypeOK ==
  /\ objs \in Seq([kind : {"synced", "private", "fromPolaris"},
                   group : Groups \cup {NoGroup}])
  /\ cm \in {None} \cup Indices
  /\ handler \in {None} \cup Indices
  /\ configFileCache \in {None} \cup Indices
  /\ events \in Seq([type : {"add", "update", "delete", "tombstone"},
                     old : {None} \cup Indices, new : {None} \cup Indices])
  /\ pending \in [Ops -> [Retries -> Nat]]
  /\ worker \in [Workers ->
       [pc : {"idle", "prepare", "load", "create", "update", "release", "purge",
              "unsync", "store", "forget"},
        op : Ops \cup {Idle}, retries : Retries, obj : {None} \cup Indices,
        group : Groups \cup {NoGroup}]]
  /\ files \in Slots /\ files[NoGroup] = None
  /\ published \in Slots /\ published[NoGroup] = None
  /\ used \in [changes : Nat, faults : Nat, restarts : Nat]

IsLive == cm # None /\ IsPolarisConfigMap(cm)

(* IsPolarisConfigMap is asked of an object that may have been replaced, by    *)
(* a worker that may find another one cached.  Still, Polaris has and          *)
(* publishes only content of ConfigMaps that were to be synced: never of a     *)
(* private one, and never what came from Polaris itself (options/polaris.go:   *)
(* 52: no sync goes round in circles).                                         *)
OnlySyncedReachesPolaris ==
  \A g \in Groups \cup {NoGroup} :
    /\ files[g] # None => IsPolarisConfigMap(files[g])
    /\ published[g] # None => IsPolarisConfigMap(published[g])

(* syncConfigMap can undo only what it finds in configFileCache.  So there is  *)
(* never a file but of a cached ConfigMap, or one a worker is about to cache.   *)
FilesAccounted ==
  files # NoFiles =>
    \/ configFileCache # None
    \/ \E w \in Workers : worker[w].pc \in {"release", "store"}

(* With one worker, what readers of Polaris get never goes back to an earlier   *)
(* state of the ConfigMap, although a task is retried with whatever the lister  *)
(* and the cache hold by then.                                                 *)
NeverRegresses ==
  [][\A g \in Groups : published'[g] # None => published[g] <= published'[g]]_vars

(* Once Kubernetes and Polaris are quiet, Polaris publishes the ConfigMap as    *)
(* it is now, if it is to be synced.  No resync repairs what is missed.         *)
PublishedConverges ==
  <>[](IsLive => published[GroupOf(objs[cm])] = cm)

(* configmap.go:67: for a ConfigMap found deleted, what was registered for it   *)
(* is looked up in the cache and deleted.  So once all is quiet, nothing is     *)
(* left in Polaris of a ConfigMap that is gone or not to be synced any more.    *)
RemovedConverges ==
  <>[](~IsLive => files = NoFiles)

(* When no notification and no task is left and no worker is busy, Polaris       *)
(* publishes the ConfigMap as it is now, or has nothing if it is gone or not to  *)
(* be synced any more: neither the handlers nor the retries of handleTask let    *)
(* anything fall between them, and nothing that is still to come repairs it.     *)
QuietIsSynced ==
  /\ events = << >> /\ pending = NoTasks
  /\ \A w \in Workers : worker[w].pc = "idle"
  => IF IsLive THEN published[GroupOf(objs[cm])] = cm ELSE files = NoFiles

-----------------------------------------------------------------------------
(* The inductive invariant behind OnlySyncedReachesPolaris: a worker that is     *)
(* about to send an object has found it to be synced, and has a group for it.    *)
Sending == {"create", "update", "release"}
WorkerSound ==
  \A w \in Workers :
    LET k == worker[w]
    IN  /\ k.pc \in Sending \cup {"prepare", "unsync", "store"} => k.obj # None
        /\ k.pc \in Sending => k.group # NoGroup /\ IsPolarisConfigMap(k.obj)
        /\ k.pc = "load" /\ k.obj # None => k.group # NoGroup

IInv == TypeOK /\ WorkerSound /\ OnlySyncedReachesPolaris
=============================================================================
