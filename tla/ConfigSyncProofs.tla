--------------------------- MODULE ConfigSyncProofs ---------------------------
(***************************************************************************)
(* Proofs about ConfigSync for any groups, ConfigMaps, workers, retries    *)
(* and bounds: IInv is inductive, and with it only content of ConfigMaps   *)
(* that were to be synced ever reaches Polaris.  For one worker: FileInv,  *)
(* which relates the worker's object, the cache and the file, and SyncInv, *)
(* which says where what has still to be done is to be found.              *)
(***************************************************************************)
EXTENDS ConfigSync, SequenceTheorems, TLAPS

Record == [kind : {"synced", "private", "fromPolaris"},
           group : Groups \cup {NoGroup}]
Event == [type : {"add", "update", "delete", "tombstone"},
          old : {None} \cup Indices, new : {None} \cup Indices]
WorkerRecord ==
  [pc : {"idle", "prepare", "load", "create", "update", "release", "purge",
         "unsync", "store", "forget"},
   op : Ops \cup {Idle}, retries : Retries, obj : {None} \cup Indices,
   group : Groups \cup {NoGroup}]

-----------------------------------------------------------------------------
(* Objects are only added, and the one in the lister only gets a group:    *)
(* no step changes whether an object is to be synced.                      *)
Grown ==
  /\ objs' \in Seq(Record)
  /\ Len(objs) \in Nat /\ Len(objs') \in Nat /\ Len(objs) <= Len(objs')
  /\ \A i \in Indices : objs'[i] \in Record /\ objs'[i].kind = objs[i].kind

(* Every index names an object of its type. *)
LEMMA RecordsOf ==
  ASSUME TypeOK
  PROVE  /\ objs \in Seq(Record) /\ Len(objs) \in Nat
         /\ \A i \in Indices : i \in Nat \ {0} /\ objs[i] \in Record
<1>1. objs \in Seq(Record)
  BY DEF TypeOK, Record
<1> QED BY <1>1, ElementOfSeq, LenProperties DEF Indices

(* A step that leaves the objects alone. *)
LEMMA SameObjs ==
  ASSUME TypeOK, UNCHANGED objs
  PROVE  Grown
BY RecordsOf DEF Grown

(* syncConfigMap sets the group in the lister's object, or in a copy. *)
LEMMA PrepareGrown ==
  ASSUME TypeOK, WorkerSound, NEW w \in Workers, Prepare(w)
  PROVE  Grown
<1> DEFINE i == worker[w].obj
<1>1. i \in Indices
  BY DEF Prepare, Worker, TypeOK, WorkerSound, Sending
<1>2. GroupOf(objs[i]) \in Groups
  BY <1>1, RecordsOf, ConfigSyncAssumption DEF GroupOf, Record, ConfigSyncAssumption
<1>3. CASE UNCHANGED objs
  BY <1>3, SameObjs
<1>4. CASE objs' = [objs EXCEPT ![i].group = GroupOf(objs[i])]
  <2> DEFINE e == [objs[i] EXCEPT !.group = GroupOf(objs[i])]
  <2>1. e \in Record /\ e.kind = objs[i].kind
    BY <1>1, <1>2, RecordsOf DEF Record
  <2>2. objs' = [objs EXCEPT ![i] = e]
    BY <1>4
  <2> HIDE DEF e
  <2>3. /\ objs' \in Seq(Record) /\ Len(objs') = Len(objs)
        /\ \A j \in 1..Len(objs) : objs'[j] = IF j = i THEN e ELSE objs[j]
    BY <1>1, <2>1, <2>2, RecordsOf, ExceptSeq DEF Indices
  <2> QED BY <1>1, <2>1, <2>3, RecordsOf DEF Grown, Indices
<1> QED BY <1>3, <1>4 DEF Prepare

(* The object the informer lists anew is of the same kind. *)
LEMMA RestartGrown ==
  ASSUME TypeOK, NEW o \in Objects, Restart(o)
  PROVE  Grown
<1>1. o \in Record
  BY ConfigSyncAssumption DEF ConfigSyncAssumption, Record
<1>2. CASE cm = None
  BY <1>2, SameObjs DEF Restart
<1>3. CASE cm # None
  <2>1. cm \in Indices /\ o.kind = objs[cm].kind /\ objs' = [objs EXCEPT ![cm] = o]
    BY <1>3 DEF Restart, TypeOK
  <2>2. /\ objs' \in Seq(Record) /\ Len(objs') = Len(objs)
        /\ \A j \in 1..Len(objs) : objs'[j] = IF j = cm THEN o ELSE objs[j]
    BY <1>1, <2>1, RecordsOf, ExceptSeq DEF Indices
  <2> QED BY <1>1, <2>1, <2>2, RecordsOf DEF Grown, Indices
<1> QED BY <1>2, <1>3

(* A change of the ConfigMap adds an object. *)
LEMMA SetGrown ==
  ASSUME TypeOK, NEW o \in Objects, SetConfigMap(o)
  PROVE  Grown /\ Len(objs') = Len(objs) + 1
<1>1. o \in Record
  BY ConfigSyncAssumption DEF ConfigSyncAssumption, Record
<1>2. /\ objs' \in Seq(Record) /\ Len(objs') = Len(objs) + 1
      /\ \A i \in 1..Len(objs) : objs'[i] = objs[i]
  BY <1>1, RecordsOf, AppendProperties DEF SetConfigMap
<1> QED BY <1>2, RecordsOf DEF Grown, Indices

(* What is an index of an object, a list of events, a worker's record or a   *)
(* file stays one as objects are added.                                      *)
LEMMA IndicesGrow ==
  ASSUME TypeOK, Grown
  PROVE  /\ Indices \subseteq Indices'
         /\ Seq(Event) \subseteq Seq(Event')
         /\ WorkerRecord \subseteq WorkerRecord'
         /\ Slots \subseteq Slots'
<1>1. Indices \subseteq Indices'
  BY DEF Grown, Indices
<1>2. Event \subseteq Event'
  BY <1>1 DEF Event
<1>3. Seq(Event) \subseteq Seq(Event')
  BY <1>2, SeqMonotonic
<1>4. WorkerRecord \subseteq WorkerRecord'
  BY <1>1 DEF WorkerRecord
<1>5. Slots \subseteq Slots'
  BY <1>1 DEF Slots
<1> QED BY <1>1, <1>3, <1>4, <1>5

-----------------------------------------------------------------------------
(* Queueing, retrying and putting back keep the queue a count of tasks. *)
Queue == [Ops -> [Retries -> Nat]]

(* No operation on the queue leads out of it. *)
LEMMA QueueKept ==
  ASSUME TypeOK, NEW w \in Workers, NEW p \in Queue
  PROVE  /\ Retried(p, w) \in Queue /\ PutBack(w) \in Queue
         /\ \A op \in Ops : Enqueue(op) => pending' \in Queue
<1>1. /\ worker[w].retries \in Retries /\ MaxRetries \in Nat
      /\ pending \in Queue /\ 0 \in Retries
  BY ConfigSyncAssumption DEF TypeOK, Queue, ConfigSyncAssumption, Retries
<1>2. ASSUME NEW q \in Queue, NEW op, NEW r \in Retries
      PROVE  Enqueued(q, op, r) \in Queue
  <2> DEFINE counts == [q[op] EXCEPT ![r] = @ + 1]
  <2>1. op \in Ops => counts \in [Retries -> Nat]
    BY DEF Queue
  <2>2. Enqueued(q, op, r) = [q EXCEPT ![op] = counts]
    BY DEF Enqueued
  <2> HIDE DEF counts
  <2> QED BY <2>1, <2>2 DEF Queue
<1>3. worker[w].retries < MaxRetries => worker[w].retries + 1 \in Retries
  BY <1>1 DEF Retries
<1> QED BY <1>1, <1>2, <1>3 DEF Retried, PutBack, Enqueue

(* A worker that goes on or stops is of its type. *)
LEMMA WorkerKept ==
  ASSUME TypeOK, NEW w \in Workers
  PROVE  /\ Finish(w) => worker' \in [Workers -> WorkerRecord]
         /\ \A pc \in {"create", "update", "release", "purge", "unsync", "store",
                        "forget"} :
              Goto(w, pc) => worker' \in [Workers -> WorkerRecord]
<1>1. worker \in [Workers -> WorkerRecord]
  BY DEF TypeOK, WorkerRecord
<1>2. IdleWorker \in WorkerRecord
  BY ConfigSyncAssumption
     DEF IdleWorker, WorkerRecord, Retries, ConfigSyncAssumption
<1> QED BY <1>1, <1>2 DEF Finish, Goto, WorkerRecord

(* A use of a bound counts. *)
LEMMA Counted ==
  ASSUME TypeOK, NEW b \in {"changes", "faults", "restarts"}, NEW m, Use(b, m)
  PROVE  used' \in [changes : Nat, faults : Nat, restarts : Nat]
<1>1. used \in [changes : Nat, faults : Nat, restarts : Nat]
  BY DEF TypeOK
<1>2. used' = [used EXCEPT ![b] = @ + 1]
  BY DEF Use
<1>3. CASE b = "changes"
  BY <1>1, <1>2, <1>3
<1>4. CASE b = "faults"
  BY <1>1, <1>2, <1>4
<1>5. CASE b = "restarts"
  BY <1>1, <1>2, <1>5
<1> QED BY <1>3, <1>4, <1>5

(* What the calls of Polaris do to the files: nothing is sent that is not to *)
(* be synced, and nothing without a group.                                  *)
Sound(f) == /\ f \in Slots /\ f[NoGroup] = None
            /\ \A g \in Groups \cup {NoGroup} :
                 f[g] # None => IsPolarisConfigMap(f[g])

(* Sending an object that is to be synced, or removing a file. *)
LEMMA SoundExcept ==
  ASSUME TypeOK, NEW f, Sound(f), NEW g \in Groups \cup {NoGroup},
         NEW i \in {None} \cup Indices,
         i # None => g # NoGroup /\ IsPolarisConfigMap(i)
  PROVE  Sound([f EXCEPT ![g] = i])
BY DEF Sound, Slots

(* A call has its effect or not; the worker goes on, or stops. *)
LEMMA CallsSound ==
  ASSUME IInv, NEW w \in Workers,
         Create(w) \/ Update(w) \/ Release(w) \/ Delete(w)
  PROVE  /\ UNCHANGED <<objs, cm, handler, events, configFileCache>>
         /\ Sound(files') /\ Sound(published')
         /\ pending' \in Queue
         /\ worker' \in [Workers -> WorkerRecord]
         /\ used' \in [changes : Nat, faults : Nat, restarts : Nat]
         /\ \/ Finish(w)
            \/ worker[w].pc \in Sending /\ Goto(w, "release")
            \/ \E pc \in {"store", "forget"} :
                 Goto(w, pc) /\ (pc = "store" => worker[w].obj # None)
<1> DEFINE g == worker[w].group
           i == worker[w].obj
<1>1. /\ Sound(files) /\ Sound(published) /\ TypeOK /\ WorkerSound
      /\ g \in Groups \cup {NoGroup} /\ i \in {None} \cup Indices
      /\ pending \in Queue
  BY DEF IInv, TypeOK, OnlySyncedReachesPolaris, Sound, Queue
<1>2. /\ \A p \in Queue : Retried(p, w) \in Queue
      /\ PutBack(w) \in Queue
  BY <1>1, QueueKept
<1>3. ASSUME NEW b \in {"faults"}, NEW m, Use(b, m)
      PROVE  used' \in [changes : Nat, faults : Nat, restarts : Nat]
  BY <1>1, <1>3, Counted
<1>4. ASSUME worker[w].pc \in Sending
      PROVE  /\ i \in Indices /\ i # None
             /\ Sound([files EXCEPT ![g] = i])
             /\ \A c \in {files[g], i} : Sound([published EXCEPT ![g] = c])
  <2>1. i \in Indices /\ i # None /\ g # NoGroup /\ IsPolarisConfigMap(i)
    BY <1>1, <1>4 DEF WorkerSound, Sending, TypeOK
  <2>2. /\ files[g] \in {None} \cup Indices
        /\ files[g] # None => IsPolarisConfigMap(files[g])
    BY <1>1 DEF Sound, Slots
  <2> QED BY <1>1, <2>1, <2>2, SoundExcept
<1>5. CASE Create(w)
  <2>1. worker[w].pc \in Sending
    BY <1>5 DEF Create, Worker, Sending
  <2> QED
    BY <1>1, <1>2, <1>3, <1>4, <1>5, <2>1, WorkerKept
       DEF Create, Call, SetFile, Fail, callUnchanged, environmentUnchanged,
           polarisVars, TypeOK
<1>6. CASE Update(w)
  <2>1. worker[w].pc \in Sending
    BY <1>6 DEF Update, Worker, Sending
  <2> QED
    BY <1>1, <1>2, <1>3, <1>4, <1>6, <2>1, WorkerKept
       DEF Update, Call, SetFile, Fail, callUnchanged, environmentUnchanged,
           polarisVars, TypeOK
<1>7. CASE Release(w)
  <2>1. worker[w].pc \in Sending
    BY <1>7 DEF Release, Worker, Sending
  <2> QED
    BY <1>1, <1>2, <1>3, <1>4, <1>7, <2>1, WorkerKept
       DEF Release, Call, Fail, callUnchanged, environmentUnchanged,
           polarisVars, TypeOK
<1>8. CASE Delete(w)
  <2>1. Sound([files EXCEPT ![g] = None]) /\ Sound([published EXCEPT ![g] = None])
    BY <1>1, SoundExcept
  <2>2. worker[w].pc = "unsync" => i # None
    BY <1>1 DEF WorkerSound
  <2> QED
    BY <1>1, <1>2, <1>3, <1>8, <2>1, <2>2, WorkerKept
       DEF Delete, Worker, callUnchanged, environmentUnchanged, polarisVars, TypeOK
<1> QED BY <1>5, <1>6, <1>7, <1>8

-----------------------------------------------------------------------------
(* What each step has to show: the parts of the new state it writes are of    *)
(* their types, and the workers and files are sound.                          *)
Typed ==
  /\ cm' \in {None} \cup Indices'
  /\ handler' \in {None} \cup Indices'
  /\ configFileCache' \in {None} \cup Indices'
  /\ events' \in Seq(Event')
  /\ pending' \in Queue
  /\ used' \in [changes : Nat, faults : Nat, restarts : Nat]

(* What is unchanged keeps its type as objects are added. *)
LEMMA TypesKept ==
  ASSUME TypeOK, Grown
  PROVE  /\ UNCHANGED cm => cm' \in {None} \cup Indices'
         /\ UNCHANGED handler => handler' \in {None} \cup Indices'
         /\ UNCHANGED configFileCache => configFileCache' \in {None} \cup Indices'
         /\ UNCHANGED events => events' \in Seq(Event')
         /\ UNCHANGED pending => pending' \in Queue
         /\ UNCHANGED used =>
              used' \in [changes : Nat, faults : Nat, restarts : Nat]
<1>1. /\ cm \in {None} \cup Indices /\ handler \in {None} \cup Indices
      /\ configFileCache \in {None} \cup Indices
      /\ events \in Seq(Event) /\ pending \in Queue
      /\ used \in [changes : Nat, faults : Nat, restarts : Nat]
  BY DEF TypeOK, Event, Queue
<1> QED BY <1>1, IndicesGrow

(* Sound files stay sound as objects are added. *)
LEMMA FilesKept ==
  ASSUME TypeOK, Grown, Sound(files'), Sound(published')
  PROVE  /\ files' \in Slots' /\ files'[NoGroup] = None
         /\ published' \in Slots' /\ published'[NoGroup] = None
         /\ OnlySyncedReachesPolaris'
<1>1. \A i \in Indices : IsPolarisConfigMap(i) => IsPolarisConfigMap(i)'
  BY DEF Grown, IsPolarisConfigMap
<1>2. \A g \in Groups \cup {NoGroup} :
        /\ files'[g] # None => files'[g] \in Indices /\ IsPolarisConfigMap(files'[g])
        /\ published'[g] # None =>
             published'[g] \in Indices /\ IsPolarisConfigMap(published'[g])
  BY DEF Sound, Slots
<1>3. files' \in Slots' /\ published' \in Slots'
  BY IndicesGrow DEF Sound
<1> QED
  BY <1>1, <1>2, <1>3 DEF Sound, OnlySyncedReachesPolaris

(* Workers that are not touched stay typed and sound as objects are added. *)
LEMMA WorkersKept ==
  ASSUME TypeOK, WorkerSound, Grown
  PROVE  /\ worker \in [Workers -> WorkerRecord']
         /\ UNCHANGED worker => WorkerSound'
<1>1. worker \in [Workers -> WorkerRecord]
  BY DEF TypeOK, WorkerRecord
<1>2. \A w \in Workers : worker[w] \in WorkerRecord'
  BY <1>1, IndicesGrow
<1>3. \A i \in Indices : IsPolarisConfigMap(i) => IsPolarisConfigMap(i)'
  BY DEF Grown, IsPolarisConfigMap
<1>4. ASSUME UNCHANGED worker PROVE WorkerSound'
  <2>1. \A w \in Workers : worker[w].obj \in {None} \cup Indices
    BY <1>1 DEF WorkerRecord
  <2> QED BY <1>3, <1>4, <2>1 DEF WorkerSound
<1> QED BY <1>1, <1>2, <1>4

(* The parts make up the invariant. *)
LEMMA PartsMakeIInv ==
  ASSUME IInv, Grown, Typed, worker' \in [Workers -> WorkerRecord'], WorkerSound',
         UNCHANGED polarisVars \/ (Sound(files') /\ Sound(published'))
  PROVE  IInv'
<1>1. Sound(files) /\ Sound(published)
  BY DEF IInv, TypeOK, OnlySyncedReachesPolaris, Sound
<1>2. Sound(files') /\ Sound(published')
  <2>1. CASE UNCHANGED polarisVars
    <3>1. files' = files /\ published' = published
      BY <2>1 DEF polarisVars
    <3> QED BY <1>1, <3>1
  <2> QED BY <2>1
<1>3. /\ files' \in Slots' /\ files'[NoGroup] = None
      /\ published' \in Slots' /\ published'[NoGroup] = None
      /\ OnlySyncedReachesPolaris'
  BY <1>2, FilesKept DEF IInv
<1>4. TypeOK'
  BY <1>3 DEF TypeOK, Typed, Grown, Record, Event, Queue, WorkerRecord
<1> QED BY <1>3, <1>4 DEF IInv

-----------------------------------------------------------------------------
(* Initially there is at most an object and its notification. *)
LEMMA InitIInv == Init => IInv
<1> SUFFICES ASSUME Init PROVE IInv
  OBVIOUS
<1>1. objs \in Seq(Record) /\ Len(objs) \in {0, 1}
  <2>1. Objects \subseteq Record
    BY ConfigSyncAssumption DEF ConfigSyncAssumption, Record
  <2>2. CASE objs = << >>
    <3>1. objs \in Seq(Record)
      BY <2>2
    <3>2. Len(objs) = 0
      BY <2>2
    <3> QED BY <3>1, <3>2
  <2>3. ASSUME NEW o \in Objects, objs = <<o>>
        PROVE  objs \in Seq(Record) /\ Len(objs) = 1
    <3>1. o \in Record
      BY <2>1
    <3> QED BY <2>3, <3>1
  <2> QED BY <2>2, <2>3 DEF Init
<1>2. cm \in {None} \cup Indices
  BY <1>1 DEF Init, Indices, None
<1>3. events \in Seq(Event)
  <2>1. CASE cm = None
    BY <2>1 DEF Init, AddEvent
  <2>2. CASE cm # None
    <3>1. [type |-> "add", old |-> None, new |-> cm] \in Event
      BY <1>2 DEF Event
    <3> QED BY <2>2, <3>1 DEF Init, AddEvent
  <2> QED BY <2>1, <2>2
<1>4. NoTasks \in Queue /\ pending = NoTasks
  BY DEF NoTasks, Queue, Init
<1>5. IdleWorker \in WorkerRecord
  BY ConfigSyncAssumption DEF IdleWorker, WorkerRecord, Retries, ConfigSyncAssumption
<1>6. worker \in [Workers -> WorkerRecord]
  BY <1>5 DEF Init
<1>7. NoFiles \in Slots /\ \A g \in Groups \cup {NoGroup} : NoFiles[g] = None
  BY DEF NoFiles, Slots
<1>8. TypeOK
  BY <1>1, <1>2, <1>3, <1>4, <1>6, <1>7
     DEF Init, TypeOK, Record, Event, Queue, WorkerRecord
<1>9. WorkerSound
  BY DEF Init, WorkerSound, IdleWorker, Sending
<1>10. OnlySyncedReachesPolaris
  BY <1>7 DEF Init, OnlySyncedReachesPolaris
<1> QED BY <1>8, <1>9, <1>10 DEF IInv

(* A notification of what is there is appended to the ones not handled. *)
LEMMA EventAppended ==
  ASSUME TypeOK, Grown, NEW type \in {"add", "update", "delete", "tombstone"},
         NEW old \in {None} \cup Indices', NEW new \in {None} \cup Indices'
  PROVE  Append(events, [type |-> type, old |-> old, new |-> new]) \in Seq(Event')
<1>1. [type |-> type, old |-> old, new |-> new] \in Event'
  BY DEF Event
<1>2. events \in Seq(Event')
  BY IndicesGrow DEF TypeOK, Event
<1> QED BY <1>1, <1>2, AppendProperties

(* The steps of Kubernetes. *)
LEMMA ClusterKeeps ==
  ASSUME IInv, (\E o \in Objects : SetConfigMap(o)) \/ RemoveConfigMap
  PROVE  IInv'
<1>1. TypeOK /\ WorkerSound
  BY DEF IInv
<1>2. ASSUME NEW o \in Objects, SetConfigMap(o) PROVE IInv'
  <2>1. Grown /\ Len(objs') = Len(objs) + 1 /\ Len(objs) \in Nat
    BY <1>1, <1>2, SetGrown, RecordsOf
  <2>2. Len(objs) + 1 \in Indices'
    BY <2>1 DEF Indices
  <2>3. cm \in {None} \cup Indices'
    BY <1>1, <2>1, IndicesGrow DEF TypeOK
  <2>4. events' \in Seq(Event')
    BY <1>1, <1>2, <2>1, <2>2, <2>3, EventAppended DEF SetConfigMap
  <2>5. Typed
    BY <1>1, <1>2, <2>1, <2>2, <2>4, TypesKept, Counted DEF SetConfigMap, Typed
  <2> QED
    BY <1>1, <1>2, <2>1, <2>5, WorkersKept, PartsMakeIInv DEF SetConfigMap
<1>3. CASE RemoveConfigMap
  <2>1. Grown /\ cm \in {None} \cup Indices'
    BY <1>1, <1>3, SameObjs, IndicesGrow DEF RemoveConfigMap, TypeOK
  <2>2. events' \in Seq(Event')
    BY <1>1, <1>3, <2>1, EventAppended DEF RemoveConfigMap
  <2>3. Typed
    BY <1>1, <1>3, <2>1, <2>2, TypesKept, Counted DEF RemoveConfigMap, Typed
  <2> QED
    BY <1>1, <1>3, <2>1, <2>3, WorkersKept, PartsMakeIInv DEF RemoveConfigMap
<1> QED BY <1>2, <1>3

(* The steps of the informer's handlers. *)
LEMMA HandlersKeep ==
  ASSUME IInv, HandleEvent \/ HandlerCaches
  PROVE  IInv'
<1>1. TypeOK /\ WorkerSound
  BY DEF IInv
<1>2. Grown
  BY <1>1, SameObjs DEF HandleEvent, HandlerCaches
<1>3. CASE HandleEvent
  <2>1. /\ events \in Seq(Event) /\ events # << >>
        /\ Head(events) \in Event /\ events' \in Seq(Event)
    BY <1>1, <1>3, HeadTailProperties DEF HandleEvent, TypeOK, Event
  <2>2. events' \in Seq(Event')
    BY <1>1, <1>2, <2>1, IndicesGrow
  <2>3. \/ UNCHANGED pending
        \/ \E op \in Ops : Enqueue(op)
    BY <1>3
       DEF HandleEvent, onConfigMapAdd, onConfigMapUpdate, onConfigMapDelete,
           Ignored, Ops
  <2>4. pending' \in Queue
    <3>1. pending \in Queue /\ 0 \in Retries
      BY <1>1, ConfigSyncAssumption
         DEF TypeOK, Queue, Retries, ConfigSyncAssumption
    <3>2. ASSUME NEW op \in Ops, Enqueue(op) PROVE pending' \in Queue
      <4> DEFINE counts == [pending[op] EXCEPT ![0] = @ + 1]
      <4>1. counts \in [Retries -> Nat]
        BY <3>1 DEF Queue
      <4>2. pending' = [pending EXCEPT ![op] = counts]
        BY <3>2 DEF Enqueue, Enqueued
      <4> HIDE DEF counts
      <4> QED BY <3>1, <4>1, <4>2 DEF Queue
    <3> QED BY <2>3, <3>1, <3>2
  <2>5. UNCHANGED handler \/ handler' = Head(events).old
    BY <1>3
       DEF HandleEvent, onConfigMapAdd, onConfigMapUpdate, onConfigMapDelete, Ignored
  <2>6. handler' \in {None} \cup Indices'
    BY <1>1, <1>2, <2>1, <2>5, TypesKept, IndicesGrow DEF Event
  <2>7. Typed
    BY <1>1, <1>2, <1>3, <2>2, <2>4, <2>6, TypesKept DEF HandleEvent, Typed
  <2> QED
    BY <1>1, <1>2, <1>3, <2>7, WorkersKept, PartsMakeIInv DEF HandleEvent
<1>4. CASE HandlerCaches
  <2>1. handler \in {None} \cup Indices' /\ None \in {None} \cup Indices'
    BY <1>1, <1>2, IndicesGrow DEF TypeOK
  <2>2. Typed
    BY <1>1, <1>2, <1>4, <2>1, TypesKept DEF HandlerCaches, Typed
  <2> QED
    BY <1>1, <1>2, <1>4, <2>2, WorkersKept, PartsMakeIInv DEF HandlerCaches
<1> QED BY <1>3, <1>4

-----------------------------------------------------------------------------
(* The steps of the workers.  A step of worker w leaves the others sound. *)
LEMMA OneWorkerSteps ==
  ASSUME TypeOK, WorkerSound, Grown, NEW w \in Workers, NEW k \in WorkerRecord',
         worker' = [worker EXCEPT ![w] = k],
         /\ k.pc \in Sending \cup {"prepare", "unsync", "store"} => k.obj # None
         /\ k.pc \in Sending => k.group # NoGroup /\ k.obj \in Indices
                                 /\ IsPolarisConfigMap(k.obj)
         /\ k.pc = "load" /\ k.obj # None => k.group # NoGroup
  PROVE  worker' \in [Workers -> WorkerRecord'] /\ WorkerSound'
<1>1. worker \in [Workers -> WorkerRecord']
  BY WorkersKept
<1>2. worker' \in [Workers -> WorkerRecord']
  BY <1>1
<1>3. worker'[w] = k /\ \A v \in Workers \ {w} : worker'[v] = worker[v]
  BY <1>1
<1>4. \A i \in Indices : IsPolarisConfigMap(i) => IsPolarisConfigMap(i)'
  BY DEF Grown, IsPolarisConfigMap
<1>5. \A v \in Workers : worker[v].obj \in {None} \cup Indices
  BY DEF TypeOK
<1> QED BY <1>2, <1>3, <1>4, <1>5 DEF WorkerSound

(* A worker that stops is sound. *)
LEMMA FinishKeeps ==
  ASSUME TypeOK, WorkerSound, Grown, NEW w \in Workers, Finish(w)
  PROVE  worker' \in [Workers -> WorkerRecord'] /\ WorkerSound'
<1>1. IdleWorker \in WorkerRecord'
  BY ConfigSyncAssumption
     DEF IdleWorker, WorkerRecord, Retries, ConfigSyncAssumption
<1> QED BY <1>1, OneWorkerSteps DEF Finish, IdleWorker, Sending

(* Taking a task: the lister's object is there, or none. *)
LEMMA TakeTaskKeeps ==
  ASSUME IInv, NEW w \in Workers, NEW op \in Ops, NEW r \in Retries,
         TakeTask(w, op, r)
  PROVE  IInv'
<1>1. TypeOK /\ WorkerSound
  BY DEF IInv
<1>2. Grown
  BY <1>1, SameObjs DEF TakeTask
<1> DEFINE k == [pc |-> IF cm = None THEN "load" ELSE "prepare", op |-> op,
                 retries |-> r, obj |-> cm, group |-> NoGroup]
<1>3. k \in WorkerRecord'
  <2>1. cm \in {None} \cup Indices'
    BY <1>1, <1>2, IndicesGrow DEF TypeOK
  <2> QED BY <2>1 DEF WorkerRecord
<1>4. worker' \in [Workers -> WorkerRecord'] /\ WorkerSound'
  <2>1. worker' = [worker EXCEPT ![w] = k]
    BY DEF TakeTask
  <2>2. /\ k.pc \in Sending \cup {"prepare", "unsync", "store"} => k.obj # None
        /\ k.pc \notin Sending
        /\ k.pc = "load" => k.obj = None
    BY DEF Sending
  <2> HIDE DEF k
  <2> QED BY <1>1, <1>2, <1>3, <2>1, <2>2, OneWorkerSteps
<1>5. pending' \in Queue
  <2> DEFINE counts == [pending[op] EXCEPT ![r] = @ - 1]
  <2>1. pending \in Queue
    BY <1>1 DEF TypeOK, Queue
  <2>2. counts \in [Retries -> Nat]
    BY <2>1 DEF TakeTask, Queue
  <2>3. pending' = [pending EXCEPT ![op] = counts]
    BY DEF TakeTask
  <2> HIDE DEF counts
  <2> QED BY <2>1, <2>2, <2>3 DEF Queue
<1>6. Typed
  BY <1>1, <1>2, <1>5, TypesKept DEF TakeTask, Typed, environmentUnchanged
<1> QED BY <1>2, <1>4, <1>6, PartsMakeIInv DEF TakeTask

(* Preparing sets the group, in the object or in its copy. *)
LEMMA PrepareKeeps ==
  ASSUME IInv, NEW w \in Workers, Prepare(w)
  PROVE  IInv'
<1>1. TypeOK /\ WorkerSound
  BY DEF IInv
<1>2. Grown
  BY <1>1, PrepareGrown
<1> DEFINE g == GroupOf(objs[worker[w].obj])
           k == [worker[w] EXCEPT !.pc = "load", !.group = g]
<1>3. worker[w].obj \in Indices
  BY <1>1 DEF Prepare, Worker, TypeOK, WorkerSound, Sending
<1>4. g \in Groups /\ g # NoGroup
  BY <1>1, <1>3, RecordsOf, ConfigSyncAssumption
     DEF GroupOf, Record, ConfigSyncAssumption
<1>5. worker[w] \in WorkerRecord' /\ worker \in [Workers -> WorkerRecord']
  BY <1>1, <1>2, WorkersKept
<1>6. worker' = [worker EXCEPT ![w] = k]
  BY <1>5 DEF Prepare
<1>7. k \in WorkerRecord' /\ k.pc = "load" /\ k.group = g
  BY <1>4, <1>5 DEF WorkerRecord
<1>8. worker' \in [Workers -> WorkerRecord'] /\ WorkerSound'
  <2> HIDE DEF k, g
  <2> QED BY <1>1, <1>2, <1>4, <1>6, <1>7, OneWorkerSteps DEF Sending
<1>9. Typed
  BY <1>1, <1>2, TypesKept DEF Prepare, onlyWorker, environmentUnchanged, Typed
<1> QED BY <1>2, <1>8, <1>9, PartsMakeIInv DEF Prepare, onlyWorker

(* A worker that goes on with the object and group it has. *)
LEMMA GotoKeeps ==
  ASSUME TypeOK, WorkerSound, Grown, NEW w \in Workers,
         NEW pc \in {"create", "update", "release", "purge", "unsync", "store",
                     "forget"},
         Goto(w, pc),
         pc \in Sending \cup {"unsync", "store"} => worker[w].obj # None,
         pc \in Sending =>
           worker[w].group # NoGroup /\ IsPolarisConfigMap(worker[w].obj)
  PROVE  worker' \in [Workers -> WorkerRecord'] /\ WorkerSound'
<1> DEFINE k == [worker[w] EXCEPT !.pc = pc]
<1>1. worker[w] \in WorkerRecord' /\ worker \in [Workers -> WorkerRecord']
  BY WorkersKept
<1>2. worker' = [worker EXCEPT ![w] = k]
  BY <1>1 DEF Goto
<1>3. /\ k \in WorkerRecord' /\ k.pc = pc
      /\ k.obj = worker[w].obj /\ k.group = worker[w].group
  BY <1>1 DEF WorkerRecord
<1>4. k.obj \in {None} \cup Indices
  BY <1>3 DEF TypeOK
<1> HIDE DEF k
<1>5. pc \in Sending => k.group # NoGroup /\ k.obj \in Indices
                        /\ IsPolarisConfigMap(k.obj)
  BY <1>3, <1>4
<1>6. pc \notin {"prepare", "load"}
  OBVIOUS
<1> QED BY <1>2, <1>3, <1>5, <1>6, OneWorkerSteps

(* The cache decides how a worker goes on. *)
LEMMA LoadCacheKeeps ==
  ASSUME IInv, NEW w \in Workers, LoadCache(w)
  PROVE  IInv'
<1>1. TypeOK /\ WorkerSound
  BY DEF IInv
<1>2. Grown
  BY <1>1, SameObjs DEF LoadCache
<1> DEFINE i == worker[w].obj
<1>3. worker' \in [Workers -> WorkerRecord'] /\ WorkerSound'
  <2>1. CASE Finish(w)
    BY <1>1, <1>2, <2>1, FinishKeeps
  <2>2. CASE worker' = [worker EXCEPT ![w].pc = "purge",
                                      ![w].group = objs[configFileCache].group]
             /\ configFileCache # None
    <3> DEFINE k == [worker[w] EXCEPT !.pc = "purge",
                                      !.group = objs[configFileCache].group]
    <3>1. objs[configFileCache].group \in Groups \cup {NoGroup}
      BY <1>1, <2>2, RecordsOf DEF TypeOK, Record
    <3>2. worker[w] \in WorkerRecord' /\ worker \in [Workers -> WorkerRecord']
      BY <1>1, <1>2, WorkersKept
    <3>3. worker' = [worker EXCEPT ![w] = k]
      BY <2>2, <3>2
    <3>4. k \in WorkerRecord' /\ k.pc = "purge"
      BY <3>1, <3>2 DEF WorkerRecord
    <3> HIDE DEF k
    <3> QED BY <1>1, <1>2, <3>3, <3>4, OneWorkerSteps DEF Sending
  <2>3. ASSUME i # None,
               NEW pc \in {"create", "store", "update", "unsync"},
               pc \in {"create", "update"} => IsPolarisConfigMap(i),
               Goto(w, pc)
        PROVE  worker' \in [Workers -> WorkerRecord'] /\ WorkerSound'
    <3>1. worker[w].group # NoGroup
      BY <1>1, <2>3 DEF LoadCache, Worker, WorkerSound
    <3>2. pc # "release"
      OBVIOUS
    <3> QED BY <1>1, <1>2, <2>3, <3>1, <3>2, GotoKeeps DEF Sending
  <2>4. \/ Finish(w)
        \/ /\ worker' = [worker EXCEPT ![w].pc = "purge",
                                       ![w].group = objs[configFileCache].group]
           /\ configFileCache # None
        \/ /\ i # None
           /\ \E pc \in {"create", "store", "update", "unsync"} :
                /\ pc \in {"create", "update"} => IsPolarisConfigMap(i)
                /\ Goto(w, pc)
    BY DEF LoadCache
  <2> QED BY <2>1, <2>2, <2>3, <2>4
<1>4. Typed
  BY <1>1, <1>2, TypesKept DEF LoadCache, onlyWorker, environmentUnchanged, Typed
<1> QED BY <1>2, <1>3, <1>4, PartsMakeIInv DEF LoadCache, onlyWorker

(* The calls of Polaris. *)
LEMMA CallsKeep ==
  ASSUME IInv, NEW w \in Workers,
         Create(w) \/ Update(w) \/ Release(w) \/ Delete(w)
  PROVE  IInv'
<1>1. TypeOK /\ WorkerSound
  BY DEF IInv
<1>2. Grown
  BY <1>1, CallsSound, SameObjs
<1>3. worker' \in [Workers -> WorkerRecord'] /\ WorkerSound'
  <2>1. CASE Finish(w)
    BY <1>1, <1>2, <2>1, FinishKeeps
  <2>2. CASE worker[w].pc \in Sending /\ Goto(w, "release")
    <3>1. /\ worker[w].obj # None /\ worker[w].group # NoGroup
          /\ IsPolarisConfigMap(worker[w].obj)
      BY <1>1, <2>2 DEF WorkerSound
    <3> QED BY <1>1, <1>2, <2>2, <3>1, GotoKeeps
  <2>3. ASSUME NEW pc \in {"store", "forget"}, Goto(w, pc),
               pc = "store" => worker[w].obj # None
        PROVE  worker' \in [Workers -> WorkerRecord'] /\ WorkerSound'
    <3>1. pc \notin Sending \cup {"unsync"}
      BY DEF Sending
    <3> QED BY <1>1, <1>2, <2>3, <3>1, GotoKeeps
  <2> QED BY <2>1, <2>2, <2>3, CallsSound
<1>4. Typed
  BY <1>1, <1>2, TypesKept, CallsSound DEF Typed
<1> QED BY <1>2, <1>3, <1>4, CallsSound, PartsMakeIInv

(* What is stored in the cache is the worker's object. *)
LEMMA CacheKeeps ==
  ASSUME IInv, NEW w \in Workers, StoreCache(w) \/ ForgetCache(w)
  PROVE  IInv'
<1>1. TypeOK /\ WorkerSound
  BY DEF IInv
<1>2. PICK i \in {worker[w].obj, None} : CacheObject(w, i)
  BY DEF StoreCache, ForgetCache
<1>3. Grown
  BY <1>1, <1>2, SameObjs DEF CacheObject
<1>4. i \in {None} \cup Indices'
  BY <1>1, <1>3, IndicesGrow DEF TypeOK
<1>5. worker' \in [Workers -> WorkerRecord'] /\ WorkerSound'
  BY <1>1, <1>2, <1>3, FinishKeeps DEF CacheObject
<1>6. Typed
  BY <1>1, <1>2, <1>3, <1>4, TypesKept DEF CacheObject, environmentUnchanged, Typed
<1> QED BY <1>2, <1>3, <1>5, <1>6, PartsMakeIInv DEF CacheObject

(* A restart leaves the files as they are. *)
LEMMA RestartKeeps ==
  ASSUME IInv, NEW o \in Objects, Restart(o)
  PROVE  IInv'
<1>1. TypeOK /\ WorkerSound
  BY DEF IInv
<1>2. Grown
  BY <1>1, RestartGrown
<1>3. cm \in {None} \cup Indices' /\ cm' \in {None} \cup Indices'
  <2>1. UNCHANGED cm
    BY DEF Restart
  <2> QED BY <1>1, <1>2, <2>1, TypesKept
<1>4. events' \in Seq(Event')
  <2>1. CASE cm = None
    BY <2>1 DEF Restart, AddEvent
  <2>2. CASE cm # None
    <3>1. [type |-> "add", old |-> None, new |-> cm] \in Event'
      BY <1>3 DEF Event
    <3> QED BY <2>2, <3>1 DEF Restart, AddEvent
  <2> QED BY <2>1, <2>2
<1>5. pending' \in Queue
  BY DEF Restart, NoTasks, Queue
<1>6. Typed
  BY <1>1, <1>3, <1>4, <1>5, Counted DEF Restart, Typed
<1>7. worker' \in [Workers -> WorkerRecord'] /\ WorkerSound'
  <2>1. IdleWorker \in WorkerRecord'
    BY ConfigSyncAssumption
       DEF IdleWorker, WorkerRecord, Retries, ConfigSyncAssumption
  <2> QED BY <2>1 DEF Restart, WorkerSound, IdleWorker, Sending
<1> QED BY <1>2, <1>6, <1>7, PartsMakeIInv DEF Restart

(* Every step keeps the invariant. *)
LEMMA NextIInv ==
  ASSUME IInv, [Next]_vars
  PROVE  IInv'
<1>1. CASE UNCHANGED vars
  <2>1. TypeOK /\ WorkerSound /\ Grown
    BY <1>1, SameObjs DEF IInv, vars
  <2>2. Typed
    BY <1>1, <2>1, TypesKept DEF vars, Typed
  <2>3. UNCHANGED polarisVars /\ UNCHANGED worker
    BY <1>1 DEF vars, polarisVars
  <2> QED BY <2>1, <2>2, <2>3, WorkersKept, PartsMakeIInv
<1>2. CASE \E o \in Objects : SetConfigMap(o) \/ Restart(o)
  BY <1>2, ClusterKeeps, RestartKeeps
<1>3. CASE RemoveConfigMap \/ HandleEvent \/ HandlerCaches
  BY <1>3, ClusterKeeps, HandlersKeep
<1>4. CASE \E w \in Workers, op \in Ops, r \in Retries : TakeTask(w, op, r)
  BY <1>4, TakeTaskKeeps
<1>5. CASE \E w \in Workers : WorkerStep(w)
  BY <1>5, PrepareKeeps, LoadCacheKeeps, CallsKeep, CacheKeeps DEF WorkerStep
<1> QED BY <1>1, <1>2, <1>3, <1>4, <1>5 DEF Next

-----------------------------------------------------------------------------
(* IInv is inductive: whatever the handlers, workers, restarts and failing    *)
(* calls of Polaris do, a worker sends only objects it has found to be synced. *)
THEOREM IInvInvariant == Spec => []IInv
BY InitIInv, NextIInv, PTL DEF Spec

(* The state keeps its shape: what the store, the cache, the notifications and *)
(* the workers refer to exists, no task is retried more than maxRetries times, *)
(* and no file is sent or released without a group (syncConfigMap sets it).    *)
THEOREM ConfigTypeCorrect == Spec => []TypeOK
<1>1. IInv => TypeOK
  BY DEF IInv
<1> QED BY <1>1, IInvInvariant, PTL

(* With any number of workers and restarts, and whatever fails, no private     *)
(* ConfigMap and none that came from Polaris is sent to Polaris or released:   *)
(* IsPolarisConfigMap (config_map.go) is asked of every object that is sent.   *)
THEOREM OnlySyncedSent == Spec => []OnlySyncedReachesPolaris
<1>1. IInv => OnlySyncedReachesPolaris
  BY DEF IInv
<1> QED BY <1>1, IInvInvariant, PTL

-----------------------------------------------------------------------------
(* With one worker, one group, deletions allowed, no restart and no failure   *)
(* of a creation or a release: what NeverRegresses and FilesAccounted hold    *)
(* under (with more workers, or a release that fails, they do not).           *)
Plain(g) ==
  /\ \A v, w \in Workers : v = w
  /\ \A o \in Objects : o.group = g
  /\ AllowDelete
  /\ "create" \notin FailingCalls /\ "release" \notin FailingCalls
  /\ MaxRestarts = 0

Live(i) == i # None /\ IsPolarisConfigMap(i)

(* Only the group's file is ever there, and the informer's store has the      *)
(* newest object.                                                             *)
Ours(g) ==
  /\ \A i \in Indices : objs[i].group = g
  /\ \A h \in (Groups \cup {NoGroup}) \ {g} : files[h] = None /\ published[h] = None
  /\ cm # None => cm = Len(objs)

(* What a worker has is never older than what Polaris has, and where it is in *)
(* its task says what the file and the release are.                           *)
InOrder(g, w) ==
  LET k == worker[w]
  IN  /\ k.pc \in Sending \cup {"purge", "unsync"} => k.group = g
      /\ k.pc = "load" /\ k.obj # None => k.group = g
      /\ k.obj # None => files[g] <= k.obj
      /\ k.pc # "idle" /\ k.obj = None =>
           k.pc \in {"load", "purge", "forget"} /\ (cm # None => files[g] < cm)
      /\ k.pc \in {"purge", "forget"} => k.obj = None
      /\ k.pc = "create" => files[g] = None
      /\ k.pc = "update" => configFileCache # None
      /\ k.pc = "release" => files[g] = k.obj
      /\ k.pc = "unsync" => ~Live(k.obj)
      /\ k.pc = "store" =>
           IF Live(k.obj) THEN files[g] = k.obj /\ published[g] = k.obj
           ELSE files[g] = None
      /\ k.pc = "forget" => files[g] = None

Cached(g) ==
  files[g] # None =>
    \/ configFileCache # None
    \/ \E w \in Workers : worker[w].pc \in {"release", "store"}

FileInv(g) ==
  /\ Ours(g)
  /\ published[g] <= files[g]
  /\ \A w \in Workers : InOrder(g, w)
  /\ Cached(g)

(* No step changes whether an object that is there is to be synced. *)
LEMMA LiveKept ==
  ASSUME TypeOK, Grown
  PROVE  \A i \in {None} \cup Indices : Live(i)' = Live(i)
BY DEF Grown, Live, IsPolarisConfigMap

(* There is no other worker. *)
LEMMA Lone ==
  ASSUME NEW g \in Groups, Plain(g), NEW w \in Workers
  PROVE  Workers = {w}
BY DEF Plain

(* The files and releases are objects, in the order they were set. *)
LEMMA FileTypes ==
  ASSUME TypeOK, NEW g \in Groups
  PROVE  /\ files[g] \in Nat /\ files[g] <= Len(objs)
         /\ published[g] \in Nat /\ published[g] <= Len(objs)
         /\ cm \in Nat /\ cm <= Len(objs) /\ Len(objs) \in Nat
         /\ \A w \in Workers : worker[w].obj \in Nat /\ worker[w].obj <= Len(objs)
         /\ g \in Groups \cup {NoGroup} /\ g # NoGroup
         /\ files \in [Groups \cup {NoGroup} -> {None} \cup Indices]
         /\ published \in [Groups \cup {NoGroup} -> {None} \cup Indices]
<1>1. Len(objs) \in Nat /\ None = 0
  BY RecordsOf DEF None
<1>2. \A i \in {None} \cup Indices : i \in Nat /\ i <= Len(objs)
  BY <1>1 DEF Indices
<1> QED BY <1>1, <1>2, ConfigSyncAssumption DEF TypeOK, Slots, ConfigSyncAssumption

(* There is nothing in Polaris yet. *)
LEMMA InitFileInv ==
  ASSUME NEW g \in Groups, Plain(g), Init
  PROVE  FileInv(g)
<1>1. TypeOK
  BY InitIInv DEF IInv
<1>2. /\ files = NoFiles /\ published = NoFiles /\ cm = Len(objs)
      /\ \A w \in Workers : worker[w] = IdleWorker
  BY DEF Init
<1>3. \A h \in Groups \cup {NoGroup} : NoFiles[h] = None
  BY DEF NoFiles
<1>4. \A i \in Indices : objs[i].group = g
  BY RecordsOf, <1>1 DEF Init, Plain, Indices
<1>5. Ours(g)
  BY <1>2, <1>3, <1>4 DEF Ours
<1>6. \A w \in Workers : InOrder(g, w)
  BY <1>2, <1>3 DEF InOrder, IdleWorker, Sending
<1> QED BY <1>2, <1>3, <1>5, <1>6 DEF FileInv, Cached, None

(* A step that touches neither the workers nor Polaris. *)
LEMMA OthersFile ==
  ASSUME NEW g \in Groups, IInv, IInv', Grown, FileInv(g),
         UNCHANGED <<worker, files, published>>,
         Ours(g)', configFileCache # None => configFileCache' # None,
         cm' \in {None, cm, Len(objs) + 1}
  PROVE  FileInv(g)'
<1>1. TypeOK
  BY DEF IInv
<1>2. \A w \in Workers : InOrder(g, w)'
  <2> TAKE w \in Workers
  <2>1. InOrder(g, w)
    BY DEF FileInv
  <2>2. Live(worker[w].obj)' = Live(worker[w].obj)
    BY <1>1, LiveKept DEF TypeOK
  <2>3. cm' # None /\ cm # None => cm' >= cm
    BY <1>1, FileTypes
  <2>4. cm' # None /\ cm = None => files[g] < cm'
    BY <1>1, FileTypes
  <2> QED BY <1>1, <2>1, <2>2, <2>3, <2>4, FileTypes DEF InOrder
<1>3. Cached(g)'
  BY DEF FileInv, Cached
<1> QED BY <1>2, <1>3 DEF FileInv

(* A change adds an object newer than all there are; a removal, none. *)
LEMMA ClusterFile ==
  ASSUME NEW g \in Groups, Plain(g), IInv, IInv', FileInv(g),
         (\E o \in Objects : SetConfigMap(o)) \/ RemoveConfigMap
  PROVE  FileInv(g)'
<1>1. TypeOK /\ Ours(g)
  BY DEF IInv, FileInv
<1>2. ASSUME NEW o \in Objects, SetConfigMap(o) PROVE FileInv(g)'
  <2>1. Grown /\ Len(objs') = Len(objs) + 1 /\ Len(objs) \in Nat
    BY <1>1, <1>2, SetGrown, RecordsOf
  <2>2. \A i \in Indices' : objs'[i].group = g
    <3>1. o \in Record /\ o.group = g
      BY ConfigSyncAssumption DEF ConfigSyncAssumption, Record, Plain
    <3>2. /\ \A i \in 1..Len(objs) : objs'[i] = objs[i]
          /\ objs'[Len(objs) + 1] = o
      BY <1>1, <1>2, <3>1, RecordsOf, AppendProperties DEF SetConfigMap
    <3> QED BY <1>1, <2>1, <3>1, <3>2 DEF Ours, Indices
  <2>3. Ours(g)'
    BY <1>1, <1>2, <2>1, <2>2 DEF Ours, SetConfigMap, polarisVars
  <2> QED BY <1>2, <2>1, <2>3, OthersFile DEF SetConfigMap, polarisVars
<1>3. CASE RemoveConfigMap
  <2>1. Grown
    BY <1>1, <1>3, SameObjs DEF RemoveConfigMap
  <2>2. Ours(g)'
    BY <1>1, <1>3 DEF Ours, RemoveConfigMap, polarisVars, Indices
  <2> QED BY <1>3, <2>1, <2>2, OthersFile DEF RemoveConfigMap, polarisVars
<1> QED BY <1>2, <1>3

(* The handlers queue tasks, and cache an object: they never empty the cache. *)
LEMMA HandlersFile ==
  ASSUME NEW g \in Groups, IInv, IInv', FileInv(g), HandleEvent \/ HandlerCaches
  PROVE  FileInv(g)'
<1>1. /\ UNCHANGED <<objs, cm, worker, files, published>>
      /\ configFileCache # None => configFileCache' # None
  BY DEF HandleEvent, HandlerCaches, polarisVars
<1>2. Grown
  BY <1>1, SameObjs DEF IInv
<1>3. Ours(g)'
  BY <1>1 DEF FileInv, Ours, Indices
<1> QED BY <1>1, <1>2, <1>3, OthersFile

(* What a worker's step has to show. *)
LEMMA WorkerFile ==
  ASSUME NEW g \in Groups, Plain(g), NEW w \in Workers, FileInv(g),
         \A i \in Indices' : objs'[i].group = g, Len(objs') = Len(objs), UNCHANGED cm,
         \A h \in (Groups \cup {NoGroup}) \ {g} :
           files'[h] = files[h] /\ published'[h] = published[h],
         published'[g] <= files'[g], InOrder(g, w)', Cached(g)'
  PROVE  FileInv(g)'
<1>1. Workers = {w}
  BY Lone
<1>2. Ours(g)'
  BY DEF FileInv, Ours
<1> QED BY <1>1, <1>2 DEF FileInv

(* A worker starts with the newest object, or with none. *)
LEMMA TakeTaskFile ==
  ASSUME NEW g \in Groups, Plain(g), IInv, FileInv(g),
         NEW w \in Workers, NEW op \in Ops, NEW r \in Retries, TakeTask(w, op, r)
  PROVE  FileInv(g)'
<1>1. TypeOK /\ Ours(g) /\ Cached(g) /\ published[g] <= files[g]
  BY DEF IInv, FileInv
<1>2. /\ UNCHANGED <<objs, cm, configFileCache, files, published>>
      /\ worker[w].pc = "idle" /\ worker'[w].obj = cm
      /\ worker'[w].pc = IF cm = None THEN "load" ELSE "prepare"
      /\ worker'[w].group = NoGroup
  BY <1>1 DEF TakeTask, Worker, polarisVars, environmentUnchanged, TypeOK
<1>3. InOrder(g, w)'
  BY <1>1, <1>2, FileTypes DEF InOrder, Ours, Sending, None
<1>4. Cached(g)'
  BY <1>1, <1>2, Lone DEF Cached
<1> QED BY <1>1, <1>2, <1>3, <1>4, WorkerFile DEF Ours, Indices, FileInv

(* The group set is the one that the object has. *)
LEMMA PrepareFile ==
  ASSUME NEW g \in Groups, Plain(g), IInv, FileInv(g), NEW w \in Workers, Prepare(w)
  PROVE  FileInv(g)'
<1> DEFINE i == worker[w].obj
<1>1. /\ TypeOK /\ WorkerSound /\ Ours(g) /\ Cached(g) /\ published[g] <= files[g]
      /\ InOrder(g, w)
  BY DEF IInv, FileInv
<1>2. i \in Indices /\ i # None
  BY <1>1 DEF Prepare, Worker, TypeOK, WorkerSound, Sending
<1>3. GroupOf(objs[i]) = g
  BY <1>1, <1>2, FileTypes DEF Ours, GroupOf
<1>4. /\ UNCHANGED <<cm, configFileCache, files, published>>
      /\ worker[w].pc = "prepare" /\ worker'[w].obj = i
      /\ worker'[w].pc = "load" /\ worker'[w].group = g
  BY <1>1, <1>3
     DEF Prepare, Worker, polarisVars, onlyWorker, environmentUnchanged, TypeOK
<1>5. Len(objs') = Len(objs) /\ \A j \in Indices : objs'[j].group = g
  <2>1. CASE UNCHANGED objs
    BY <1>1, <2>1 DEF Ours
  <2>2. CASE objs' = [objs EXCEPT ![i].group = GroupOf(objs[i])]
    <3> DEFINE e == [objs[i] EXCEPT !.group = GroupOf(objs[i])]
    <3>1. e \in Record /\ e.group = g
      BY <1>1, <1>2, <1>3, RecordsOf, FileTypes DEF Record
    <3>2. objs' = [objs EXCEPT ![i] = e]
      BY <2>2
    <3> HIDE DEF e
    <3>3. /\ objs' \in Seq(Record) /\ Len(objs') = Len(objs)
          /\ \A j \in 1..Len(objs) : objs'[j] = IF j = i THEN e ELSE objs[j]
      BY <1>1, <1>2, <3>1, <3>2, RecordsOf, ExceptSeq DEF Indices
    <3> QED BY <1>1, <3>1, <3>3 DEF Ours, Indices
  <2> QED BY <2>1, <2>2 DEF Prepare
<1>6. InOrder(g, w)'
  BY <1>1, <1>2, <1>4 DEF InOrder, Sending
<1>7. Cached(g)'
  BY <1>1, <1>4, Lone DEF Cached
<1> QED BY <1>1, <1>4, <1>5, <1>6, <1>7, WorkerFile DEF Ours, Indices, FileInv

(* What is not cached has no file: a worker that reads the cache is neither    *)
(* releasing nor storing.                                                      *)
LEMMA LoadCacheFile ==
  ASSUME NEW g \in Groups, Plain(g), IInv, FileInv(g), NEW w \in Workers, LoadCache(w)
  PROVE  FileInv(g)'
<1> DEFINE i == worker[w].obj
<1>1. /\ TypeOK /\ WorkerSound /\ Ours(g) /\ Cached(g) /\ published[g] <= files[g]
      /\ InOrder(g, w) /\ i \in {None} \cup Indices
      /\ worker[w].pc = "load"
  BY DEF IInv, FileInv, LoadCache, Worker, TypeOK
<1>2. UNCHANGED <<objs, cm, configFileCache, files, published>>
  BY DEF LoadCache, polarisVars, onlyWorker, environmentUnchanged
<1>3. files[g] # None => configFileCache # None
  BY <1>1, Lone DEF Cached
<1>4. Cached(g)'
  BY <1>2, <1>3 DEF Cached
<1>5. \A j \in {None} \cup Indices : Live(j)' = Live(j)
  BY <1>1, <1>2, SameObjs, LiveKept
<1>6. InOrder(g, w)'
  <2>1. CASE i = None /\ configFileCache = None /\ Finish(w)
    <3>1. worker'[w].pc = "idle" /\ worker'[w].obj = None
      BY <1>1, <2>1 DEF Finish, IdleWorker, TypeOK
    <3> QED BY <3>1 DEF InOrder, Sending
  <2>2. CASE /\ i = None /\ configFileCache # None
             /\ worker' = [worker EXCEPT ![w].pc = "purge",
                                        ![w].group = objs[configFileCache].group]
    <3>1. objs[configFileCache].group = g
      BY <1>1, <2>2 DEF Ours, TypeOK
    <3>2. worker'[w].pc = "purge" /\ worker'[w].obj = None /\ worker'[w].group = g
      BY <1>1, <2>2, <3>1 DEF TypeOK
    <3> QED BY <1>1, <1>2, <2>2, <3>2 DEF InOrder, Sending
  <2>3. ASSUME i # None, NEW pc \in {"create", "store", "update", "unsync"}, Goto(w, pc),
               pc \in {"create", "store"} => configFileCache = None,
               pc = "update" => configFileCache # None,
               pc \in {"store", "unsync"} => ~Live(i)
        PROVE  InOrder(g, w)'
    <3>1. worker'[w].pc = pc /\ worker'[w].obj = i /\ worker'[w].group = g
      BY <1>1, <2>3 DEF Goto, TypeOK, InOrder
    <3> QED BY <1>1, <1>2, <1>3, <1>5, <2>3, <3>1 DEF InOrder, Sending
  <2> QED BY <2>1, <2>2, <2>3 DEF LoadCache, Live
<1> QED BY <1>1, <1>2, <1>4, <1>6, WorkerFile DEF Ours, Indices, FileInv

(* Creating: there is no file yet.  The creation does not fail. *)
LEMMA CreateFile ==
  ASSUME NEW g \in Groups, Plain(g), IInv, FileInv(g), NEW w \in Workers, Create(w)
  PROVE  FileInv(g)'
<1> DEFINE i == worker[w].obj
<1>1. /\ TypeOK /\ Ours(g) /\ published[g] <= files[g] /\ InOrder(g, w)
      /\ worker[w].pc = "create" /\ i # None /\ i \in Nat /\ worker[w].group = g
  BY FileTypes DEF IInv, FileInv, WorkerSound, Create, Worker, Sending, InOrder
<1>2. /\ UNCHANGED <<objs, cm, configFileCache, published>>
      /\ files' = [files EXCEPT ![g] = i]
      /\ Goto(w, "release")
  BY <1>1
     DEF Create, Call, SetFile, callUnchanged, environmentUnchanged, Plain, InOrder
<1>3. /\ worker'[w].pc = "release" /\ worker'[w].obj = i /\ worker'[w].group = g
      /\ files'[g] = i /\ \A h \in (Groups \cup {NoGroup}) \ {g} : files'[h] = files[h]
      /\ published[g] = None
  BY <1>1, <1>2, FileTypes DEF Goto, TypeOK, InOrder, None
<1>4. InOrder(g, w)'
  BY <1>1, <1>3 DEF InOrder, Sending
<1>5. Cached(g)'
  BY <1>3 DEF Cached
<1> QED
  BY <1>1, <1>2, <1>3, <1>4, <1>5, WorkerFile DEF Ours, Indices, None

(* Updating: the file becomes the worker's object, which is not older. *)
LEMMA UpdateFile ==
  ASSUME NEW g \in Groups, Plain(g), IInv, FileInv(g), NEW w \in Workers, Update(w)
  PROVE  FileInv(g)'
<1> DEFINE i == worker[w].obj
<1>1. /\ TypeOK /\ Ours(g) /\ published[g] <= files[g] /\ InOrder(g, w)
      /\ worker[w].pc = "update" /\ i # None /\ i \in Nat /\ worker[w].group = g
      /\ configFileCache # None /\ files[g] <= i
  BY FileTypes DEF IInv, FileInv, WorkerSound, Update, Worker, Sending, InOrder
<1>2. /\ UNCHANGED <<objs, cm, configFileCache, published>>
      /\ \/ files' = [files EXCEPT ![g] = i] /\ Goto(w, "release")
         \/ files' = [files EXCEPT ![g] = i] /\ Finish(w)
         \/ files' = files /\ Finish(w)
  BY <1>1
     DEF Update, Call, Fail, SetFile, callUnchanged, environmentUnchanged, polarisVars
<1>3. /\ files'[g] = i \/ (files'[g] = files[g] /\ worker'[w].pc = "idle")
      /\ \A h \in (Groups \cup {NoGroup}) \ {g} : files'[h] = files[h]
      /\ \/ worker'[w].pc = "release" /\ worker'[w].obj = i /\ worker'[w].group = g
         \/ worker'[w].pc = "idle" /\ worker'[w].obj = None
  BY <1>1, <1>2, FileTypes DEF Goto, Finish, IdleWorker, TypeOK
<1>4. InOrder(g, w)'
  BY <1>1, <1>2, <1>3 DEF InOrder, Sending
<1>5. Cached(g)'
  BY <1>1, <1>2 DEF Cached
<1>6. published'[g] <= files'[g]
  BY <1>1, <1>2, <1>3, FileTypes
<1> QED
  BY <1>1, <1>2, <1>3, <1>4, <1>5, <1>6, WorkerFile DEF Ours, Indices

(* Releasing: what is published is the file, which is the worker's object. *)
LEMMA ReleaseDoes ==
  ASSUME NEW g \in Groups, Plain(g), IInv, FileInv(g), NEW w \in Workers, Release(w)
  PROVE  /\ files[g] = worker[w].obj /\ files[g] # None
         /\ published' = [published EXCEPT ![g] = files[g]]
         /\ Goto(w, "store")
         /\ UNCHANGED <<objs, cm, events, configFileCache, files, pending, used>>
BY DEF FileInv, InOrder, IInv, WorkerSound, Release, Worker, Call, Plain, Sending,
       callUnchanged, environmentUnchanged

(* A release makes what is published as new as the file. *)
LEMMA ReleaseFile ==
  ASSUME NEW g \in Groups, Plain(g), IInv, FileInv(g), NEW w \in Workers, Release(w)
  PROVE  FileInv(g)'
<1> DEFINE i == worker[w].obj
<1>1. /\ TypeOK /\ Ours(g) /\ InOrder(g, w) /\ i \in {None} \cup Indices
      /\ i # None /\ Live(i)
  BY DEF IInv, FileInv, WorkerSound, Release, Worker, Sending, Live, TypeOK
<1>2. /\ published'[g] = i /\ files'[g] = i
      /\ \A h \in (Groups \cup {NoGroup}) \ {g} : published'[h] = published[h]
      /\ worker'[w].pc = "store" /\ worker'[w].obj = i
  BY <1>1, ReleaseDoes, FileTypes DEF Goto, TypeOK
<1>3. \A j \in {None} \cup Indices : Live(j)' = Live(j)
  BY <1>1, ReleaseDoes, SameObjs, LiveKept
<1>4. InOrder(g, w)'
  BY <1>1, <1>2, <1>3, FileTypes DEF InOrder, Sending
<1>5. Cached(g)'
  BY <1>2 DEF Cached
<1> QED
  BY <1>1, <1>2, <1>4, <1>5, ReleaseDoes, FileTypes, WorkerFile DEF Ours, Indices

(* Deleting: nothing is left, or the call fails and the file stays cached. *)
LEMMA DeleteDoes ==
  ASSUME NEW g \in Groups, Plain(g), IInv, FileInv(g), NEW w \in Workers, Delete(w)
  PROVE  /\ \/ /\ files' = [files EXCEPT ![g] = None]
               /\ published' = [published EXCEPT ![g] = None]
            \/ UNCHANGED <<files, published>> /\ Finish(w)
         /\ \/ Goto(w, IF worker[w].pc = "purge" THEN "forget" ELSE "store")
               /\ UNCHANGED <<pending, used>>
            \/ /\ Finish(w) /\ Use("faults", MaxFaults)
               /\ pending' = Retried(IF worker[w].pc = "purge" THEN PutBack(w)
                                     ELSE pending, w)
         /\ UNCHANGED <<objs, cm, events, configFileCache>>
         /\ worker[w].pc \in {"purge", "unsync"}
BY DEF FileInv, InOrder, Delete, Worker, Plain, callUnchanged, environmentUnchanged,
       polarisVars

(* A deletion removes file and release together, whether it is answered or not. *)
LEMMA DeleteFile ==
  ASSUME NEW g \in Groups, Plain(g), IInv, FileInv(g), NEW w \in Workers, Delete(w)
  PROVE  FileInv(g)'
<1> DEFINE i == worker[w].obj
<1>1. /\ TypeOK /\ Ours(g) /\ published[g] <= files[g] /\ InOrder(g, w) /\ Cached(g)
      /\ i \in {None} \cup Indices /\ WorkerSound
  BY DEF IInv, FileInv, TypeOK
<1>2. \A j \in {None} \cup Indices : Live(j)' = Live(j)
  BY <1>1, DeleteDoes, SameObjs, LiveKept
<1>3. /\ \A h \in (Groups \cup {NoGroup}) \ {g} :
            files'[h] = files[h] /\ published'[h] = published[h]
      /\ \/ files'[g] = None /\ published'[g] = None
         \/ /\ files'[g] = files[g] /\ published'[g] = published[g]
            /\ worker'[w].pc = "idle"
      /\ \/ worker'[w].pc = "idle" /\ worker'[w].obj = None
         \/ /\ worker[w].pc = "purge" /\ worker'[w].pc = "forget"
            /\ worker'[w].obj = i
         \/ /\ worker[w].pc = "unsync" /\ worker'[w].pc = "store"
            /\ worker'[w].obj = i
  BY <1>1, DeleteDoes, FileTypes DEF Goto, Finish, IdleWorker, TypeOK
<1>4. worker[w].pc = "unsync" => i # None /\ ~Live(i)
  BY <1>1 DEF InOrder, WorkerSound, Sending
<1>5. InOrder(g, w)'
  BY <1>1, <1>2, <1>3, <1>4, DeleteDoes, FileTypes DEF InOrder, Sending, None
<1>6. files[g] # None => configFileCache # None
  BY <1>1, DeleteDoes, Lone DEF Cached
<1>7. Cached(g)'
  BY <1>3, <1>6, DeleteDoes DEF Cached
<1>8. published'[g] <= files'[g]
  BY <1>1, <1>3, FileTypes DEF None
<1> QED
  BY <1>1, <1>3, <1>5, <1>7, <1>8, DeleteDoes, WorkerFile DEF Ours, Indices

(* Caching ends the task: the file is cached, or there is none. *)
LEMMA CacheFile ==
  ASSUME NEW g \in Groups, Plain(g), IInv, FileInv(g), NEW w \in Workers,
         StoreCache(w) \/ ForgetCache(w)
  PROVE  FileInv(g)'
<1>1. /\ TypeOK /\ Ours(g) /\ published[g] <= files[g] /\ InOrder(g, w) /\ WorkerSound
  BY DEF IInv, FileInv
<1>2. /\ UNCHANGED <<objs, cm, files, published>>
      /\ worker'[w].pc = "idle" /\ worker'[w].obj = None
  BY <1>1
     DEF StoreCache, ForgetCache, CacheObject, Finish, IdleWorker, TypeOK,
         environmentUnchanged, polarisVars
<1>3. InOrder(g, w)'
  BY <1>2 DEF InOrder, Sending
<1>4. Cached(g)'
  BY <1>1, <1>2
     DEF Cached, StoreCache, ForgetCache, Worker, CacheObject, InOrder, WorkerSound
<1> QED BY <1>1, <1>2, <1>3, <1>4, WorkerFile DEF Ours, Indices

(* Every step keeps FileInv. *)
LEMMA NextFileInv ==
  ASSUME NEW g \in Groups, Plain(g), IInv, FileInv(g), [Next]_vars
  PROVE  FileInv(g)'
<1>1. IInv'
  BY NextIInv
<1>2. CASE UNCHANGED vars
  <2>1. UNCHANGED <<objs, cm, worker, files, published, configFileCache>>
    BY <1>2 DEF vars
  <2> QED BY <1>1, <2>1, SameObjs, OthersFile DEF FileInv, Ours, Indices, IInv
<1>3. CASE \E o \in Objects : SetConfigMap(o)
  BY <1>1, <1>3, ClusterFile
<1>4. CASE \E o \in Objects : Restart(o)
  <2>1. used.restarts \in Nat
    BY DEF IInv, TypeOK
  <2> QED BY <1>4, <2>1 DEF Restart, Use, Plain
<1>5. CASE RemoveConfigMap \/ HandleEvent \/ HandlerCaches
  BY <1>1, <1>5, ClusterFile, HandlersFile
<1>6. CASE \E w \in Workers, op \in Ops, r \in Retries : TakeTask(w, op, r)
  BY <1>6, TakeTaskFile
<1>7. CASE \E w \in Workers : WorkerStep(w)
  BY <1>7, PrepareFile, LoadCacheFile, CreateFile, UpdateFile, ReleaseFile, DeleteFile,
     CacheFile DEF WorkerStep
<1> QED BY <1>2, <1>3, <1>4, <1>5, <1>6, <1>7 DEF Next

(* FileInv is inductive, given IInv. *)
LEMMA FileInvariant ==
  ASSUME NEW g \in Groups, Plain(g)
  PROVE  Spec => [](IInv /\ FileInv(g))
<1>1. Init => IInv /\ FileInv(g)
  BY InitIInv, InitFileInv
<1>2. IInv /\ FileInv(g) /\ [Next]_vars => (IInv /\ FileInv(g))'
  BY NextIInv, NextFileInv
<1> QED BY <1>1, <1>2, PTL DEF Spec

(* What Polaris has is found again in the cache (configFileCache decides       *)
(* whether a deletion has anything to delete): with one worker, when creating   *)
(* and releasing do not fail, however updates and deletions fail.  It does not  *)
(* matter whether the informer misses deletions.                                *)
THEOREM FilesAreAccounted ==
  ASSUME NEW g \in Groups, Plain(g)
  PROVE  Spec => []FilesAccounted
<1>1. ASSUME IInv, FileInv(g) PROVE FilesAccounted
  <2>1. CASE files[g] # None
    BY <1>1, <2>1 DEF FileInv, Cached, FilesAccounted
  <2>2. CASE files[g] = None
    <3>1. \A h \in Groups \cup {NoGroup} : files[h] = None
      BY <1>1, <2>2 DEF FileInv, Ours
    <3>2. files = NoFiles
      BY <1>1, <3>1 DEF IInv, TypeOK, Slots, NoFiles
    <3> QED BY <3>2 DEF FilesAccounted
  <2> QED BY <2>1, <2>2
<1> QED BY <1>1, FileInvariant, PTL

(* Readers of Polaris never see an earlier state of the ConfigMap again: a      *)
(* retried task sends what the lister has by then, and one worker releases      *)
(* what it has just sent.                                                       *)
THEOREM ReleasesInOrder ==
  ASSUME NEW own \in Groups, Plain(own)
  PROVE  Spec => NeverRegresses
<1>1. IInv /\ FileInv(own) /\ [Next]_vars =>
        [\A g \in Groups : published'[g] # None => published[g] <= published'[g]]_vars
  <2> SUFFICES ASSUME IInv, FileInv(own), [Next]_vars
               PROVE  \A g \in Groups :
                        published'[g] # None => published[g] <= published'[g]
    OBVIOUS
  <2>1. TypeOK /\ published[own] <= files[own]
    BY DEF IInv, FileInv
  <2>2. \A g \in Groups : published[g] <= published[g]
    BY <2>1, FileTypes
  <2>3. CASE UNCHANGED published
    BY <2>2, <2>3
  <2>4. ASSUME NEW w \in Workers, Release(w)
        PROVE  \A g \in Groups : published[g] <= published'[g]
    <3>1. published' = [published EXCEPT ![own] = files[own]]
      BY <2>4, ReleaseDoes
    <3> QED BY <2>1, <2>2, <3>1, FileTypes
  <2>5. ASSUME NEW w \in Workers, Delete(w)
        PROVE  \A g \in Groups : published'[g] # None => published[g] <= published'[g]
    <3>1. \/ published' = [published EXCEPT ![own] = None]
          \/ UNCHANGED published
      BY <2>5, DeleteDoes
    <3> QED BY <2>1, <2>2, <3>1, FileTypes
  <2>6. \/ UNCHANGED published
        \/ \E w \in Workers : Release(w) \/ Delete(w)
    BY DEF Next, vars, SetConfigMap, Restart, RemoveConfigMap, HandleEvent,
           HandlerCaches, TakeTask, WorkerStep, Prepare, LoadCache, Create, Update,
           Call, StoreCache, ForgetCache, CacheObject, onlyWorker, polarisVars
  <2> QED BY <2>3, <2>4, <2>5, <2>6
<1>2. Init => IInv /\ FileInv(own)
  BY InitIInv, InitFileInv
<1>3. IInv /\ FileInv(own) /\ [Next]_vars => (IInv /\ FileInv(own))'
  BY NextIInv, NextFileInv
<1> QED BY <1>1, <1>2, <1>3, PTL DEF Spec, NeverRegresses

-----------------------------------------------------------------------------
(* If moreover no call fails more often than a task is retried, Polaris        *)
(* creates what an update does not find and no deletion is missed, then        *)
(* whatever has still to be done is in sight: in a notification, in the queue  *)
(* or with a worker.                                                           *)
Steady(g) == Plain(g) /\ MaxFaults <= MaxRetries /\ UpdateCreates /\ ~MissedDeletes

Waiting == \E op \in Ops, r \in Retries : pending[op][r] > 0

(* No task has been retried more often than calls have failed. *)
Tries ==
  /\ \A op \in Ops, r \in Retries : pending[op][r] > 0 => r <= used.faults
  /\ \A w \in Workers : /\ worker[w].retries <= used.faults
                        /\ worker[w].pc # "idle" => worker[w].op \in Ops
  /\ used.faults <= MaxFaults

(* The last notification is about the ConfigMap as it is. *)
Chain ==
  /\ \A i \in DOMAIN events :
       /\ events[i].type = "add" <=> events[i].old = None
       /\ events[i].type = "delete" <=> events[i].new = None
       /\ events[i].type # "tombstone"
  /\ events # << >> => events[Len(events)].new = cm

(* A notification says that the ConfigMap is not to be synced any more. *)
Withdrawn == \E i \in DOMAIN events : Live(events[i].old) /\ ~Live(events[i].new)

ToPublish(g) ==
  Live(cm) /\ published[g] # cm =>
    \/ events # << >>
    \/ Waiting
    \/ \E w \in Workers : worker[w].obj = cm /\ worker[w].pc \notin {"idle", "store"}

(* The second part is about a worker that is going to cache an object that is  *)
(* no longer the one to be synced.                                             *)
ToRemove(g) ==
  ~Live(cm) =>
    /\ files[g] # None =>
         \/ Withdrawn \/ Waiting
         \/ \E w \in Workers : worker[w].pc # "idle" /\ ~Live(worker[w].obj)
    /\ \A w \in Workers : Live(worker[w].obj) => Withdrawn \/ Waiting

SyncInv(g) == Tries /\ Chain /\ ToPublish(g) /\ ToRemove(g)

(* A task put in the queue is there, with all the others. *)
LEMMA EnqueuedTask ==
  ASSUME NEW p \in Queue, NEW op \in Ops, NEW r \in Retries
  PROVE  /\ Enqueued(p, op, r) \in Queue
         /\ Enqueued(p, op, r)[op][r] > 0
         /\ \A o \in Ops, s \in Retries :
              /\ p[o][s] > 0 => Enqueued(p, op, r)[o][s] > 0
              /\ Enqueued(p, op, r)[o][s] > 0 => p[o][s] > 0 \/ s = r
<1> DEFINE counts == [p[op] EXCEPT ![r] = @ + 1]
<1>1. Enqueued(p, op, r) = [p EXCEPT ![op] = counts]
  BY DEF Enqueued
<1>2. /\ counts \in [Retries -> Nat] /\ counts[r] > 0
      /\ \A s \in Retries : /\ p[op][s] > 0 => counts[s] > 0
                            /\ counts[s] > 0 => p[op][s] > 0 \/ s = r
  BY DEF Queue
<1> HIDE DEF counts
<1> QED BY <1>1, <1>2 DEF Queue

(* A failing call: the task is retried, as calls do not fail that often. *)
LEMMA FailedCall ==
  ASSUME NEW g \in Groups, Steady(g), TypeOK, Tries, NEW w \in Workers,
         worker[w].pc # "idle", Use("faults", MaxFaults), Finish(w),
         pending' \in {Retried(pending, w), Retried(PutBack(w), w)}
  PROVE  Waiting' /\ Tries'
<1>1. /\ pending \in Queue /\ used.faults \in Nat
      /\ MaxFaults \in Nat /\ MaxRetries \in Nat
      /\ worker[w].op \in Ops /\ worker[w].retries \in Nat
      /\ worker[w].retries <= used.faults
      /\ used' = [used EXCEPT !["faults"] = @ + 1] /\ used.faults < MaxFaults
      /\ MaxFaults <= MaxRetries
  BY ConfigSyncAssumption
     DEF TypeOK, Queue, Tries, Use, ConfigSyncAssumption, Steady, Retries
<1>2. /\ used'.faults = used.faults + 1 /\ used'.faults \in Nat
      /\ worker[w].retries < MaxRetries
  BY <1>1 DEF TypeOK
<1> DEFINE r == worker[w].retries + 1
           op == worker[w].op
<1>3. r \in Retries /\ r <= used'.faults
  BY <1>1, <1>2 DEF Retries
<1>4. PutBack(w) = Enqueued(pending, op, r)
  BY <1>2 DEF PutBack
<1>5. \A p : Retried(p, w) = Enqueued(p, op, r)
  BY <1>2 DEF Retried
<1>6. /\ pending' \in Queue /\ pending'[op][r] > 0
      /\ \A o \in Ops, s \in Retries :
           pending'[o][s] > 0 => pending[o][s] > 0 \/ s = r
  <2> HIDE DEF r, op
  <2>1. Enqueued(pending, op, r) \in Queue
    BY <1>1, <1>3, EnqueuedTask DEF op
  <2>2. CASE pending' = Enqueued(pending, op, r)
    BY <1>1, <1>3, <2>2, EnqueuedTask DEF op
  <2>3. CASE pending' = Enqueued(Enqueued(pending, op, r), op, r)
    BY <1>1, <1>3, <2>1, <2>3, EnqueuedTask DEF op
  <2> QED BY <1>4, <1>5, <2>2, <2>3
<1>7. Waiting'
  BY <1>1, <1>3, <1>6 DEF Waiting
<1>8. \A o \in Ops, s \in Retries : pending'[o][s] > 0 => s <= used'.faults
  BY <1>1, <1>2, <1>3, <1>6 DEF Tries, Retries
<1>9. \A v \in Workers : /\ worker'[v].retries <= used'.faults
                         /\ worker'[v].pc # "idle" => worker'[v].op \in Ops
  <2> TAKE v \in Workers
  <2>1. v = w
    BY DEF Steady, Plain
  <2>2. worker'[v].retries = 0 /\ worker'[v].pc = "idle"
    BY <2>1 DEF Finish, IdleWorker, TypeOK
  <2> QED BY <1>2, <2>2
<1> QED BY <1>1, <1>2, <1>7, <1>8, <1>9 DEF Tries

(* A step that leaves the queue alone, and keeps what the worker counts. *)
LEMMA TriesKept ==
  ASSUME NEW g \in Groups, Steady(g), TypeOK, Tries, NEW w \in Workers,
         UNCHANGED <<pending, used>>,
         (\E pc : Goto(w, pc) /\ worker[w].pc # "idle") \/ Finish(w)
  PROVE  Tries' /\ Waiting' = Waiting
<1>1. Workers = {w} /\ used.faults \in Nat
  BY DEF Steady, Plain, TypeOK
<1>2. /\ worker'[w].retries \in {worker[w].retries, 0}
      /\ worker'[w].pc = "idle" \/ (worker'[w].op = worker[w].op /\ worker[w].pc # "idle")
  BY DEF Goto, Finish, IdleWorker, TypeOK
<1> QED BY <1>1, <1>2 DEF Tries, Waiting

(* The objects in the notifications stay what they are. *)
LEMMA WithdrawnKept ==
  ASSUME TypeOK, Grown, UNCHANGED events
  PROVE  Withdrawn' = Withdrawn
<1>1. \A i \in DOMAIN events : events[i].old \in {None} \cup Indices
                               /\ events[i].new \in {None} \cup Indices
  <2>1. events \in Seq(Event)
    BY DEF TypeOK, Event
  <2>2. \A i \in DOMAIN events : events[i] \in Event
    BY <2>1
  <2> QED BY <2>2 DEF Event
<1>2. \A j \in {None} \cup Indices : Live(j)' = Live(j)
  BY LiveKept
<1> QED BY <1>1, <1>2 DEF Withdrawn

(* What a worker's step has to show. *)
LEMMA WorkerSync ==
  ASSUME NEW g \in Groups, Steady(g), TypeOK, Grown, NEW w \in Workers,
         SyncInv(g), Tries',
         UNCHANGED <<cm, events>>,
         Live(cm) /\ published'[g] # cm /\ events = << >> /\ ~Waiting' =>
           worker'[w].obj = cm /\ worker'[w].pc \notin {"idle", "store"},
         worker'[w].obj \in {None} \cup Indices,
         ~Live(cm) /\ ~Withdrawn /\ ~Waiting' =>
           /\ files'[g] # None => worker'[w].pc # "idle" /\ ~Live(worker'[w].obj)
           /\ ~Live(worker'[w].obj)
  PROVE  SyncInv(g)'
<1>1. Workers = {w} /\ cm \in {None} \cup Indices
  BY DEF Steady, Plain, TypeOK
<1>2. \A j \in {None} \cup Indices : Live(j)' = Live(j)
  BY LiveKept
<1>3. Withdrawn' = Withdrawn
  BY WithdrawnKept
<1>4. Chain'
  BY DEF SyncInv, Chain
<1>5. ToPublish(g)'
  BY <1>1, <1>2 DEF ToPublish
<1>6. ToRemove(g)'
  BY <1>1, <1>2, <1>3 DEF ToRemove
<1> QED BY <1>4, <1>5, <1>6 DEF SyncInv

(* The task taken from the queue is now with the worker, and its object is new. *)
LEMMA TakeTaskSync ==
  ASSUME NEW g \in Groups, Steady(g), IInv, FileInv(g), SyncInv(g),
         NEW w \in Workers, NEW op \in Ops, NEW r \in Retries, TakeTask(w, op, r)
  PROVE  SyncInv(g)'
<1>1. TypeOK /\ Tries /\ Workers = {w}
  BY DEF IInv, SyncInv, Steady, Plain
<1>2. Grown /\ UNCHANGED <<cm, events, files, published, used>>
  BY <1>1, SameObjs DEF TakeTask, polarisVars, environmentUnchanged
<1>3. /\ worker'[w].obj = cm /\ worker'[w].retries = r /\ worker'[w].op = op
      /\ worker'[w].pc \in {"load", "prepare"}
  BY <1>1 DEF TakeTask, TypeOK
<1>4. Tries'
  <2>1. \A o \in Ops, s \in Retries : pending'[o][s] > 0 => pending[o][s] > 0
    <3> DEFINE counts == [pending[op] EXCEPT ![r] = @ - 1]
    <3>1. pending' = [pending EXCEPT ![op] = counts]
      BY DEF TakeTask
    <3>2. pending \in Queue
      BY <1>1 DEF TypeOK, Queue
    <3>3. \A s \in Retries : counts[s] > 0 => pending[op][s] > 0
      BY <3>2 DEF Queue
    <3> HIDE DEF counts
    <3> QED BY <3>1, <3>2, <3>3 DEF Queue
  <2>2. r <= used.faults
    BY <1>1 DEF TakeTask, Tries
  <2> QED BY <1>1, <1>2, <1>3, <2>1, <2>2 DEF Tries
<1>5. cm \in {None} \cup Indices /\ (Live(cm) => worker'[w].pc = "prepare")
  BY <1>1 DEF TypeOK, TakeTask, Live
<1> QED BY <1>1, <1>2, <1>3, <1>4, <1>5, WorkerSync

(* A step that only goes on with the worker's object. *)
LEMMA QuietStepSync ==
  ASSUME NEW g \in Groups, Steady(g), TypeOK, Grown, SyncInv(g), NEW w \in Workers,
         UNCHANGED <<cm, events, pending, used>>,
         worker[w].pc \notin {"idle", "store"}, worker'[w].pc \notin {"idle", "store"},
         worker'[w].obj = worker[w].obj,
         worker'[w].op = worker[w].op, worker'[w].retries = worker[w].retries,
         Live(cm) /\ published[g] = cm => published'[g] = cm,
         ~Live(worker[w].obj) /\ files'[g] # None => files[g] # None
  PROVE  SyncInv(g)'
<1>1. Workers = {w} /\ worker[w].obj \in {None} \cup Indices
  BY DEF Steady, Plain, TypeOK
<1>2. Tries' /\ Waiting' = Waiting
  BY <1>1 DEF SyncInv, Tries, Waiting
<1>3. Live(cm) /\ published'[g] # cm /\ events = << >> /\ ~Waiting' =>
        worker'[w].obj = cm /\ worker'[w].pc \notin {"idle", "store"}
  BY <1>1, <1>2 DEF SyncInv, ToPublish
<1>4. ~Live(cm) /\ ~Withdrawn /\ ~Waiting' => ~Live(worker'[w].obj)
  BY <1>1, <1>2 DEF SyncInv, ToRemove
<1> QED BY <1>1, <1>2, <1>3, <1>4, WorkerSync

(* Preparing leaves what is to be done with the worker. *)
LEMMA PrepareSync ==
  ASSUME NEW g \in Groups, Steady(g), IInv, FileInv(g), SyncInv(g), NEW w \in Workers,
         Prepare(w)
  PROVE  SyncInv(g)'
<1>1. TypeOK /\ Grown
  BY PrepareGrown DEF IInv
<1>2. /\ UNCHANGED <<cm, events, pending, used, files, published>>
      /\ worker[w].pc = "prepare" /\ worker'[w].pc = "load"
      /\ worker'[w].obj = worker[w].obj
      /\ worker'[w].op = worker[w].op /\ worker'[w].retries = worker[w].retries
  BY <1>1
     DEF Prepare, Worker, polarisVars, onlyWorker, environmentUnchanged, TypeOK
<1> QED BY <1>1, <1>2, QuietStepSync

(* Only a worker whose object is not to be synced goes on to store at once. *)
LEMMA LoadCacheSync ==
  ASSUME NEW g \in Groups, Steady(g), IInv, FileInv(g), SyncInv(g), NEW w \in Workers,
         LoadCache(w)
  PROVE  SyncInv(g)'
<1> DEFINE i == worker[w].obj
<1>1. /\ TypeOK /\ Grown /\ Tries /\ worker[w].pc = "load" /\ Workers = {w}
      /\ i \in {None} \cup Indices
  BY SameObjs
     DEF IInv, LoadCache, Worker, SyncInv, Steady, Plain, TypeOK
<1>2. UNCHANGED <<cm, events, pending, used, files, published>>
  BY DEF LoadCache, polarisVars, onlyWorker, environmentUnchanged
<1>3. CASE Finish(w) /\ i = None /\ configFileCache = None
  <2>1. files[g] = None
    BY <1>1, <1>3 DEF FileInv, Cached
  <2>2. worker'[w].obj = None /\ worker'[w].pc = "idle"
    BY <1>1, <1>3 DEF Finish, IdleWorker, TypeOK
  <2>3. Tries' /\ Waiting' = Waiting
    BY <1>1, <1>2, <1>3, TriesKept
  <2>4. ~Live(None)
    BY DEF Live
  <2>5. Live(cm) /\ published'[g] # cm /\ events = << >> /\ ~Waiting' => FALSE
    BY <1>1, <1>2, <1>3, <2>3 DEF SyncInv, ToPublish, Live
  <2> QED BY <1>1, <1>2, <2>1, <2>2, <2>3, <2>4, <2>5, WorkerSync
<1>4. ASSUME NEW pc \in {"create", "update", "unsync", "purge"},
             worker'[w].pc = pc, worker'[w].obj = i,
             worker'[w].op = worker[w].op, worker'[w].retries = worker[w].retries
      PROVE  SyncInv(g)'
  BY <1>1, <1>2, <1>4, QuietStepSync
<1>5. CASE Goto(w, "store") /\ ~Live(i)
  <2>1. worker'[w].obj = i /\ worker'[w].pc = "store"
    BY <1>1, <1>5 DEF Goto, TypeOK
  <2>2. Tries' /\ Waiting' = Waiting
    BY <1>1, <1>2, <1>5, TriesKept
  <2>3. Live(cm) /\ published'[g] # cm /\ events = << >> /\ ~Waiting' => FALSE
    BY <1>1, <1>2, <1>5, <2>2 DEF SyncInv, ToPublish
  <2> QED BY <1>1, <1>2, <1>5, <2>1, <2>2, <2>3, WorkerSync
<1>6. \/ Finish(w) /\ i = None /\ configFileCache = None
      \/ worker' = [worker EXCEPT ![w].pc = "purge",
                                  ![w].group = objs[configFileCache].group]
      \/ \E pc \in {"create", "update", "unsync"} : Goto(w, pc)
      \/ Goto(w, "store") /\ ~Live(i)
  BY DEF LoadCache, Live
<1>7. CASE worker' = [worker EXCEPT ![w].pc = "purge",
                                    ![w].group = objs[configFileCache].group]
  BY <1>1, <1>4, <1>7 DEF TypeOK
<1>8. CASE \E pc \in {"create", "update", "unsync"} : Goto(w, pc)
  BY <1>1, <1>4, <1>8 DEF TypeOK, Goto
<1> QED BY <1>3, <1>5, <1>6, <1>7, <1>8

(* A worker about to send the object it has. *)
LEMMA SendingSync ==
  ASSUME NEW g \in Groups, Steady(g), IInv, FileInv(g), SyncInv(g), NEW w \in Workers,
         Create(w) \/ Update(w)
  PROVE  SyncInv(g)'
<1> DEFINE i == worker[w].obj
<1>1. /\ TypeOK /\ Grown /\ Tries /\ worker[w].pc \in Sending /\ Workers = {w} /\ Live(i)
      /\ i \in {None} \cup Indices /\ worker[w].pc \notin {"idle", "store"}
      /\ UNCHANGED <<cm, events>>
  BY SameObjs
     DEF IInv, Create, Update, Worker, SyncInv, Steady, Plain, TypeOK, WorkerSound,
         Sending, Live, callUnchanged, environmentUnchanged
<1>2. /\ UNCHANGED published
      /\ \/ Goto(w, "release") /\ UNCHANGED <<pending, used>>
         \/ Finish(w) /\ Use("faults", MaxFaults) /\ pending' = Retried(pending, w)
  BY DEF Create, Update, Call, Fail, Steady, Plain, polarisVars
<1>3. CASE Goto(w, "release") /\ UNCHANGED <<pending, used>>
  <2>1. /\ worker'[w].pc = "release" /\ worker'[w].obj = i
        /\ worker'[w].op = worker[w].op /\ worker'[w].retries = worker[w].retries
    BY <1>1, <1>3 DEF Goto, TypeOK
  <2> QED BY <1>1, <1>2, <1>3, <2>1, QuietStepSync
<1>4. CASE Finish(w) /\ Use("faults", MaxFaults) /\ pending' = Retried(pending, w)
  <2>1. Waiting' /\ Tries'
    BY <1>1, <1>4, FailedCall
  <2>2. worker'[w].obj = None
    BY <1>1, <1>4 DEF Finish, IdleWorker, TypeOK
  <2> QED BY <1>1, <2>1, <2>2, WorkerSync
<1> QED BY <1>2, <1>3, <1>4

(* What is released is the ConfigMap as it is, or something is still to come. *)
LEMMA ReleaseSync ==
  ASSUME NEW g \in Groups, Steady(g), IInv, FileInv(g), SyncInv(g), NEW w \in Workers,
         Release(w)
  PROVE  SyncInv(g)'
<1> DEFINE i == worker[w].obj
<1>1. /\ TypeOK /\ Grown /\ Tries /\ worker[w].pc = "release" /\ Workers = {w} /\ Live(i)
      /\ i \in {None} \cup Indices /\ Plain(g)
      /\ SyncInv(g)
  BY SameObjs
     DEF IInv, Release, Worker, SyncInv, Steady, Plain, TypeOK, WorkerSound,
         Sending, Live, callUnchanged, environmentUnchanged
<1>2. /\ UNCHANGED <<cm, events, files, pending, used>> /\ Goto(w, "store")
      /\ published'[g] = i
  BY <1>1, ReleaseDoes, FileTypes
<1>3. worker'[w].obj = i
  BY <1>1, <1>2 DEF Goto, TypeOK
<1>4. Tries' /\ Waiting' = Waiting
  BY <1>1, <1>2, TriesKept
<1>5. published[g] = cm /\ Live(cm) => i = cm
  BY <1>1, FileTypes DEF FileInv, InOrder, Ours, Live
<1>6. Live(cm) /\ published'[g] # cm /\ events = << >> /\ ~Waiting' => FALSE
  BY <1>1, <1>2, <1>4, <1>5 DEF SyncInv, ToPublish
<1>7. ~Live(cm) /\ ~Withdrawn /\ ~Waiting' => FALSE
  BY <1>1, <1>4 DEF SyncInv, ToRemove
<1> QED BY <1>1, <1>2, <1>3, <1>4, <1>6, <1>7, WorkerSync

(* A deletion that fails is put back; one that succeeds leaves nothing, and is  *)
(* never one of the ConfigMap as it is.                                         *)
LEMMA DeleteSync ==
  ASSUME NEW g \in Groups, Steady(g), IInv, FileInv(g), SyncInv(g), NEW w \in Workers,
         Delete(w)
  PROVE  SyncInv(g)'
<1> DEFINE i == worker[w].obj
<1>1. /\ TypeOK /\ Grown /\ Tries /\ Workers = {w} /\ Plain(g)
      /\ UNCHANGED <<cm, events>>
      /\ i \in {None} \cup Indices /\ worker[w].pc \in {"purge", "unsync"}
      /\ ~Live(i) /\ InOrder(g, w) /\ Ours(g) /\ published[g] <= files[g]
  <2>1. TypeOK /\ Plain(g) /\ InOrder(g, w)
    BY DEF IInv, FileInv, Steady
  <2>2. worker[w].pc \in {"purge", "unsync"} /\ UNCHANGED <<objs, cm, events>>
    BY <2>1, DeleteDoes
  <2> QED BY <2>1, <2>2, SameObjs DEF SyncInv, Plain, TypeOK, InOrder, Live, FileInv
<1>2. CASE Finish(w) /\ Use("faults", MaxFaults)
           /\ pending' = Retried(IF worker[w].pc = "purge" THEN PutBack(w)
                                 ELSE pending, w)
  <2>1. Waiting' /\ Tries'
    BY <1>1, <1>2, FailedCall
  <2>2. worker'[w].obj = None
    BY <1>1, <1>2 DEF Finish, IdleWorker, TypeOK
  <2> QED BY <1>1, <2>1, <2>2, WorkerSync
<1>3. CASE Goto(w, IF worker[w].pc = "purge" THEN "forget" ELSE "store")
           /\ UNCHANGED <<pending, used>>
  <2>1. worker'[w].obj = i /\ worker'[w].pc \in {"forget", "store"}
    BY <1>1, <1>3 DEF Goto, TypeOK
  <2>2. Tries' /\ Waiting' = Waiting
    BY <1>1, <1>3, TriesKept
  <2>3. Live(cm) => published[g] # cm
    BY <1>1, FileTypes DEF InOrder, Ours, Live, None
  <2>4. Live(cm) => i # cm
    BY <1>1
  <2>5. Live(cm) /\ events = << >> /\ ~Waiting' => FALSE
    BY <1>1, <2>2, <2>3, <2>4 DEF SyncInv, ToPublish
  <2> QED BY <1>1, <2>1, <2>2, <2>5, WorkerSync
<1> QED BY <1>1, <1>2, <1>3, DeleteDoes

(* The task is done: what it leaves in Polaris is right, or to be put right. *)
LEMMA CacheSync ==
  ASSUME NEW g \in Groups, Steady(g), IInv, FileInv(g), SyncInv(g), NEW w \in Workers,
         StoreCache(w) \/ ForgetCache(w)
  PROVE  SyncInv(g)'
<1> DEFINE i == worker[w].obj
<1>1. /\ TypeOK /\ Grown /\ Tries /\ Workers = {w}
      /\ UNCHANGED <<cm, events, pending, used, files, published>> /\ Finish(w)
      /\ i \in {None} \cup Indices /\ worker[w].pc \in {"store", "forget"}
      /\ InOrder(g, w) /\ WorkerSound
  BY SameObjs
     DEF IInv, FileInv, SyncInv, Steady, Plain, StoreCache, ForgetCache, CacheObject,
         environmentUnchanged, polarisVars, Worker, TypeOK
<1>2. worker'[w].obj = None /\ worker'[w].pc = "idle"
  BY <1>1 DEF Finish, IdleWorker, TypeOK
<1>3. Tries' /\ Waiting' = Waiting
  BY <1>1, TriesKept
<1>4. worker[w].pc = "forget" => i = None /\ files[g] = None
  BY <1>1 DEF InOrder
<1>5. worker[w].pc = "store" =>
        IF Live(i) THEN published[g] = i ELSE files[g] = None
  BY <1>1 DEF InOrder
<1>6. Live(cm) /\ published[g] # cm /\ events = << >> /\ ~Waiting => FALSE
  BY <1>1, <1>4 DEF SyncInv, ToPublish, Live
<1>7. ~Live(cm) /\ ~Withdrawn /\ ~Waiting => files[g] = None
  BY <1>1, <1>4, <1>5 DEF SyncInv, ToRemove
<1>8. ~Live(None)
  BY DEF Live
<1> QED BY <1>1, <1>2, <1>3, <1>6, <1>7, <1>8, WorkerSync

(* The notification of the first listing is all there is to do. *)
LEMMA InitSync ==
  ASSUME NEW g \in Groups, Steady(g), Init
  PROVE  SyncInv(g)
<1>1. /\ \A op \in Ops, r \in Retries : pending[op][r] = 0
      /\ \A w \in Workers : worker[w] = IdleWorker
      /\ used.faults = 0 /\ MaxFaults \in Nat /\ files[g] = None
  BY ConfigSyncAssumption DEF Init, NoTasks, NoFiles, ConfigSyncAssumption
<1>2. Tries
  BY <1>1 DEF Tries, IdleWorker
<1>3. cm # None => events = <<[type |-> "add", old |-> None, new |-> cm]>>
  BY DEF Init, AddEvent
<1>4. cm = None => events = << >>
  BY DEF Init, AddEvent
<1>5. Chain
  BY <1>3, <1>4 DEF Chain
<1>6. ToPublish(g)
  BY <1>3 DEF ToPublish, Live
<1>7. ToRemove(g)
  BY <1>1 DEF ToRemove, IdleWorker, Live
<1> QED BY <1>2, <1>5, <1>6, <1>7 DEF SyncInv

(* The notification of a change is added to the ones before. *)
LEMMA ChangeSync ==
  ASSUME NEW g \in Groups, IInv, IInv', Grown, SyncInv(g), NEW e,
         events' = Append(events, e), e.new = cm', e.old = cm,
         e.old # None \/ e.new # None,
         e.type = IF e.old = None THEN "add"
                  ELSE IF e.new = None THEN "delete" ELSE "update",
         UNCHANGED <<pending, worker, files, published>>, used'.faults = used.faults
  PROVE  SyncInv(g)'
<1>1. /\ TypeOK /\ events \in Seq(Event) /\ Len(events) \in Nat /\ TypeOK'
      /\ cm \in {None} \cup Indices
  BY DEF IInv, TypeOK, Event
<1>2. /\ events' \in Seq({events[i] : i \in DOMAIN events} \cup {e})
      /\ Len(events') = Len(events) + 1 /\ DOMAIN events' = 1..(Len(events) + 1)
      /\ DOMAIN events = 1..Len(events)
      /\ \A i \in DOMAIN events : events'[i] = events[i]
      /\ events'[Len(events) + 1] = e
  BY <1>1
<1>3. \A j \in {None} \cup Indices : Live(j)' = Live(j)
  BY <1>1, LiveKept
<1>4. \A i \in DOMAIN events : events[i].old \in {None} \cup Indices
                               /\ events[i].new \in {None} \cup Indices
  <2>1. \A i \in DOMAIN events : events[i] \in Event
    BY <1>1
  <2> QED BY <2>1 DEF Event
<1>5. \A i \in DOMAIN events' : \/ i \in DOMAIN events
                                \/ i = Len(events) + 1
  BY <1>1, <1>2
<1>6. Chain'
  BY <1>1, <1>2, <1>5 DEF SyncInv, Chain
<1>7. Tries' /\ Waiting' = Waiting
  BY DEF SyncInv, Tries, Waiting
<1>8. ToPublish(g)'
  <2>1. events' # << >>
    BY <1>1, <1>2
  <2> QED BY <2>1 DEF ToPublish
<1>9. Withdrawn => Withdrawn'
  BY <1>2, <1>3, <1>4, <1>5 DEF Withdrawn
<1>10. Live(cm) /\ ~Live(cm)' => Withdrawn'
  <2>1. Len(events) + 1 \in DOMAIN events'
    BY <1>1, <1>2
  <2> QED BY <1>1, <1>2, <1>3, <2>1 DEF Withdrawn, Live, IsPolarisConfigMap
<1>11. ToRemove(g)'
  <2>1. CASE Withdrawn'
    BY <2>1 DEF ToRemove
  <2>2. CASE ~Withdrawn' /\ ~Live(cm)'
    <3>1. ~Live(cm) /\ ~Withdrawn
      BY <1>9, <1>10, <2>2
    <3>2. \A w \in Workers : worker[w].obj \in {None} \cup Indices
      BY <1>1 DEF TypeOK
    <3> QED BY <1>3, <1>7, <3>1, <3>2 DEF SyncInv, ToRemove
  <2> QED BY <2>1, <2>2 DEF ToRemove
<1> QED BY <1>6, <1>7, <1>8, <1>11 DEF SyncInv

(* Each change of the ConfigMap has its notification. *)
LEMMA ClusterSync ==
  ASSUME NEW g \in Groups, Steady(g), IInv, IInv', SyncInv(g),
         (\E o \in Objects : SetConfigMap(o)) \/ RemoveConfigMap
  PROVE  SyncInv(g)'
<1>1. TypeOK /\ Len(objs) \in Nat /\ None = 0
  BY RecordsOf DEF IInv, None
<1>2. ASSUME NEW o \in Objects, SetConfigMap(o) PROVE SyncInv(g)'
  <2> DEFINE e == [type |-> IF cm = None THEN "add" ELSE "update",
                   old |-> cm, new |-> Len(objs) + 1]
  <2>1. events' = Append(events, e) /\ cm' = Len(objs) + 1 /\ Len(objs) + 1 # None
    BY <1>1, <1>2 DEF SetConfigMap
  <2>2. /\ e.new = Len(objs) + 1 /\ e.old = cm
        /\ e.type = IF cm = None THEN "add" ELSE "update"
    OBVIOUS
  <2>3. /\ UNCHANGED <<pending, worker, files, published>>
        /\ used'.faults = used.faults
    BY <1>1, <1>2 DEF SetConfigMap, polarisVars, Use, TypeOK
  <2> HIDE DEF e
  <2> QED BY <1>1, <1>2, <2>1, <2>2, <2>3, SetGrown, ChangeSync
<1>3. CASE RemoveConfigMap
  <2> DEFINE e == [type |-> "delete", old |-> cm, new |-> None]
  <2>1. events' = Append(events, e) /\ cm' = None /\ cm # None
    BY <1>3 DEF RemoveConfigMap, Steady
  <2>2. e.new = None /\ e.old = cm /\ e.type = "delete"
    OBVIOUS
  <2>3. /\ UNCHANGED <<objs, pending, worker, files, published>>
        /\ used'.faults = used.faults
    BY <1>1, <1>3 DEF RemoveConfigMap, polarisVars, Use, TypeOK
  <2> HIDE DEF e
  <2> QED BY <1>1, <2>1, <2>2, <2>3, SameObjs, ChangeSync
<1> QED BY <1>2, <1>3

(* Whatever happens to a ConfigMap that is, or was, to be synced enqueues a    *)
(* task.                                                                       *)
LEMMA HandledEvent ==
  ASSUME NEW g \in Groups, IInv, SyncInv(g), HandleEvent
  PROVE  /\ pending' = pending \/ \E op \in Ops : pending' = Enqueued(pending, op, 0)
         /\ Live(Head(events).old) \/ Live(Head(events).new) =>
              \E op \in Ops : pending' = Enqueued(pending, op, 0)
<1> DEFINE e == Head(events)
<1>1. /\ e.type = "add" <=> e.old = None
      /\ e.type = "delete" <=> e.new = None
      /\ e.type # "tombstone"
  <2>1. events \in Seq(Event) /\ events # << >>
    BY DEF IInv, TypeOK, Event, HandleEvent
  <2>2. 1 \in DOMAIN events /\ e = events[1]
    BY <2>1
  <2> QED BY <2>2 DEF SyncInv, Chain
<1>2. \/ e.type = "add" /\ onConfigMapAdd(e)
      \/ e.type = "update" /\ onConfigMapUpdate(e)
      \/ e.type = "delete" /\ onConfigMapDelete(e)
  BY <1>1 DEF HandleEvent
<1>3. "Add" \in Ops /\ "Update" \in Ops /\ "Delete" \in Ops
  BY DEF Ops
<1> HIDE DEF e
<1>4. /\ pending' = pending \/ \E op \in Ops : pending' = Enqueued(pending, op, 0)
      /\ Live(e.old) \/ Live(e.new) =>
           \E op \in Ops : pending' = Enqueued(pending, op, 0)
  BY <1>1, <1>2, <1>3
     DEF onConfigMapAdd, onConfigMapUpdate, onConfigMapDelete, Enqueue, Ignored, Live
<1> QED BY <1>4 DEF e

(* What was to be done for a notification is now in the queue. *)
LEMMA HandleEventSync ==
  ASSUME NEW g \in Groups, Steady(g), IInv, SyncInv(g), HandleEvent
  PROVE  SyncInv(g)'
<1>1. /\ TypeOK /\ Grown /\ events \in Seq(Event) /\ events # << >>
      /\ pending \in Queue /\ 0 \in Retries /\ used.faults \in Nat
      /\ UNCHANGED <<cm, worker, files, published, used>>
      /\ cm \in {None} \cup Indices
  <2>1. UNCHANGED <<objs, cm, worker, files, published, used>> /\ events # << >>
    BY DEF HandleEvent, polarisVars
  <2>2. TypeOK
    BY DEF IInv
  <2>3. 0 \in Retries
    BY ConfigSyncAssumption DEF Retries, ConfigSyncAssumption
  <2> QED BY <2>1, <2>2, <2>3, SameObjs DEF TypeOK, Event, Queue
<1>2. /\ Len(events) \in Nat \ {0} /\ Len(events') = Len(events) - 1
      /\ DOMAIN events = 1..Len(events) /\ DOMAIN events' = 1..(Len(events) - 1)
      /\ Head(events) = events[1]
      /\ \A i \in DOMAIN events' : events'[i] = events[i + 1] /\ i + 1 \in DOMAIN events
      /\ events' = << >> <=> Len(events) = 1
  <2>1. events' = Tail(events)
    BY DEF HandleEvent
  <2>2. /\ Len(events) \in Nat \ {0} /\ Len(events') = Len(events) - 1
        /\ DOMAIN events = 1..Len(events) /\ DOMAIN events' = 1..(Len(events) - 1)
        /\ Head(events) = events[1] /\ events' \in Seq(Event)
    BY <1>1, <2>1
  <2>3. \A i \in 1..(Len(events) - 1) : Tail(events)[i] = events[i + 1]
    BY <1>1
  <2>4. events' = << >> <=> Len(events') = 0
    BY <2>2, EmptySeq
  <2> QED BY <2>1, <2>2, <2>3, <2>4
<1>3. ASSUME NEW op \in Ops, pending' = Enqueued(pending, op, 0)
      PROVE  /\ Waiting'
             /\ \A o \in Ops, r \in Retries : pending'[o][r] > 0 => r <= used.faults
  <2>1. Waiting'
    BY <1>1, <1>3, EnqueuedTask DEF Waiting
  <2>2. ASSUME NEW o \in Ops, NEW r \in Retries, pending'[o][r] > 0
        PROVE  r <= used.faults
    <3>1. pending[o][r] > 0 \/ r = 0
      BY <1>1, <1>3, <2>2, EnqueuedTask
    <3> QED BY <1>1, <3>1 DEF SyncInv, Tries
  <2> QED BY <2>1, <2>2
<1>4. Tries' /\ (Waiting => Waiting')
  <2>1. CASE pending' = pending
    BY <1>1, <2>1 DEF SyncInv, Tries, Waiting
  <2>2. CASE \E op \in Ops : pending' = Enqueued(pending, op, 0)
    BY <1>1, <1>3, <2>2 DEF SyncInv, Tries
  <2> QED BY <2>1, <2>2, HandledEvent
<1>5. Live(events[1].old) \/ Live(events[1].new) => Waiting'
  BY <1>2, <1>3, HandledEvent
<1>6. Chain'
  <2>1. events' # << >> => events'[Len(events')] = events[Len(events)]
    BY <1>2
  <2> QED BY <1>1, <1>2, <2>1 DEF SyncInv, Chain
<1>7. \A j \in {None} \cup Indices : Live(j)' = Live(j)
  BY <1>1, LiveKept
<1>8. ToPublish(g)'
  <2>1. events' = << >> /\ Live(cm) => Waiting'
    BY <1>2, <1>5 DEF SyncInv, Chain
  <2> QED BY <1>1, <1>7, <2>1 DEF ToPublish
<1>9. Withdrawn => Withdrawn' \/ Waiting'
  <2> SUFFICES ASSUME NEW i \in DOMAIN events,
                      Live(events[i].old), ~Live(events[i].new)
               PROVE  Withdrawn' \/ Waiting'
    BY DEF Withdrawn
  <2>1. CASE i = 1
    BY <1>5, <2>1
  <2>2. CASE i # 1
    <3>1. i - 1 \in DOMAIN events' /\ events'[i - 1] = events[i]
      BY <1>2, <2>2
    <3>2. events[i].old \in {None} \cup Indices /\ events[i].new \in {None} \cup Indices
      <4>1. events[i] \in Event
        BY <1>1
      <4> QED BY <4>1 DEF Event
    <3> QED BY <1>7, <3>1, <3>2 DEF Withdrawn
  <2> QED BY <2>1, <2>2
<1>10. ToRemove(g)'
  <2>1. \A w \in Workers : worker[w].obj \in {None} \cup Indices
    BY <1>1 DEF TypeOK
  <2> QED BY <1>1, <1>4, <1>7, <1>9, <2>1 DEF SyncInv, ToRemove
<1> QED BY <1>4, <1>6, <1>8, <1>10 DEF SyncInv

(* Every step keeps SyncInv. *)
LEMMA NextSync ==
  ASSUME NEW g \in Groups, Steady(g), IInv, FileInv(g), SyncInv(g), [Next]_vars
  PROVE  SyncInv(g)'
<1>1. IInv'
  BY NextIInv
<1>2. CASE UNCHANGED vars \/ HandlerCaches
  <2>1. UNCHANGED <<objs, cm, events, pending, worker, files, published, used>>
    BY <1>2 DEF vars, HandlerCaches, polarisVars
  <2> QED BY <2>1
          DEF SyncInv, Tries, Chain, ToPublish, ToRemove, Waiting, Withdrawn, Live,
              IsPolarisConfigMap
<1>3. CASE \E o \in Objects : SetConfigMap(o)
  BY <1>1, <1>3, ClusterSync
<1>4. CASE \E o \in Objects : Restart(o)
  <2>1. used.restarts \in Nat
    BY DEF IInv, TypeOK
  <2> QED BY <1>4, <2>1 DEF Restart, Use, Steady, Plain
<1>5. CASE RemoveConfigMap \/ HandleEvent
  BY <1>1, <1>5, ClusterSync, HandleEventSync
<1>6. CASE \E w \in Workers, op \in Ops, r \in Retries : TakeTask(w, op, r)
  BY <1>6, TakeTaskSync
<1>7. CASE \E w \in Workers : WorkerStep(w)
  BY <1>7, PrepareSync, LoadCacheSync, SendingSync, ReleaseSync, DeleteSync, CacheSync
     DEF WorkerStep
<1> QED BY <1>2, <1>3, <1>4, <1>5, <1>6, <1>7 DEF Next

(* With nothing left in sight, there is nothing left to do. *)
LEMMA QuietSynced ==
  ASSUME NEW g \in Groups, IInv, FileInv(g), SyncInv(g)
  PROVE  QuietIsSynced
<1> SUFFICES ASSUME events = << >>, pending = NoTasks,
                    \A w \in Workers : worker[w].pc = "idle"
             PROVE  IF IsLive THEN published[GroupOf(objs[cm])] = cm ELSE files = NoFiles
  BY DEF QuietIsSynced
<1>1. TypeOK /\ Ours(g) /\ ~Waiting /\ ~Withdrawn /\ (IsLive <=> Live(cm))
  BY DEF IInv, FileInv, Waiting, NoTasks, Withdrawn, IsLive, Live
<1>2. CASE IsLive
  <2>1. objs[cm].group = g /\ g # NoGroup
    BY <1>1, <1>2, FileTypes DEF Ours, TypeOK, IsLive
  <2>2. GroupOf(objs[cm]) = g
    BY <2>1 DEF GroupOf
  <2>3. published[g] = cm
    BY <1>1, <1>2 DEF SyncInv, ToPublish
  <2> QED BY <1>2, <2>2, <2>3
<1>3. CASE ~IsLive
  <2>1. files[g] = None
    BY <1>1, <1>3 DEF SyncInv, ToRemove
  <2>2. \A h \in Groups \cup {NoGroup} : files[h] = None
    BY <1>1, <2>1 DEF Ours
  <2>3. files = NoFiles
    BY <1>1, <2>2 DEF TypeOK, Slots, NoFiles
  <2> QED BY <1>3, <2>3
<1> QED BY <1>2, <1>3

(* No notification, no task and no busy worker is left: then Polaris publishes  *)
(* the ConfigMap as it is now, or has nothing, if it is gone or not to be synced *)
(* any more.  So syncConfigMap, the cache it decides by and the retries of      *)
(* handleTask forget nothing, in whatever order changes, tasks and failing      *)
(* updates and deletions meet.                                                  *)
THEOREM QuietAndSynced ==
  ASSUME NEW g \in Groups, Steady(g)
  PROVE  Spec => []QuietIsSynced
<1>1. Init => IInv /\ FileInv(g) /\ SyncInv(g)
  BY InitIInv, InitFileInv, InitSync DEF Steady
<1>2. IInv /\ FileInv(g) /\ SyncInv(g) /\ [Next]_vars =>
        (IInv /\ FileInv(g) /\ SyncInv(g))'
  BY NextIInv, NextFileInv, NextSync DEF Steady
<1>3. IInv /\ FileInv(g) /\ SyncInv(g) => QuietIsSynced
  BY QuietSynced
<1> QED BY <1>1, <1>2, <1>3, PTL DEF Spec
=============================================================================
