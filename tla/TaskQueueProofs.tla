--------------------------- MODULE TaskQueueProofs ---------------------------
(***************************************************************************)
(* Proofs about TaskQueue for every number of tasks, workers and retries.  *)
(* IInv is inductive; the safety properties of TaskQueue are parts of it.  *)
(***************************************************************************)
EXTENDS TaskQueue, SequenceTheorems, TLAPS

-----------------------------------------------------------------------------
(* What appending to and taking from the queue does to the set of elements *)
(* it holds and to their being distinct.                                   *)

(* Appending an element that a sequence without duplicates lacks adds it   *)
(* to the range and creates no duplicate (workqueue.Add and Done).         *)
LEMMA AppendNew ==
  ASSUME NEW S, NEW q \in Seq(S), NEW e \in S
  PROVE  /\ Append(q, e) \in Seq(S)
         /\ Range(Append(q, e)) = Range(q) \cup {e}
         /\ IsInjective(q) /\ e \notin Range(q) => IsInjective(Append(q, e))
<1> DEFINE r == Append(q, e)
<1>1. /\ r \in Seq(S)
      /\ Len(r) = Len(q) + 1
      /\ \A i \in 1..Len(q) : r[i] = q[i]
      /\ r[Len(q) + 1] = e
  BY AppendProperties
<1>2. /\ Len(q) \in Nat
      /\ DOMAIN q = 1..Len(q)
      /\ DOMAIN r = 1..(Len(q) + 1)
  BY <1>1, LenProperties
<1> HIDE DEF r
<1>3. Range(r) = Range(q) \cup {e}
  <2>1. ASSUME NEW x \in Range(r) PROVE x \in Range(q) \cup {e}
    BY <1>1, <1>2 DEF Range
  <2>2. ASSUME NEW x \in Range(q) PROVE x \in Range(r)
    <3>1. PICK i \in 1..Len(q) : x = q[i]
      BY <1>2 DEF Range
    <3>2. i \in DOMAIN r /\ r[i] = x
      BY <1>1, <1>2, <3>1
    <3> QED BY <3>2 DEF Range
  <2>3. e \in Range(r)
    <3>1. Len(q) + 1 \in DOMAIN r
      BY <1>2
    <3> QED BY <1>1, <3>1 DEF Range
  <2> QED BY <2>1, <2>2, <2>3
<1>4. ASSUME IsInjective(q), e \notin Range(q) PROVE IsInjective(r)
  <2> SUFFICES ASSUME NEW i \in DOMAIN r, NEW j \in DOMAIN r, r[i] = r[j]
               PROVE  i = j
    BY DEF IsInjective
  <2>1. CASE i \in DOMAIN q /\ j \in DOMAIN q
    BY <1>1, <1>2, <1>4, <2>1 DEF IsInjective
  <2>2. ASSUME NEW k \in DOMAIN q PROVE r[k] # e
    BY <1>1, <1>2, <1>4 DEF Range
  <2>3. CASE i \notin DOMAIN q \/ j \notin DOMAIN q
    BY <1>1, <1>2, <2>2, <2>3
  <2> QED BY <2>1, <2>3
<1> QED BY <1>1, <1>3, <1>4 DEF r

(* Taking the head of a sequence without duplicates removes exactly that   *)
(* element (workqueue.Get).                                                *)
LEMMA TakeHead ==
  ASSUME NEW S, NEW q \in Seq(S), q # << >>, IsInjective(q)
  PROVE  /\ Head(q) \in Range(q)
         /\ Head(q) \in S
         /\ Tail(q) \in Seq(S)
         /\ IsInjective(Tail(q))
         /\ Range(Tail(q)) = Range(q) \ {Head(q)}
<1> DEFINE r == Tail(q)
<1>1. /\ Head(q) \in S
      /\ r \in Seq(S)
      /\ Len(r) = Len(q) - 1
      /\ \A i \in 1..Len(r) : r[i] = q[i + 1]
  BY HeadTailProperties
<1>2. /\ Len(q) \in Nat \ {0}
      /\ DOMAIN q = 1..Len(q)
      /\ DOMAIN r = 1..(Len(q) - 1)
  BY <1>1, LenProperties, EmptySeq
<1>3. Head(q) = q[1] /\ 1 \in DOMAIN q
  BY <1>2
<1> HIDE DEF r
<1>4. IsInjective(r)
  <2> SUFFICES ASSUME NEW i \in DOMAIN r, NEW j \in DOMAIN r, r[i] = r[j]
               PROVE  i = j
    BY DEF IsInjective
  <2>1. i + 1 \in DOMAIN q /\ j + 1 \in DOMAIN q /\ q[i + 1] = q[j + 1]
    BY <1>1, <1>2
  <2>2. i + 1 = j + 1
    BY <2>1 DEF IsInjective
  <2> QED BY <2>2, <1>2
<1>5. Range(r) = Range(q) \ {Head(q)}
  <2>1. ASSUME NEW x \in Range(r) PROVE x \in Range(q) /\ x # Head(q)
    <3>1. PICK i \in DOMAIN r : x = r[i]
      BY DEF Range
    <3>2. i + 1 \in DOMAIN q /\ x = q[i + 1] /\ i + 1 # 1
      BY <1>1, <1>2, <3>1
    <3>3. x # q[1]
      BY <1>3, <3>2 DEF IsInjective
    <3> QED BY <1>3, <3>2, <3>3 DEF Range
  <2>2. ASSUME NEW x \in Range(q), x # Head(q) PROVE x \in Range(r)
    <3>1. PICK i \in DOMAIN q : x = q[i]
      BY DEF Range
    <3>2. i # 1
      BY <1>3, <2>2, <3>1
    <3>3. i - 1 \in DOMAIN r /\ r[i - 1] = x
      BY <1>1, <1>2, <3>1, <3>2
    <3> QED BY <3>3 DEF Range
  <2> QED BY <2>1, <2>2
<1>6. Head(q) \in Range(q)
  BY <1>3 DEF Range
<1> QED BY <1>1, <1>4, <1>5, <1>6 DEF r

-----------------------------------------------------------------------------
(* The state has its shape initially and after every step. *)
LEMMA InitTypeOK == Init => TypeOK
<1> SUFFICES ASSUME Init PROVE TypeOK
  OBVIOUS
<1> USE TaskQueueAssumption DEF TaskQueueAssumption, Init
<1>1. queue \in Seq(Tasks)
  BY EmptySeq
<1>2. requeues \in [Tasks -> 0..MaxRetries]
  OBVIOUS
<1>3. pc \in [Workers -> PCs] /\ outcome \in [Tasks -> Outcomes]
  BY DEF PCs, Outcomes
<1>4. \A w \in Workers : pc[w] = "idle"
  OBVIOUS
<1> QED BY <1>1, <1>2, <1>3, <1>4 DEF TypeOK

(* workqueue.Add keeps the queue a sequence of distinct tasks that holds   *)
(* exactly the dirty ones no worker has, and it loses none.                *)
LEMMA AddKeepsQueueInv ==
  ASSUME TypeOK, QueueInv, NEW t \in Tasks, Add(t),
         UNCHANGED <<processing, shuttingDown>>
  PROVE  /\ queue' \in Seq(Tasks)
         /\ dirty' \subseteq Tasks
         /\ QueueInv'
         /\ dirty \subseteq dirty' /\ Range(queue) \subseteq Range(queue')
         /\ ~shuttingDown => t \in dirty'
<1>1. CASE shuttingDown \/ t \in dirty
  BY <1>1 DEF TypeOK, QueueInv, Add
<1>2. CASE ~(shuttingDown \/ t \in dirty) /\ t \in processing
  BY <1>2 DEF TypeOK, QueueInv, Add
<1>3. CASE ~(shuttingDown \/ t \in dirty) /\ t \notin processing
  <2>1. queue' = Append(queue, t) /\ dirty' = dirty \cup {t}
    BY <1>3 DEF Add
  <2>2. t \notin Range(queue) /\ queue \in Seq(Tasks)
    BY <1>3 DEF QueueInv, TypeOK
  <2>3. /\ queue' \in Seq(Tasks)
        /\ Range(queue') = Range(queue) \cup {t}
        /\ IsInjective(queue')
    BY <2>1, <2>2, AppendNew DEF QueueInv
  <2> QED BY <1>3, <2>1, <2>3 DEF QueueInv, TypeOK
<1> QED BY <1>1, <1>2, <1>3

(* Every step keeps the shape of the state. *)
LEMMA NextTypeOK ==
  ASSUME TypeOK, QueueInv, [Next]_vars
  PROVE  TypeOK'
<1> USE TaskQueueAssumption DEF TaskQueueAssumption, PCs, Outcomes
<1>1. ASSUME NEW t \in Tasks, InsertTask(t) PROVE TypeOK'
  BY <1>1, AddKeepsQueueInv DEF InsertTask, TypeOK
<1>2. ASSUME NEW t \in Tasks, DelayExpires(t) PROVE TypeOK'
  BY <1>2, AddKeepsQueueInv DEF DelayExpires, TypeOK
<1>3. ASSUME NEW w \in Workers, GetTask(w) PROVE TypeOK'
  <2>1. Head(queue) \in Tasks /\ Tail(queue) \in Seq(Tasks)
    BY <1>3, HeadTailProperties DEF GetTask, TypeOK
  <2> QED BY <1>3, <2>1 DEF GetTask, TypeOK
<1>4. ASSUME NEW w \in Workers, ReenqueueSelf(w) PROVE TypeOK'
  <2>1. held[w] \in Tasks
    BY <1>4 DEF ReenqueueSelf, TypeOK
  <2> QED BY <1>4, <2>1, AddKeepsQueueInv DEF ReenqueueSelf, TypeOK
<1>5. ASSUME NEW w \in Workers, Succeed(w) PROVE TypeOK'
  BY <1>5 DEF Succeed, TypeOK
<1>6. ASSUME NEW w \in Workers, Retry(w) PROVE TypeOK'
  <2>1. pc[w] # "idle" /\ held[w] \in Tasks /\ failures' \in Nat
    BY <1>6 DEF Retry, Fails, TypeOK
  <2>2. requeues[held[w]] + 1 \in 0..MaxRetries
    BY <1>6, <2>1 DEF Retry, TypeOK
  <2> QED BY <1>6, <2>1, <2>2 DEF Retry, TypeOK
<1>7. ASSUME NEW w \in Workers, Drop(w) PROVE TypeOK'
  <2>1. pc[w] # "idle" /\ held[w] \in Tasks /\ failures' \in Nat
    BY <1>7 DEF Drop, Fails, TypeOK
  <2> QED BY <1>7, <2>1 DEF Drop, TypeOK
<1>8. ASSUME NEW w \in Workers, Done(w) PROVE TypeOK'
  <2>1. held[w] \in Tasks
    BY <1>8 DEF Done, TypeOK
  <2>2. queue' \in Seq(Tasks)
    BY <1>8, <2>1, AppendNew DEF Done, TypeOK
  <2> QED BY <1>8, <2>1, <2>2 DEF Done, TypeOK
<1>9. CASE ShutDown
  BY <1>9 DEF ShutDown, TypeOK
<1>10. CASE UNCHANGED vars
  BY <1>10 DEF vars, queueVars, TypeOK
<1> QED
  BY <1>1, <1>2, <1>3, <1>4, <1>5, <1>6, <1>7, <1>8, <1>9, <1>10
     DEF Next, HandleTask

-----------------------------------------------------------------------------
(* What a worker that is not idle holds is being processed. *)
LEMMA HeldIsProcessing ==
  ASSUME TypeOK, WorkerInv, NEW w \in Workers, pc[w] # "idle"
  PROVE  held[w] \in processing /\ held[w] \in Tasks
BY DEF TypeOK, WorkerInv

(* Every step keeps the queue equal to what is dirty and not held. *)
LEMMA NextQueueInv ==
  ASSUME TypeOK, QueueInv, WorkerInv, [Next]_vars
  PROVE  QueueInv'
<1>1. ASSUME NEW t \in Tasks, InsertTask(t) PROVE QueueInv'
  BY <1>1, AddKeepsQueueInv DEF InsertTask
<1>2. ASSUME NEW t \in Tasks, DelayExpires(t) PROVE QueueInv'
  BY <1>2, AddKeepsQueueInv DEF DelayExpires
<1>3. ASSUME NEW w \in Workers, GetTask(w) PROVE QueueInv'
  BY <1>3, TakeHead DEF GetTask, TypeOK, QueueInv
<1>4. ASSUME NEW w \in Workers, ReenqueueSelf(w) PROVE QueueInv'
  <2>1. held[w] \in Tasks
    BY <1>4 DEF ReenqueueSelf, TypeOK
  <2> QED BY <1>4, <2>1, AddKeepsQueueInv DEF ReenqueueSelf
<1>5. ASSUME NEW w \in Workers, Succeed(w) \/ Retry(w) \/ Drop(w)
      PROVE  QueueInv'
  BY <1>5 DEF Succeed, Retry, Drop, QueueInv
<1>6. ASSUME NEW w \in Workers, Done(w) PROVE QueueInv'
  <2>1. held[w] \in processing /\ held[w] \in Tasks
    BY <1>6, HeldIsProcessing DEF Done
  <2>2. held[w] \notin Range(queue) /\ queue \in Seq(Tasks)
    BY <2>1 DEF QueueInv, TypeOK
  <2>3. CASE held[w] \in dirty
    <3>1. queue' = Append(queue, held[w])
      BY <1>6, <2>3 DEF Done
    <3>2. IsInjective(queue') /\ Range(queue') = Range(queue) \cup {held[w]}
      BY <2>1, <2>2, <3>1, AppendNew DEF QueueInv
    <3> QED BY <1>6, <2>1, <2>3, <3>2 DEF Done, QueueInv
  <2>4. CASE held[w] \notin dirty
    BY <1>6, <2>4 DEF Done, QueueInv
  <2> QED BY <2>3, <2>4
<1>7. CASE ShutDown \/ UNCHANGED vars
  BY <1>7 DEF ShutDown, vars, queueVars, QueueInv
<1> QED
  BY <1>1, <1>2, <1>3, <1>4, <1>5, <1>6, <1>7 DEF Next, HandleTask

(* Every step keeps processing equal to what the workers hold, each task   *)
(* with one of them, and every failed task scheduled.                      *)
LEMMA NextWorkerInv ==
  ASSUME TypeOK, QueueInv, WorkerInv, OneWorkerPerTask, [Next]_vars
  PROVE  WorkerInv' /\ OneWorkerPerTask'
<1>1. ASSUME NEW t \in Tasks, InsertTask(t)
      PROVE  WorkerInv' /\ OneWorkerPerTask'
  BY <1>1, AddKeepsQueueInv DEF InsertTask, WorkerInv, OneWorkerPerTask
<1>2. ASSUME NEW t \in Tasks, DelayExpires(t)
      PROVE  WorkerInv' /\ OneWorkerPerTask'
  <2>1. dirty \subseteq dirty' /\ t \in dirty'
    BY <1>2, AddKeepsQueueInv DEF DelayExpires
  <2>2. waiting \cup dirty \subseteq (waiting \cup dirty)'
    BY <1>2, <2>1 DEF DelayExpires
  <2> QED BY <1>2, <2>2 DEF DelayExpires, WorkerInv, OneWorkerPerTask
<1>3. ASSUME NEW w \in Workers, GetTask(w)
      PROVE  WorkerInv' /\ OneWorkerPerTask'
  <2> DEFINE h == Head(queue)
  <2>1. h \in Range(queue) /\ h \in Tasks
    BY <1>3, TakeHead DEF GetTask, TypeOK, QueueInv
  <2>2. h \notin processing
    BY <2>1 DEF QueueInv
  <2>3. /\ pc[w] = "idle" /\ pc' = [pc EXCEPT ![w] = "processing"]
        /\ held' = [held EXCEPT ![w] = h]
        /\ processing' = processing \cup {h} /\ dirty' = dirty \ {h}
        /\ UNCHANGED <<outcome, waiting, shuttingDown>>
    BY <1>3 DEF GetTask
  <2>4. \A v \in Workers : pc[v] # "idle" => held[v] \in processing /\ held[v] # h
    BY <2>2 DEF WorkerInv
  <2> HIDE DEF h
  <2>5. OneWorkerPerTask'
    BY <2>3, <2>4 DEF OneWorkerPerTask, TypeOK
  <2>6. processing' = {held'[v] : v \in {u \in Workers : pc'[u] # "idle"}}
    <3>1. \A v \in Workers \ {w} : held'[v] = held[v] /\ pc'[v] = pc[v]
      BY <2>3 DEF TypeOK
    <3>2. held'[w] = h /\ pc'[w] # "idle"
      BY <2>3 DEF TypeOK
    <3> QED BY <2>3, <3>1, <3>2 DEF WorkerInv
  <2>7. \A v \in Workers : pc'[v] = "settled" =>
           pc[v] = "settled" /\ held'[v] = held[v] /\ held[v] # h
    BY <2>3, <2>4 DEF TypeOK
  <2> QED BY <2>3, <2>5, <2>6, <2>7 DEF WorkerInv
<1>4. ASSUME NEW w \in Workers, ReenqueueSelf(w)
      PROVE  WorkerInv' /\ OneWorkerPerTask'
  <2>1. held[w] \in Tasks
    BY <1>4 DEF ReenqueueSelf, TypeOK
  <2>2. dirty \subseteq dirty'
    BY <1>4, <2>1, AddKeepsQueueInv DEF ReenqueueSelf
  <2>3. \A v \in Workers : /\ pc'[v] # "idle" <=> pc[v] # "idle"
                           /\ pc'[v] = "settled" <=> pc[v] = "settled"
    BY <1>4 DEF ReenqueueSelf, TypeOK
  <2> QED BY <1>4, <2>2, <2>3 DEF ReenqueueSelf, WorkerInv, OneWorkerPerTask
<1>5. ASSUME NEW w \in Workers, Succeed(w) \/ Retry(w) \/ Drop(w)
      PROVE  WorkerInv' /\ OneWorkerPerTask'
  <2>1. /\ pc[w] # "idle" /\ pc' = [pc EXCEPT ![w] = "settled"]
        /\ held' = held /\ processing' = processing /\ dirty' = dirty
        /\ shuttingDown' = shuttingDown /\ waiting \subseteq waiting'
    BY <1>5 DEF Succeed, Retry, Drop, Fails
  <2>2. \E o \in {"failed", "succeeded", "dropped"} :
           /\ outcome' = [outcome EXCEPT ![held[w]] = o]
           /\ o = "failed" /\ ~shuttingDown => held[w] \in waiting'
    BY <1>5 DEF Succeed, Retry, Drop
  <2>3. \A v \in Workers : pc'[v] # "idle" <=> pc[v] # "idle"
    BY <2>1 DEF TypeOK
  <2>4. OneWorkerPerTask'
    BY <2>1, <2>3 DEF OneWorkerPerTask
  <2>5. ASSUME NEW v \in Workers, pc'[v] = "settled"
        PROVE  /\ outcome'[held'[v]] # "none"
               /\ outcome'[held'[v]] = "failed" /\ ~shuttingDown' =>
                    held'[v] \in waiting' \cup dirty'
    <3>1. CASE v = w
      BY <2>1, <2>2, <3>1 DEF TypeOK
    <3>2. CASE v # w
      <4>1. pc[v] = "settled" /\ held[v] # held[w]
        BY <2>1, <2>5, <3>2 DEF TypeOK, OneWorkerPerTask
      <4>2. outcome'[held[v]] = outcome[held[v]]
        BY <2>2, <4>1 DEF TypeOK
      <4> QED BY <2>1, <4>1, <4>2 DEF WorkerInv
    <3> QED BY <3>1, <3>2
  <2> QED BY <2>1, <2>3, <2>4, <2>5 DEF WorkerInv
<1>6. ASSUME NEW w \in Workers, Done(w)
      PROVE  WorkerInv' /\ OneWorkerPerTask'
  <2>1. /\ pc[w] = "settled" /\ pc' = [pc EXCEPT ![w] = "idle"]
        /\ held' = [held EXCEPT ![w] = NoTask]
        /\ processing' = processing \ {held[w]}
        /\ UNCHANGED <<dirty, waiting, outcome, shuttingDown>>
    BY <1>6 DEF Done
  <2>2. \A v \in Workers : pc'[v] # "idle" =>
           v # w /\ held'[v] = held[v] /\ pc'[v] = pc[v] /\ held[v] # held[w]
    BY <2>1 DEF TypeOK, OneWorkerPerTask
  <2>3. \A v \in Workers : pc[v] # "idle" /\ v # w => pc'[v] # "idle"
    BY <2>1 DEF TypeOK
  <2>4. OneWorkerPerTask'
    BY <2>2 DEF OneWorkerPerTask
  <2>5. processing' = {held'[v] : v \in {u \in Workers : pc'[u] # "idle"}}
    BY <2>1, <2>2, <2>3 DEF WorkerInv
  <2>6. \A v \in Workers : pc'[v] = "settled" =>
           pc[v] = "settled" /\ held'[v] = held[v]
    BY <2>2
  <2> QED BY <2>1, <2>4, <2>5, <2>6 DEF WorkerInv
<1>7. CASE ShutDown \/ UNCHANGED vars
  BY <1>7 DEF ShutDown, vars, queueVars, WorkerInv, OneWorkerPerTask
<1> QED
  BY <1>1, <1>2, <1>3, <1>4, <1>5, <1>6, <1>7 DEF Next, HandleTask

(* Every step leaves a task that still needs a result queued, delayed or   *)
(* held.                                                                   *)
LEMMA NextNoTaskLost ==
  ASSUME TypeOK, QueueInv, WorkerInv, NoTaskLost, [Next]_vars
  PROVE  NoTaskLost'
<1>1. ASSUME NEW t \in Tasks, InsertTask(t) PROVE NoTaskLost'
  <2>1. /\ QueueInv' /\ Range(queue) \subseteq Range(queue')
        /\ ~shuttingDown => t \in dirty'
    BY <1>1, AddKeepsQueueInv DEF InsertTask
  <2>2. ~shuttingDown => t \in Range(queue') \cup processing'
    BY <2>1 DEF QueueInv
  <2> QED BY <1>1, <2>1, <2>2 DEF InsertTask, NoTaskLost
<1>2. ASSUME NEW t \in Tasks, DelayExpires(t) PROVE NoTaskLost'
  <2>1. /\ QueueInv' /\ Range(queue) \subseteq Range(queue')
        /\ t \in dirty'
    BY <1>2, AddKeepsQueueInv DEF DelayExpires
  <2>2. t \in Range(queue') \cup processing'
    BY <2>1 DEF QueueInv
  <2> QED BY <1>2, <2>1, <2>2 DEF DelayExpires, NoTaskLost
<1>3. ASSUME NEW w \in Workers, GetTask(w) PROVE NoTaskLost'
  <2>1. Range(queue') \cup processing' = Range(queue) \cup processing
    BY <1>3, TakeHead DEF GetTask, TypeOK, QueueInv
  <2> QED BY <1>3, <2>1 DEF GetTask, NoTaskLost
<1>4. ASSUME NEW w \in Workers, ReenqueueSelf(w) PROVE NoTaskLost'
  <2>1. held[w] \in Tasks
    BY <1>4 DEF ReenqueueSelf, TypeOK
  <2>2. Range(queue) \subseteq Range(queue')
    BY <1>4, <2>1, AddKeepsQueueInv DEF ReenqueueSelf
  <2> QED BY <1>4, <2>2 DEF ReenqueueSelf, NoTaskLost
<1>5. ASSUME NEW w \in Workers, Succeed(w) \/ Retry(w) \/ Drop(w)
      PROVE  NoTaskLost'
  <2>1. held[w] \in processing /\ held[w] \in Tasks
    BY <1>5, HeldIsProcessing DEF Succeed, Retry, Drop, Fails
  <2>2. /\ UNCHANGED <<queue, processing, inserted, shuttingDown>>
        /\ waiting \subseteq waiting'
        /\ \A t \in Tasks : t # held[w] => outcome'[t] = outcome[t]
    BY <1>5 DEF Succeed, Retry, Drop, TypeOK
  <2> QED BY <2>1, <2>2 DEF NoTaskLost, TypeOK
<1>6. ASSUME NEW w \in Workers, Done(w) PROVE NoTaskLost'
  <2>1. held[w] \in processing /\ held[w] \in Tasks /\ pc[w] = "settled"
    BY <1>6, HeldIsProcessing DEF Done
  <2>2. /\ Range(queue) \subseteq Range(queue')
        /\ held[w] \in dirty => held[w] \in Range(queue')
    <3>1. CASE held[w] \in dirty
      <4>1. queue' = Append(queue, held[w]) /\ queue \in Seq(Tasks)
        BY <1>6, <3>1 DEF Done, TypeOK
      <4>2. Range(queue') = Range(queue) \cup {held[w]}
        BY <2>1, <4>1, AppendNew
      <4> QED BY <4>2
    <3>2. CASE held[w] \notin dirty
      BY <1>6, <3>2 DEF Done
    <3> QED BY <3>1, <3>2
  <2>3. outcome[held[w]] \in {"none", "failed"} /\ ~shuttingDown =>
          held[w] \in waiting \cup dirty
    BY <2>1 DEF WorkerInv
  <2> QED BY <1>6, <2>1, <2>2, <2>3 DEF Done, NoTaskLost
<1>7. CASE ShutDown \/ UNCHANGED vars
  BY <1>7 DEF ShutDown, vars, queueVars, NoTaskLost
<1> QED
  BY <1>1, <1>2, <1>3, <1>4, <1>5, <1>6, <1>7 DEF Next, HandleTask

(* Every step keeps a failure count for exactly the failing tasks. *)
LEMMA NextCountedIffFailing ==
  ASSUME TypeOK, CountedIffFailing, [Next]_vars
  PROVE  CountedIffFailing'
<1>1. ASSUME NEW w \in Workers, Succeed(w) \/ Drop(w)
      PROVE  CountedIffFailing'
  BY <1>1 DEF Succeed, Drop, CountedIffFailing, TypeOK
<1>2. ASSUME NEW w \in Workers, Retry(w) PROVE CountedIffFailing'
  BY <1>2 DEF Retry, Fails, CountedIffFailing, TypeOK
<1>3. CASE UNCHANGED <<requeues, outcome>>
  BY <1>3 DEF CountedIffFailing
<1> QED
  BY <1>1, <1>2, <1>3
     DEF Next, HandleTask, InsertTask, DelayExpires, GetTask, ReenqueueSelf,
         Done, ShutDown, vars, queueVars

-----------------------------------------------------------------------------
(* Initially nothing is inserted, queued or held. *)
LEMMA InitIInv == Init => IInv
<1> SUFFICES ASSUME Init PROVE IInv
  OBVIOUS
<1>1. Range(queue) = {} /\ IsInjective(queue)
  BY EmptySeq DEF Init, Range, IsInjective
<1> QED
  BY <1>1, InitTypeOK
     DEF Init, IInv, QueueInv, WorkerInv, OneWorkerPerTask, NoTaskLost,
         CountedIffFailing

(* IInv is inductive: the queue, what the workers hold and the counts of   *)
(* the rate limiter stay consistent under every step of the handlers, the  *)
(* workers, the delay queue and the shutdown.                              *)
THEOREM IInvInvariant == Spec => []IInv
<1>1. IInv /\ [Next]_vars => IInv'
  BY NextTypeOK, NextQueueInv, NextWorkerInv, NextNoTaskLost,
     NextCountedIffFailing DEF IInv
<1> QED BY InitIInv, <1>1, PTL DEF Spec

(* The state keeps its shape; in particular no failure count exceeds       *)
(* maxRetries.                                                             *)
THEOREM TypeCorrect == Spec => []TypeOK
<1>1. IInv => TypeOK
  BY DEF IInv
<1> QED BY <1>1, IInvInvariant, PTL

(* No two workers ever run process on the same Task. *)
THEOREM TaskExclusion == Spec => []OneWorkerPerTask
<1>1. IInv => OneWorkerPerTask
  BY DEF IInv
<1> QED BY <1>1, IInvInvariant, PTL

(* handleTask loses no task between Get and Done. *)
THEOREM TasksKept == Spec => []NoTaskLost
<1>1. IInv => NoTaskLost
  BY DEF IInv
<1> QED BY <1>1, IInvInvariant, PTL

(* The rate limiter counts exactly the failing tasks. *)
THEOREM CountsForgotten == Spec => []CountedIffFailing
<1>1. IInv => CountedIffFailing
  BY DEF IInv
<1> QED BY <1>1, IInvInvariant, PTL

-----------------------------------------------------------------------------
(* TaskQueue implements TaskLedger.                                        *)

(* When a worker moves on with the task it holds, that task and no other   *)
(* enters or leaves the sets of tasks at a stage of handleTask.            *)
LEMMA WorkerMovesOn ==
  ASSUME TypeOK, OneWorkerPerTask, NEW S \in SUBSET (PCs \ {"idle"}),
         NEW w \in Workers, NEW s \in PCs, pc[w] # "idle",
         pc' = [pc EXCEPT ![w] = s], held' = held
  PROVE  At(S)' = IF s \in S THEN At(S) \cup {held[w]} ELSE At(S) \ {held[w]}
<1>1. \A v \in Workers \ {w} :
        pc'[v] = pc[v] /\ (pc[v] \in S => held[v] # held[w])
  BY DEF TypeOK, OneWorkerPerTask, PCs
<1>2. pc'[w] = s
  BY DEF TypeOK
<1> QED BY <1>1, <1>2 DEF At

(* A worker that takes a task brings it to the stage "processing". *)
LEMMA WorkerTakes ==
  ASSUME TypeOK, NEW S \in SUBSET (PCs \ {"idle"}), NEW w \in Workers, GetTask(w)
  PROVE  At(S)' = IF "processing" \in S THEN At(S) \cup {Head(queue)} ELSE At(S)
<1>1. \A v \in Workers \ {w} : pc'[v] = pc[v] /\ held'[v] = held[v]
  BY DEF GetTask, TypeOK
<1>2. /\ pc[w] = "idle" /\ pc'[w] = "processing" /\ held'[w] = Head(queue)
  BY DEF GetTask, TypeOK
<1>3. {v \in Workers : pc'[v] \in S}
        = {v \in Workers : pc[v] \in S} \cup {v \in {w} : "processing" \in S}
  BY <1>1, <1>2
<1>4. \A v \in Workers : pc[v] \in S => held'[v] = held[v]
  BY <1>1, <1>2
<1> QED BY <1>2, <1>3, <1>4 DEF At

(* Letting go of a settled task changes no set of tasks under way. *)
LEMMA WorkerLetsGo ==
  ASSUME TypeOK, NEW S \in SUBSET {"processing", "reenqueued"},
         NEW w \in Workers, Done(w)
  PROVE  At(S)' = At(S)
<1>1. \A v \in Workers \ {w} : pc'[v] = pc[v] /\ held'[v] = held[v]
  BY DEF Done, TypeOK
<1>2. pc[w] = "settled" /\ pc'[w] = "idle"
  BY DEF Done, TypeOK
<1> QED BY <1>1, <1>2 DEF At

(* Every step of the queue is a step of the ledger or changes nothing of   *)
(* what the ledger shows.                                                  *)
LEMMA StepRefines ==
  ASSUME IInv, [Next]_vars
  PROVE  [Ledger!Next]_(Ledger!vars)
<1> DEFINE R == At({"processing", "reenqueued"})
           B == At({"reenqueued"})
<1>1. /\ {"processing", "reenqueued"} \in SUBSET (PCs \ {"idle"})
      /\ {"reenqueued"} \in SUBSET (PCs \ {"idle"})
      /\ {"processing", "reenqueued"} \in SUBSET {"processing", "reenqueued"}
      /\ {"reenqueued"} \in SUBSET {"processing", "reenqueued"}
  BY DEF PCs
<1>2. TypeOK /\ QueueInv /\ WorkerInv /\ OneWorkerPerTask
  BY DEF IInv
<1>3. ASSUME NEW t \in Tasks, Add(t)
      PROVE  dirty' = IF shuttingDown THEN dirty ELSE dirty \cup {t}
  BY <1>3 DEF Add
<1>4. ASSUME NEW t \in Tasks, InsertTask(t) PROVE Ledger!Insert(t)
  <2>1. R' = R /\ B' = B
    BY <1>4 DEF InsertTask, At
  <2>2. Due' = IF shuttingDown THEN Due ELSE Due \cup {t}
    BY <1>3, <1>4 DEF InsertTask, Due
  <2> QED BY <1>4, <2>1, <2>2 DEF InsertTask, Ledger!Insert, Ledger!Accepted
<1>5. ASSUME NEW t \in Tasks, DelayExpires(t) PROVE UNCHANGED Ledger!vars
  <2>1. R' = R /\ B' = B
    BY <1>5 DEF DelayExpires, At
  <2>2. Due' = Due
    BY <1>3, <1>5 DEF DelayExpires, Due
  <2> QED BY <1>5, <2>1, <2>2 DEF DelayExpires, Ledger!vars
<1>6. ASSUME NEW w \in Workers, GetTask(w)
      PROVE  \E t \in Tasks : Ledger!Start(t)
  <2> DEFINE h == Head(queue)
  <2>1. h \in Range(queue) /\ h \in Tasks
    BY <1>2, <1>6, TakeHead DEF GetTask, TypeOK, QueueInv
  <2>2. h \in dirty /\ h \notin processing
    BY <1>2, <2>1 DEF QueueInv
  <2>3. R \subseteq processing
    BY <1>2 DEF WorkerInv, At
  <2>4. R' = R \cup {h} /\ B' = B
    BY <1>1, <1>2, <1>6, WorkerTakes
  <2>5. dirty' = dirty \ {h} /\ waiting' = waiting
    BY <1>6 DEF GetTask
  <2>6. Due' = Due \/ Due' = Due \ {h}
    BY <2>5 DEF Due
  <2>7. h \in Due \ R
    BY <2>2, <2>3 DEF Due
  <2>8. UNCHANGED <<inserted, requeues, outcome, shuttingDown>>
    BY <1>6 DEF GetTask
  <2> HIDE DEF h
  <2>9. Ledger!Start(h)
    BY <2>4, <2>6, <2>7, <2>8 DEF Ledger!Start
  <2> QED BY <2>1, <2>9
<1>7. ASSUME NEW w \in Workers, pc[w] \in {"processing", "reenqueued"}
      PROVE  held[w] \in Tasks /\ held[w] \in R
  BY <1>2, <1>7 DEF TypeOK, At
<1>8. ASSUME NEW w \in Workers, pc[w] = "processing" PROVE held[w] \notin B
  BY <1>2, <1>8 DEF OneWorkerPerTask, At
<1>9. ASSUME NEW w \in Workers, ReenqueueSelf(w)
      PROVE  \E t \in Tasks : Ledger!PutBack(t)
  <2>1. /\ pc[w] = "processing" /\ held' = held /\ Add(held[w])
        /\ pc' = [pc EXCEPT ![w] = "reenqueued"]
        /\ UNCHANGED <<inserted, waiting, requeues, outcome, shuttingDown>>
    BY <1>9 DEF ReenqueueSelf
  <2>2. held[w] \in Tasks /\ held[w] \in R /\ held[w] \notin B
    BY <1>7, <1>8, <2>1
  <2>3. R' = R \cup {held[w]} /\ B' = B \cup {held[w]}
    BY <1>1, <1>2, <2>1, WorkerMovesOn DEF PCs
  <2>4. Due' = IF shuttingDown THEN Due ELSE Due \cup {held[w]}
    BY <1>3, <2>1, <2>2 DEF Due
  <2>5. Ledger!PutBack(held[w])
    BY <2>1, <2>2, <2>3, <2>4 DEF Ledger!PutBack, Ledger!Accepted
  <2> QED BY <2>2, <2>5
<1>10. ASSUME NEW w \in Workers, Succeed(w) \/ Retry(w) \/ Drop(w)
       PROVE  /\ held[w] \in Tasks /\ held[w] \in R
              /\ R' = R \ {held[w]} /\ B' = B \ {held[w]}
  <2>1. /\ pc[w] \in {"processing", "reenqueued"} /\ held' = held
        /\ pc' = [pc EXCEPT ![w] = "settled"]
    BY <1>10 DEF Succeed, Retry, Drop, Fails
  <2> QED BY <1>1, <1>2, <1>7, <2>1, WorkerMovesOn DEF PCs
<1>11. ASSUME NEW w \in Workers, Succeed(w)
       PROVE  \E t \in Tasks : Ledger!Succeed(t)
  <2>1. pc[w] = "processing" /\ UNCHANGED <<inserted, shuttingDown, dirty, waiting>>
    BY <1>11 DEF Succeed
  <2>2. Due' = Due
    BY <2>1 DEF Due
  <2>3. Ledger!Succeed(held[w])
    BY <1>8, <1>10, <1>11, <2>1, <2>2 DEF Succeed, Ledger!Succeed, Ledger!Ends
  <2> QED BY <1>10, <1>11, <2>3
<1>12. ASSUME NEW w \in Workers, Retry(w)
       PROVE  \E t \in Tasks : Ledger!Retry(t)
  <2>1. Due' = IF shuttingDown THEN Due ELSE Due \cup {held[w]}
    BY <1>12 DEF Retry, Due
  <2>2. /\ held[w] \in Tasks /\ held[w] \in R
        /\ R' = R \ {held[w]} /\ B' = B \ {held[w]}
    BY <1>10, <1>12
  <2>3. Ledger!Retry(held[w])
    BY <1>12, <2>1, <2>2 DEF Retry, Ledger!Retry, Ledger!Ends, Ledger!Accepted
  <2> QED BY <2>2, <2>3
<1>13. ASSUME NEW w \in Workers, Drop(w)
       PROVE  \E t \in Tasks : Ledger!Drop(t)
  <2>1. Due' = Due
    BY <1>13 DEF Drop, Due
  <2>2. /\ held[w] \in Tasks /\ held[w] \in R
        /\ R' = R \ {held[w]} /\ B' = B \ {held[w]}
    BY <1>10, <1>13
  <2>3. requeues[held[w]] = MaxRetries
    BY <1>2, <1>13, <2>2, TaskQueueAssumption
       DEF Drop, TypeOK, TaskQueueAssumption
  <2>4. Ledger!Drop(held[w])
    BY <1>13, <2>1, <2>2, <2>3 DEF Drop, Ledger!Drop, Ledger!Ends
  <2> QED BY <2>2, <2>4
<1>14. ASSUME NEW w \in Workers, Done(w) PROVE UNCHANGED Ledger!vars
  <2>1. R' = R /\ B' = B
    BY <1>1, <1>2, <1>14, WorkerLetsGo
  <2> QED BY <1>14, <2>1 DEF Done, Due, Ledger!vars
<1>15. ASSUME ShutDown PROVE Ledger!Stop
  BY <1>15 DEF ShutDown, Ledger!Stop, Due, At
<1>16. ASSUME UNCHANGED vars PROVE UNCHANGED Ledger!vars
  BY <1>16 DEF vars, queueVars, Ledger!vars, Due, At
<1> QED
  BY <1>4, <1>5, <1>6, <1>9, <1>11, <1>12, <1>13, <1>14, <1>15, <1>16
     DEF Next, HandleTask, Ledger!Next

(* The queue does what TaskLedger promises to those who insert tasks and   *)
(* to process, for every number of tasks, workers and retries.             *)
THEOREM Refinement == Spec => ImplementsLedger
<1>1. Init => Ledger!Init
  <2> SUFFICES ASSUME Init PROVE Ledger!Init
    OBVIOUS
  <2>1. \A w \in Workers : pc[w] = "idle"
    BY DEF Init
  <2> QED BY <2>1 DEF Init, Ledger!Init, Due, At
<1>2. IInv /\ [Next]_vars => [Ledger!Next]_(Ledger!vars)
  BY StepRefines
<1> QED BY <1>1, <1>2, IInvInvariant, PTL DEF Spec, ImplementsLedger, Ledger!Spec
=============================================================================
