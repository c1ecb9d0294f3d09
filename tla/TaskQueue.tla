------------------------------ MODULE TaskQueue ------------------------------
(***************************************************************************)
(* The task queue of PolarisController and the worker loop that drains it  *)
(* (pkg/controller/controller.go).  The queue itself is client-go's        *)
(* RateLimitingInterface; it is modelled from how the controller uses it:  *)
(* Add ignores an item already waiting (dirty) and defers one that a       *)
(* worker holds (processing) until Done, and it compares items with ==.    *)
(* The controller adds *Task pointers, so the identity the queue sees is   *)
(* the pointer and never the Kubernetes object the task is about.          *)
(*                                                                         *)
(* process(t) is abstracted to its two effects on the queue: the error it  *)
(* returns, and the task it may put back itself before it returns          *)
(* (syncService and syncConfigMap after a failed deletion).                *)
(***************************************************************************)
EXTENDS Naturals, Sequences, FiniteSets, Functions

CONSTANTS Tasks,        \* the Task structs allocated during a run
          Workers,      \* the goroutines Run starts
          NoTask,       \* what an idle worker holds
          MaxRetries,   \* maxRetries
          MaxFailures   \* bound: how many times process may fail in a run

ASSUME TaskQueueAssumption ==
  /\ NoTask \notin Tasks
  /\ MaxRetries \in Nat
  /\ MaxFailures \in Nat

VARIABLES
  queue,         \* pointers ready to be handed out, in order
  dirty,         \* pointers that still have to be processed
  processing,    \* pointers handed out and not yet Done
  waiting,       \* pointers whose rate-limited delay has not expired
  requeues,      \* the rate limiter's failure count of each pointer
  shuttingDown,  \* Run has returned and shut the queue down
  inserted,      \* pointers allocated and inserted so far
  pc,            \* where each worker is in handleTask
  held,          \* the task each worker holds
  outcome,       \* history: the result of the last attempt at each task
  failures       \* how many times process has failed

queueVars == <<queue, dirty, processing, waiting, requeues, shuttingDown>>
vars == <<queueVars, inserted, pc, held, outcome, failures>>

PCs == {"idle", "processing", "reenqueued", "settled"}
Outcomes == {"none", "failed", "succeeded", "dropped"}

Init ==
  /\ queue = << >>
  /\ dirty = {}
  /\ processing = {}
  /\ waiting = {}
  /\ requeues = [t \in Tasks |-> 0]
  /\ shuttingDown = FALSE
  /\ inserted = {}
  /\ pc = [w \in Workers |-> "idle"]
  /\ held = [w \in Workers |-> NoTask]
  /\ outcome = [t \in Tasks |-> "none"]
  /\ failures = 0

-----------------------------------------------------------------------------
\* Mutant: an item that is held is queued all the same.
Add_WhileHeld(t) ==
  IF shuttingDown \/ t \in dirty
  THEN UNCHANGED <<queue, dirty>>
  ELSE /\ dirty' = dirty \cup {t}
       /\ queue' = Append(queue, t)

(* workqueue.Add: what is new becomes dirty, and is queued unless held. *)
Add(t) ==
  IF shuttingDown \/ t \in dirty
  THEN UNCHANGED <<queue, dirty>>
  ELSE /\ dirty' = dirty \cup {t}
       /\ queue' = IF t \in processing THEN queue ELSE Append(queue, t)

(* insertTask: every handler allocates a Task and adds its pointer. *)
InsertTask(t) ==
  /\ t \notin inserted
  /\ inserted' = inserted \cup {t}
  /\ Add(t)
  /\ UNCHANGED <<processing, waiting, requeues, shuttingDown,
                 pc, held, outcome, failures>>

(* queue.Get in handleTask.  With the queue shut down and empty, Get       *)
(* reports the shutdown, handleTask returns true and worker() calls it     *)
(* again: that step changes no state.                                      *)
GetTask(w) ==
  /\ pc[w] = "idle"
  /\ queue # << >>
  /\ queue' = Tail(queue)
  /\ dirty' = dirty \ {Head(queue)}
  /\ processing' = processing \cup {Head(queue)}
  /\ held' = [held EXCEPT ![w] = Head(queue)]
  /\ pc' = [pc EXCEPT ![w] = "processing"]
  /\ UNCHANGED <<waiting, requeues, shuttingDown, inserted, outcome, failures>>

(* A deletion that fails puts its own task back before process returns the *)
(* error.                                                                  *)
ReenqueueSelf(w) ==
  /\ pc[w] = "processing"
  /\ failures < MaxFailures
  /\ failures' = failures + 1
  /\ Add(held[w])
  /\ pc' = [pc EXCEPT ![w] = "reenqueued"]
  /\ UNCHANGED <<processing, waiting, requeues, shuttingDown,
                 inserted, held, outcome>>

\* Mutant: Forget is not called.
Succeed_KeepsCount(w) ==
  /\ pc[w] = "processing"
  /\ outcome' = [outcome EXCEPT ![held[w]] = "succeeded"]
  /\ pc' = [pc EXCEPT ![w] = "settled"]
  /\ UNCHANGED <<queueVars, inserted, held, failures>>

(* process returned nil: Forget. *)
Succeed(w) ==
  /\ pc[w] = "processing"
  /\ requeues' = [requeues EXCEPT ![held[w]] = 0]
  /\ outcome' = [outcome EXCEPT ![held[w]] = "succeeded"]
  /\ pc' = [pc EXCEPT ![w] = "settled"]
  /\ UNCHANGED <<queue, dirty, processing, waiting, shuttingDown,
                 inserted, held, failures>>

(* process returned an error, with or without having put its task back. *)
Fails(w) ==
  \/ pc[w] = "reenqueued" /\ UNCHANGED failures
  \/ pc[w] = "processing" /\ failures < MaxFailures /\ failures' = failures + 1

\* Mutant: one retry too many.
Retry_OffByOne(w) ==
  /\ Fails(w)
  /\ requeues[held[w]] <= MaxRetries
  /\ requeues' = [requeues EXCEPT ![held[w]] = @ + 1]
  /\ waiting' = IF shuttingDown THEN waiting ELSE waiting \cup {held[w]}
  /\ outcome' = [outcome EXCEPT ![held[w]] = "failed"]
  /\ pc' = [pc EXCEPT ![w] = "settled"]
  /\ UNCHANGED <<queue, dirty, processing, shuttingDown, inserted, held>>

\* Mutant: the failure is counted, the task not scheduled.
Retry_NotScheduled(w) ==
  /\ Fails(w)
  /\ requeues[held[w]] < MaxRetries
  /\ requeues' = [requeues EXCEPT ![held[w]] = @ + 1]
  /\ outcome' = [outcome EXCEPT ![held[w]] = "failed"]
  /\ pc' = [pc EXCEPT ![w] = "settled"]
  /\ UNCHANGED <<queue, dirty, processing, waiting, shuttingDown, inserted, held>>

(* process returned an error and the task has retries left: AddRateLimited *)
(* counts the failure and schedules the task, unless the queue is down.    *)
Retry(w) ==
  /\ Fails(w)
  /\ requeues[held[w]] < MaxRetries
  /\ requeues' = [requeues EXCEPT ![held[w]] = @ + 1]
  /\ waiting' = IF shuttingDown THEN waiting ELSE waiting \cup {held[w]}
  /\ outcome' = [outcome EXCEPT ![held[w]] = "failed"]
  /\ pc' = [pc EXCEPT ![w] = "settled"]
  /\ UNCHANGED <<queue, dirty, processing, shuttingDown, inserted, held>>

\* Mutant: the task is given up one retry early.
Drop_OneEarly(w) ==
  /\ Fails(w)
  /\ requeues[held[w]] + 1 >= MaxRetries
  /\ requeues' = [requeues EXCEPT ![held[w]] = 0]
  /\ outcome' = [outcome EXCEPT ![held[w]] = "dropped"]
  /\ pc' = [pc EXCEPT ![w] = "settled"]
  /\ UNCHANGED <<queue, dirty, processing, waiting, shuttingDown,
                 inserted, held>>

(* The error came with no retries left: the task is dropped, its count     *)
(* forgotten.                                                              *)
Drop(w) ==
  /\ Fails(w)
  /\ requeues[held[w]] >= MaxRetries
  /\ requeues' = [requeues EXCEPT ![held[w]] = 0]
  /\ outcome' = [outcome EXCEPT ![held[w]] = "dropped"]
  /\ pc' = [pc EXCEPT ![w] = "settled"]
  /\ UNCHANGED <<queue, dirty, processing, waiting, shuttingDown,
                 inserted, held>>

\* Mutant: a task added while it was held is not queued afterwards.
Done_LosesDirty(w) ==
  /\ pc[w] = "settled"
  /\ processing' = processing \ {held[w]}
  /\ held' = [held EXCEPT ![w] = NoTask]
  /\ pc' = [pc EXCEPT ![w] = "idle"]
  /\ UNCHANGED <<queue, dirty, waiting, requeues, shuttingDown,
                 inserted, outcome, failures>>

(* The deferred queue.Done: a task added while it was held is queued now. *)
Done(w) ==
  /\ pc[w] = "settled"
  /\ processing' = processing \ {held[w]}
  /\ queue' = IF held[w] \in dirty THEN Append(queue, held[w]) ELSE queue
  /\ held' = [held EXCEPT ![w] = NoTask]
  /\ pc' = [pc EXCEPT ![w] = "idle"]
  /\ UNCHANGED <<dirty, waiting, requeues, shuttingDown,
                 inserted, outcome, failures>>

(* The delay of a rate-limited task expires. *)
DelayExpires(t) ==
  /\ t \in waiting
  /\ ~shuttingDown
  /\ waiting' = waiting \ {t}
  /\ Add(t)
  /\ UNCHANGED <<processing, requeues, shuttingDown,
                 inserted, pc, held, outcome, failures>>

(* stopCh is closed: Run returns and its deferred ShutDown runs. *)
ShutDown ==
  /\ ~shuttingDown
  /\ shuttingDown' = TRUE
  /\ UNCHANGED <<queue, dirty, processing, waiting, requeues,
                 inserted, pc, held, outcome, failures>>

-----------------------------------------------------------------------------
HandleTask(w) ==
  \/ GetTask(w)
  \/ ReenqueueSelf(w)
  \/ Succeed(w)
  \/ Retry(w)
  \/ Drop(w)
  \/ Done(w)

Next ==
  \/ \E t \in Tasks : InsertTask(t) \/ DelayExpires(t)
  \/ \E w \in Workers : HandleTask(w)
  \/ ShutDown

(* wait.Until keeps every worker running and the delay queue has a goroutine *)
(* of its own; that process returns is the assumption on the handlers.       *)
Fairness ==
  /\ \A w \in Workers : WF_vars(HandleTask(w))
  /\ \A t \in Tasks : WF_vars(DelayExpires(t))

Spec == Init /\ [][Next]_vars
FairSpec == Spec /\ Fairness

-----------------------------------------------------------------------------
(* The shape of the state. *)
TypeOK ==
  /\ queue \in Seq(Tasks)
  /\ dirty \subseteq Tasks
  /\ processing \subseteq Tasks
  /\ waiting \subseteq Tasks
  /\ requeues \in [Tasks -> 0..MaxRetries]
  /\ shuttingDown \in BOOLEAN
  /\ inserted \subseteq Tasks
  /\ pc \in [Workers -> PCs]
  /\ held \in [Workers -> Tasks \cup {NoTask}]
  /\ \A w \in Workers : pc[w] # "idle" => held[w] \in Tasks
  /\ outcome \in [Tasks -> Outcomes]
  /\ failures \in Nat

(* handleTask relies on Get and Done for this: no two workers ever run     *)
(* process on the same Task, although a failing task is put back in the    *)
(* queue up to twice while it is still held (syncService's enqueueService  *)
(* and handleTask's AddRateLimited).                                       *)
OneWorkerPerTask ==
  \A w1, w2 \in Workers :
    pc[w1] # "idle" /\ pc[w2] # "idle" /\ held[w1] = held[w2] => w1 = w2

(* Until the queue is shut down, a task that was inserted and has neither  *)
(* succeeded nor been dropped is still queued, delayed or held: handleTask *)
(* loses none between Get and Done.                                        *)
NoTaskLost ==
  ~shuttingDown =>
    \A t \in inserted :
      outcome[t] \in {"none", "failed"} =>
        t \in Range(queue) \cup waiting \cup processing

(* The rate limiter counts failures of exactly the tasks that are between  *)
(* a failure and their next result: handleTask forgets the count whenever  *)
(* it is done with a task, so none accumulates and a task that is put back *)
(* later starts with its full budget of retries.                           *)
CountedIffFailing ==
  \A t \in Tasks : requeues[t] > 0 <=> outcome[t] = "failed"

(* Every inserted task is brought to a result by the worker loop, unless   *)
(* the controller is shut down first.                                      *)
EveryTaskSettles ==
  \A t \in Tasks :
    t \in inserted ~> (outcome[t] \in {"succeeded", "dropped"} \/ shuttingDown)

-----------------------------------------------------------------------------
(* The queue as its users see it.  A task is due while it is queued, delayed, *)
(* or was added again while held; its run ends with handleTask's verdict,     *)
(* before its worker lets go of it.                                           *)
Due == dirty \cup waiting
At(states) == {held[w] : w \in {v \in Workers : pc[v] \in states}}

Ledger == INSTANCE TaskLedger WITH
  known <- inserted, due <- Due, running <- At({"processing", "reenqueued"}),
  putBack <- At({"reenqueued"}), tries <- requeues, result <- outcome,
  stopped <- shuttingDown

(* Whatever order workers, delays and tasks that put themselves back come in, *)
(* the queue does what TaskLedger says: one run of a task at a time, another  *)
(* one after a failure until the retries are used up, none out of nothing.    *)
ImplementsLedger == Ledger!Spec

-----------------------------------------------------------------------------
(* The inductive invariant behind the safety properties: the queue holds   *)
(* each dirty task that no worker holds, once; processing is what the      *)
(* workers hold; a task whose attempt failed is scheduled again before its *)
(* worker lets go of it.                                                   *)
QueueInv ==
  /\ IsInjective(queue)
  /\ Range(queue) = dirty \ processing

WorkerInv ==
  /\ processing = {held[w] : w \in {v \in Workers : pc[v] # "idle"}}
  /\ \A w \in Workers :
       pc[w] = "settled" =>
         /\ outcome[held[w]] # "none"
         /\ outcome[held[w]] = "failed" /\ ~shuttingDown =>
              held[w] \in waiting \cup dirty

IInv ==
  /\ TypeOK
  /\ QueueInv
  /\ WorkerInv
  /\ OneWorkerPerTask
  /\ NoTaskLost
  /\ CountedIffFailing
=============================================================================
