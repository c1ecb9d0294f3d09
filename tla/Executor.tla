------------------------------ MODULE Executor ------------------------------
(***************************************************************************)
(* util.TaskExecutor as the configuration watcher uses it: Execute hands a *)
(* task to a worker picked at random, which has a channel of bounded size  *)
(* and runs its tasks one after the other.  The executor is never stopped, *)
(* and its delayed, ticking and keyed tasks have no caller.                *)
(***************************************************************************)
EXTENDS Naturals, Sequences

CONSTANTS Workers, QueueSize

VARIABLE jobs   \* of each worker: the task it runs, then those in its channel

Init == jobs = [w \in Workers |-> << >>]

(* The caller waits while the channel of the worker is full. *)
Execute(t) ==
  \E w \in Workers :
    /\ Len(jobs[w]) <= QueueSize
    /\ jobs' = [jobs EXCEPT ![w] = Append(@, t)]

Running(t) == \E w \in Workers : jobs[w] # << >> /\ Head(jobs[w]) = t

(* The main loop goes on with the next task of the channel. *)
Finish(t) ==
  jobs' = [w \in Workers |->
             IF jobs[w] # << >> /\ Head(jobs[w]) = t THEN Tail(jobs[w]) ELSE jobs[w]]

Idle == \A w \in Workers : jobs[w] = << >>
=============================================================================
