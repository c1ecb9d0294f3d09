----------------------------- MODULE TaskLedger -----------------------------
(***************************************************************************)
(* What the task queue promises to the informer handlers that insert tasks *)
(* and to process, which runs them: without a queue, workers or delays.    *)
(* TaskQueue implements it.                                                *)
(***************************************************************************)
EXTENDS Naturals

CONSTANTS Tasks, MaxRetries

VARIABLES
  known,      \* tasks inserted so far
  due,        \* tasks that are going to be run (again)
  running,    \* tasks process is at work on
  putBack,    \* those among them that have asked to be run again
  tries,      \* failures of each task since it was last done with
  result,     \* the result of its last run
  stopped     \* nothing is accepted any more

vars == <<known, due, running, putBack, tries, result, stopped>>

Init ==
  /\ known = {} /\ due = {} /\ running = {} /\ putBack = {}
  /\ tries = [t \in Tasks |-> 0]
  /\ result = [t \in Tasks |-> "none"]
  /\ stopped = FALSE

Accepted(t) == IF stopped THEN due ELSE due \cup {t}

Insert(t) ==
  /\ t \notin known
  /\ known' = known \cup {t}
  /\ due' = Accepted(t)
  /\ UNCHANGED <<running, putBack, tries, result, stopped>>

(* A task that is due is run, never twice at once.  It stays due if it is *)
(* scheduled a second time.                                               *)
Start(t) ==
  /\ t \in due \ running
  /\ running' = running \cup {t}
  /\ due' \in {due, due \ {t}}
  /\ UNCHANGED <<known, putBack, tries, result, stopped>>

(* A run that is about to fail may ask for another one itself. *)
PutBack(t) ==
  /\ t \in running \ putBack
  /\ putBack' = putBack \cup {t}
  /\ due' = Accepted(t)
  /\ UNCHANGED <<known, running, tries, result, stopped>>

Ends(t, r, n) ==
  /\ t \in running
  /\ running' = running \ {t}
  /\ putBack' = putBack \ {t}
  /\ result' = [result EXCEPT ![t] = r]
  /\ tries' = [tries EXCEPT ![t] = n]
  /\ UNCHANGED <<known, stopped>>

Succeed(t) == t \notin putBack /\ Ends(t, "succeeded", 0) /\ UNCHANGED due

(* After a failure a task is run again, MaxRetries times at most; then it is *)
(* given up.                                                                 *)
Retry(t) ==
  /\ tries[t] < MaxRetries
  /\ Ends(t, "failed", tries[t] + 1)
  /\ due' = Accepted(t)
Drop(t) == tries[t] = MaxRetries /\ Ends(t, "dropped", 0) /\ UNCHANGED due

Stop ==
  /\ stopped' = TRUE
  /\ UNCHANGED <<known, due, running, putBack, tries, result>>

Next ==
  \/ \E t \in Tasks :
       Insert(t) \/ Start(t) \/ PutBack(t) \/ Succeed(t) \/ Retry(t) \/ Drop(t)
  \/ Stop

Spec == Init /\ [][Next]_vars
=============================================================================
