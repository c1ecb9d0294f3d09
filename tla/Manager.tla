------------------------------- MODULE Manager -------------------------------
(***************************************************************************)
(* The processes of polaris-controller in one cluster, started with        *)
(* --leader-elect as every deployment does: which of them runs the         *)
(* controllers, and what it tells Polaris about itself                     *)
(* (cmd/polaris-controller/app/polaris-controller-manager.go).             *)
(*                                                                         *)
(* The lease is client-go's (external).  Time is counted in ticks, on      *)
(* timers that run at one speed, and a process does in time what its       *)
(* timers make due: a process that is suspended for longer than the lease  *)
(* and goes on is not part of the model.                                   *)
(***************************************************************************)
EXTENDS Integers

CONSTANTS
  Processes,
  Hosts,
  Host,           \* [Processes -> Hosts]: os.Hostname
  LeaseDuration,  \* what others wait for since they saw the lease renewed
  RenewDeadline,  \* how long the leader tries to renew it
  RetryPeriod,    \* after which it renews it
  NoOne, None,
  MaxFaults       \* bound: crashes, failing calls, lost connections

ASSUME ManagerAssumption ==
  /\ Host \in [Processes -> Hosts]
  /\ LeaseDuration \in Nat /\ RenewDeadline \in Nat /\ RetryPeriod \in Nat
  /\ RetryPeriod + RenewDeadline < LeaseDuration
  /\ MaxFaults \in Nat
  /\ None \notin Nat
  /\ NoOne \notin Hosts \X Processes \X Nat

VARIABLES
  pc,        \* where each process is
  starts,    \* how often it was started
  holder,    \* the identity in the lease, or NoOne
  waited,    \* a candidate's time since it saw this lease, or None
  age,       \* the leader's time since it renewed the lease
  connected, \* whether it reaches the API server
  instance,  \* Polaris: the entry of each process for the controller itself
  refused,   \* history: processes whose registration failed
  faults     \* how many faults there were

vars == <<pc, starts, holder, waited, age, connected, instance, refused, faults>>

(* The process does not run; it waits for the lease; the lease is gone and    *)
(* the process about to end; or it is the leader, and "run" goes through its  *)
(* steps.                                                                     *)
NotLeading == {"down", "candidate", "exiting"}
Run == {"context", "controllers", "register", "informers", "running"}
Leading(p) == pc[p] \notin NotLeading

\* Mutant: the identity is the host's name.
Identity_HostOnly(p) == Host[p]

(* hostname() + "_" + uuid *)
Identity(p) == <<Host[p], p, starts[p]>>

Init ==
  /\ pc = [p \in Processes |-> "down"]
  /\ starts = [p \in Processes |-> 0]
  /\ holder = NoOne
  /\ waited = [p \in Processes |-> None]
  /\ age = [p \in Processes |-> 0]
  /\ connected = [p \in Processes |-> TRUE]
  /\ instance = [p \in Processes |-> "none"]
  /\ refused = {}
  /\ faults = 0

Fault == faults < MaxFaults /\ faults' = faults + 1
Goto(p, state) == pc' = [pc EXCEPT ![p] = state]

leaseVars == <<starts, holder, waited, age, connected>>
polarisVars == <<instance, refused>>

(* The process runs the controllers, or has not ended yet. *)
Active(p) == Leading(p) \/ pc[p] = "exiting"

-----------------------------------------------------------------------------
(* Run: the webhook and the debug server are there in every process; the     *)
(* container is started again whenever the process has ended.                *)
Start(p) ==
  /\ pc[p] = "down"
  /\ Goto(p, "candidate")
  /\ starts' = [starts EXCEPT ![p] = @ + 1]
  /\ waited' = [waited EXCEPT ![p] = None]
  /\ UNCHANGED <<holder, age, connected, polarisVars, faults>>

(* client-go, with the callbacks of Run.  A candidate that sees the lease     *)
(* changed starts to wait; one that finds its own name in it need not.        *)
Observe(p) ==
  /\ pc[p] = "candidate" /\ connected[p]
  /\ waited[p] = None
  /\ waited' = [waited EXCEPT ![p] = 0]
  /\ UNCHANGED <<pc, starts, holder, age, connected, polarisVars, faults>>

\* Everyone else sees the lease change.
LeaseWritten(p) ==
  /\ waited' = [q \in Processes |-> None]
  /\ age' = [age EXCEPT ![p] = 0]

Expired(p) == waited[p] # None /\ waited[p] >= LeaseDuration

Acquire(p) ==
  /\ pc[p] = "candidate" /\ connected[p]
  /\ holder \in {NoOne, Identity(p)} \/ Expired(p)
  /\ holder' = Identity(p)
  /\ LeaseWritten(p)
  /\ Goto(p, "context")
  /\ UNCHANGED <<starts, connected, polarisVars, faults>>

Renew(p) ==
  /\ Leading(p) /\ connected[p]
  /\ age[p] >= RetryPeriod
  /\ holder = Identity(p)
  /\ LeaseWritten(p)
  /\ UNCHANGED <<pc, starts, holder, connected, polarisVars, faults>>

(* The renewal has failed for RenewDeadline: ctx is done, RunOrDie returns.   *)
StoppedLeading(p) ==
  /\ Leading(p)
  /\ age[p] >= RetryPeriod + RenewDeadline
  /\ Goto(p, IF pc[p] \in {"informers", "running"} THEN "exiting" ELSE "down")
  /\ UNCHANGED <<leaseVars, polarisVars, faults>>

(* deregisterController has been waiting for ctx; it is overtaken perhaps by  *)
(* provider.Destroy in the controller's Run, or by the end of the process.    *)
DeregisterController(p) ==
  /\ pc[p] = "exiting"
  /\ instance' = [instance EXCEPT ![p] = "none"]
  /\ UNCHANGED <<pc, leaseVars, refused, faults>>

Exit(p) ==
  /\ pc[p] = "exiting"
  /\ Goto(p, "down")
  /\ UNCHANGED <<leaseVars, polarisVars, faults>>

-----------------------------------------------------------------------------
(* run.  Whatever fails is fatal, and the process started again. *)
Ends(p) == Fault /\ Goto(p, "down")

\* Mutant: log.Fatalf only logs, and run goes on to its select {}.
Fatalf_Logs(p) == Fault /\ Goto(p, "select")

Fatalf(p) == Ends(p)

CreateControllerContext(p) ==
  /\ pc[p] = "context"
  /\ \/ Goto(p, "controllers") /\ UNCHANGED faults
     \/ Fatalf(p)
  /\ UNCHANGED <<leaseVars, polarisVars>>

(* buildAPI and NewPolarisController, which starts the watcher of the        *)
(* configuration already.                                                    *)
StartPolarisController(p) ==
  /\ pc[p] = "controllers"
  /\ \/ Goto(p, "register") /\ UNCHANGED faults
     \/ Fatalf(p)
  /\ UNCHANGED <<leaseVars, polarisVars>>

\* Mutant: the registration does not ask for heartbeats to be sent.
RegisterController_NoHeartbeat(p) ==
  /\ pc[p] = "register"
  /\ \/ /\ Goto(p, "informers")
        /\ instance' = [instance EXCEPT ![p] = "lapsed"]
        /\ refused' = refused \ {p}
        /\ UNCHANGED faults
     \/ Ends(p) /\ UNCHANGED polarisVars
  /\ UNCHANGED leaseVars

(* registerController: an address of its own that cannot be told is a panic, *)
(* a registration that fails is logged.                                      *)
RegisterController(p) ==
  /\ pc[p] = "register"
  /\ \/ /\ Goto(p, "informers")
        /\ instance' = [instance EXCEPT ![p] = "healthy"]
        /\ refused' = refused \ {p}
        /\ UNCHANGED faults
     \/ /\ Fault /\ Goto(p, "informers")
        /\ refused' = refused \cup {p}
        /\ UNCHANGED instance
     \/ Ends(p) /\ UNCHANGED polarisVars
  /\ UNCHANGED leaseVars

StartInformers(p) ==
  /\ pc[p] = "informers"
  /\ Goto(p, "running")
  /\ UNCHANGED <<leaseVars, polarisVars, faults>>

-----------------------------------------------------------------------------
Crash(p) ==
  /\ pc[p] # "down"
  /\ Ends(p)
  /\ UNCHANGED <<leaseVars, polarisVars>>

Disconnect(p) ==
  /\ connected[p]
  /\ Fault
  /\ connected' = [connected EXCEPT ![p] = FALSE]
  /\ UNCHANGED <<pc, starts, holder, waited, age, polarisVars>>

Reconnect(p) ==
  /\ ~connected[p]
  /\ connected' = [connected EXCEPT ![p] = TRUE]
  /\ UNCHANGED <<pc, starts, holder, waited, age, polarisVars, faults>>

(* The SDK sends heartbeats from the registration to the end of the process. *)
Heartbeats(p) == pc[p] \in {"informers", "running", "exiting"} /\ p \notin refused

\* Without them Polaris finds the entry unhealthy.
Lapse(p) ==
  /\ instance[p] = "healthy" /\ ~Heartbeats(p)
  /\ instance' = [instance EXCEPT ![p] = "lapsed"]
  /\ UNCHANGED <<pc, leaseVars, refused, faults>>

\* Mutant: a leader that cannot renew the lease never gives up.
InTime_NeverGivesUp(p) ==
  /\ pc[p] # "exiting"
  /\ Leading(p) /\ connected[p] => age[p] < RetryPeriod

(* Nothing that is due is left undone when time passes.  Candidates need not  *)
(* count further than LeaseDuration.                                          *)
InTime(p) ==
  /\ pc[p] # "exiting"
  /\ Leading(p) => age[p] < RetryPeriod + RenewDeadline
  /\ Leading(p) /\ connected[p] => age[p] < RetryPeriod

Tick ==
  /\ \A p \in Processes : InTime(p)
  /\ waited' = [p \in Processes |->
       IF waited[p] # None /\ waited[p] < LeaseDuration THEN waited[p] + 1
       ELSE waited[p]]
  /\ age' = [p \in Processes |-> IF Leading(p) THEN age[p] + 1 ELSE age[p]]
  /\ UNCHANGED <<pc, starts, holder, connected, polarisVars, faults>>

-----------------------------------------------------------------------------
Elected(p) ==
  \/ CreateControllerContext(p) \/ StartPolarisController(p)
  \/ RegisterController(p) \/ StartInformers(p)

Process(p) ==
  \/ Start(p) \/ Observe(p) \/ Acquire(p) \/ Renew(p) \/ StoppedLeading(p)
  \/ DeregisterController(p) \/ Exit(p) \/ Elected(p)

Environment(p) == Crash(p) \/ Disconnect(p) \/ Reconnect(p) \/ Lapse(p)

Next == Tick \/ \E p \in Processes : Process(p) \/ Environment(p)

(* Time passes; every process goes on, is started again, and reaches the API *)
(* server again; entries without heartbeats lapse.                           *)
Fairness ==
  /\ WF_vars(Tick)
  /\ \A p \in Processes :
       /\ WF_vars(Start(p)) /\ WF_vars(Observe(p)) /\ WF_vars(Acquire(p))
       /\ WF_vars(Renew(p)) /\ WF_vars(StoppedLeading(p)) /\ WF_vars(Exit(p))
       /\ WF_vars(Elected(p)) /\ WF_vars(Reconnect(p)) /\ WF_vars(Lapse(p))

Spec == Init /\ [][Next]_vars
FairSpec == Spec /\ Fairness

-----------------------------------------------------------------------------
(* The shape of the state.  A leader's age never exceeds what the election's *)
(* parameters allow for.                                                     *)
TypeOK ==
  /\ pc \in [Processes -> NotLeading \cup Run]
  /\ starts \in [Processes -> Nat]
  /\ waited \in [Processes -> 0..LeaseDuration \cup {None}]
  /\ age \in [Processes -> 0..(RetryPeriod + RenewDeadline)]
  /\ connected \in [Processes -> BOOLEAN]
  /\ instance \in [Processes -> {"none", "healthy", "lapsed"}]
  /\ refused \subseteq Processes
  /\ faults \in 0..MaxFaults

(* "so that two processes on the same host don't accidentally both become    *)
(* active" (polaris-controller-manager.go:333), nor any two others: workers, *)
(* resync and the watcher of the configuration run in one process at a time, *)
(* also while one that lost the lease is about to end.                       *)
OneActive == \A p, q \in Processes : Active(p) /\ Active(q) => p = q

(* RunOrDie, log.Fatalf: whatever fails in a process that holds the lease,   *)
(* in the end a process runs the controllers.                                *)
TakesOver == <>[](\E p \in Processes : pc[p] = "running")

(* registerController, deregisterController: in the end a healthy entry of   *)
(* the controller in Polaris is that of the process that runs, and it has    *)
(* one unless its only attempt failed.                                       *)
SelfRegistered ==
  <>[](\A p \in Processes :
         instance[p] = "healthy" <=> pc[p] = "running" /\ p \notin refused)
=============================================================================
