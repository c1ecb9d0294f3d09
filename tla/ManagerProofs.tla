---------------------------- MODULE ManagerProofs ----------------------------
(***************************************************************************)
(* At most one process of polaris-controller runs the controllers, for any *)
(* number of processes and hosts and any durations in the order that       *)
(* ManagerAssumption asks for.                                             *)
(*                                                                         *)
(* OneActive is not inductive: that a candidate's wait is over must imply  *)
(* that no leader is left.  LeaseHeld says why: the lease names the leader,*)
(* and no other process has been waiting for longer than the leader has    *)
(* not renewed the lease; and the leader gives up before that is           *)
(* LeaseDuration.                                                          *)
(***************************************************************************)
EXTENDS Manager, TLAPS

WaitsLess(q, p) == waited[q] # None => waited[q] <= age[p]

LeaseHeld ==
  \A p \in Processes :
    Active(p) => /\ holder = Identity(p)
                 /\ \A q \in Processes \ {p} : WaitsLess(q, p)

IInv == TypeOK /\ LeaseHeld

-----------------------------------------------------------------------------
(* The uuid makes identities differ (polaris-controller-manager.go:334). *)
LEMMA IdentityInjective ==
  ASSUME NEW p \in Processes, NEW q \in Processes, Identity(p) = Identity(q)
  PROVE  p = q
BY DEF Identity

LEMMA InitIInv == Init => IInv
<1>1. Init => TypeOK
  BY ManagerAssumption DEF Init, TypeOK, NotLeading
<1>2. Init => LeaseHeld
  BY DEF Init, LeaseHeld, Active, Leading, NotLeading
<1> QED BY <1>1, <1>2 DEF IInv

LEMMA InvOneActive == IInv => OneActive
BY IdentityInjective DEF IInv, LeaseHeld, OneActive

-----------------------------------------------------------------------------
(* The type invariant: each variable keeps its range; the guard of Tick keeps *)
(* a leader's age below the sum of RetryPeriod and RenewDeadline.             *)
LEMMA TypeStep == TypeOK /\ [Next]_vars => TypeOK'
<1> SUFFICES ASSUME TypeOK, [Next]_vars PROVE TypeOK'
  OBVIOUS
<1> USE ManagerAssumption DEF TypeOK, NotLeading, Run
<1>1. CASE UNCHANGED vars
  BY <1>1 DEF vars
<1>2. CASE Tick
  <2>1. ASSUME NEW p \in Processes
        PROVE  (IF Leading(p) THEN age[p] + 1 ELSE age[p]) \in 0..(RetryPeriod + RenewDeadline)
    BY <1>2 DEF Tick, InTime
  <2>2. ASSUME NEW p \in Processes
        PROVE  (IF waited[p] # None /\ waited[p] < LeaseDuration THEN waited[p] + 1
                ELSE waited[p]) \in 0..LeaseDuration \cup {None}
    OBVIOUS
  <2> QED BY <1>2, <2>1, <2>2 DEF Tick, polarisVars
<1>3. ASSUME NEW p \in Processes, Process(p) PROVE TypeOK'
  <2>1. CASE Start(p)
    BY <2>1 DEF Start, Goto, polarisVars
  <2>2. CASE Observe(p)
    BY <2>2 DEF Observe, polarisVars
  <2>3. CASE Acquire(p)
    BY <2>3 DEF Acquire, LeaseWritten, Goto, polarisVars
  <2>4. CASE Renew(p)
    BY <2>4 DEF Renew, LeaseWritten, polarisVars
  <2>5. CASE StoppedLeading(p)
    BY <2>5 DEF StoppedLeading, Goto, leaseVars, polarisVars
  <2>6. CASE DeregisterController(p)
    BY <2>6 DEF DeregisterController, leaseVars
  <2>7. CASE Exit(p)
    BY <2>7 DEF Exit, Goto, leaseVars, polarisVars
  <2>8. CASE CreateControllerContext(p)
    BY <2>8 DEF CreateControllerContext, Fatalf, Ends, Fault, Goto, leaseVars, polarisVars
  <2>9. CASE StartPolarisController(p)
    BY <2>9 DEF StartPolarisController, Fatalf, Ends, Fault, Goto, leaseVars, polarisVars
  <2>10. CASE RegisterController(p)
    BY <2>10 DEF RegisterController, Ends, Fault, Goto, leaseVars, polarisVars
  <2>11. CASE StartInformers(p)
    BY <2>11 DEF StartInformers, Goto, leaseVars, polarisVars
  <2> QED BY <1>3, <2>1, <2>2, <2>3, <2>4, <2>5, <2>6, <2>7, <2>8, <2>9, <2>10, <2>11
          DEF Process, Elected
<1>4. ASSUME NEW p \in Processes, Environment(p) PROVE TypeOK'
  <2>1. CASE Crash(p)
    BY <2>1 DEF Crash, Ends, Fault, Goto, leaseVars, polarisVars
  <2>2. CASE Disconnect(p)
    BY <2>2 DEF Disconnect, Fault, polarisVars
  <2>3. CASE Reconnect(p)
    BY <2>3 DEF Reconnect, polarisVars
  <2>4. CASE Lapse(p)
    BY <2>4 DEF Lapse, leaseVars
  <2> QED BY <1>4, <2>1, <2>2, <2>3, <2>4 DEF Environment
<1> QED BY <1>1, <1>2, <1>3, <1>4 DEF Next

-----------------------------------------------------------------------------
(* A step that leaves the lease alone and makes nobody active keeps LeaseHeld. *)
LEMMA LeaseAlone ==
  ASSUME LeaseHeld, UNCHANGED leaseVars,
         \A p \in Processes : Active(p)' => Active(p)
  PROVE  LeaseHeld'
BY DEF LeaseHeld, WaitsLess, Identity, leaseVars

(* Where one process moves on, from an active state or to an inactive one. *)
LEMMA MovesOn ==
  ASSUME TypeOK, LeaseHeld, UNCHANGED leaseVars,
         NEW p \in Processes, NEW state, Goto(p, state),
         Active(p) \/ state = "down"
  PROVE  LeaseHeld'
<1>1. \A q \in Processes : Active(q)' => Active(q)
  BY DEF TypeOK, Goto, Active, Leading, NotLeading
<1> QED BY <1>1, LeaseAlone

(* While a process is active no other one finds the lease expired. *)
LEMMA NotExpired ==
  ASSUME IInv, NEW p \in Processes, Active(p), NEW q \in Processes \ {p}
  PROVE  ~Expired(q)
<1>1. WaitsLess(q, p)
  BY DEF IInv, LeaseHeld
<1>2. age[p] \in Nat /\ age[p] <= RetryPeriod + RenewDeadline
  BY ManagerAssumption DEF IInv, TypeOK
<1>3. waited[q] \in 0..LeaseDuration \cup {None}
  BY DEF IInv, TypeOK
<1> QED BY <1>1, <1>2, <1>3, ManagerAssumption DEF WaitsLess, Expired

(* So a candidate gets the lease only when no process is active. *)
LEMMA AcquireAlone ==
  ASSUME IInv, NEW q \in Processes, Acquire(q), NEW p \in Processes
  PROVE  ~Active(p)
<1> SUFFICES ASSUME Active(p) PROVE FALSE
  OBVIOUS
<1>1. p # q
  BY DEF Acquire, Active, Leading, NotLeading
<1>2. holder = Identity(p)
  BY DEF IInv, LeaseHeld
<1>3. Identity(p) # Identity(q)
  BY <1>1, IdentityInjective
<1>4. Identity(p) # NoOne
  BY ManagerAssumption DEF IInv, TypeOK, Identity
<1> QED BY <1>1, <1>2, <1>3, <1>4, NotExpired DEF Acquire

-----------------------------------------------------------------------------
LEMMA LeaseStep == IInv /\ [Next]_vars => LeaseHeld'
<1> SUFFICES ASSUME IInv, [Next]_vars PROVE LeaseHeld'
  OBVIOUS
<1> USE DEF IInv
<1>1. CASE UNCHANGED vars
  BY <1>1, LeaseAlone DEF vars, leaseVars, Active, Leading
<1>2. CASE Tick
  <2>1. ASSUME NEW p \in Processes, Active(p)', NEW q \in Processes \ {p}
        PROVE  WaitsLess(q, p)'
    <3>1. Leading(p)
      BY <1>2, <2>1 DEF Tick, InTime, Active, Leading
    <3>2. age[p] \in Nat /\ age'[p] = age[p] + 1
      BY <1>2, <3>1, ManagerAssumption DEF Tick, TypeOK
    <3>3. WaitsLess(q, p)
      BY <3>1 DEF LeaseHeld, Active
    <3>4. waited[q] \in 0..LeaseDuration \cup {None}
      BY DEF TypeOK
    <3>5. waited'[q] = IF waited[q] # None /\ waited[q] < LeaseDuration
                       THEN waited[q] + 1 ELSE waited[q]
      BY <1>2 DEF Tick
    <3> QED BY <3>2, <3>3, <3>4, <3>5, ManagerAssumption DEF WaitsLess
  <2>2. ASSUME NEW p \in Processes, Active(p)'
        PROVE  holder' = Identity(p)'
    BY <1>2, <2>2 DEF Tick, Active, Leading, LeaseHeld, Identity
  <2> QED BY <2>1, <2>2 DEF LeaseHeld
<1>3. ASSUME NEW p \in Processes, Process(p) PROVE LeaseHeld'
  <2>1. CASE Start(p)
    <3>1. \A q \in Processes : Active(q)' => Active(q) /\ q # p
      BY <2>1 DEF Start, Goto, TypeOK, Active, Leading, NotLeading
    <3>2. \A q \in Processes \ {p} : starts'[q] = starts[q] /\ waited'[q] = waited[q]
      BY <2>1 DEF Start, TypeOK
    <3>3. waited'[p] = None /\ UNCHANGED <<holder, age>>
      BY <2>1 DEF Start, TypeOK
    <3> QED BY <3>1, <3>2, <3>3 DEF LeaseHeld, WaitsLess, Identity
  <2>2. CASE Observe(p)
    <3>1. \A q \in Processes : /\ Active(q)' = Active(q)
                               /\ Identity(q)' = Identity(q)
                               /\ age'[q] \in Nat
      BY <2>2, ManagerAssumption DEF Observe, TypeOK, Active, Leading, Identity
    <3>2. \A q \in Processes : waited'[q] = waited[q] \/ waited'[q] = 0
      BY <2>2 DEF Observe, TypeOK
    <3>3. UNCHANGED <<holder, age>>
      BY <2>2 DEF Observe
    <3> QED BY <3>1, <3>2, <3>3 DEF LeaseHeld, WaitsLess
  <2>3. CASE Acquire(p)
    <3>1. \A q \in Processes : Active(q)' => q = p
      BY <2>3, AcquireAlone DEF Acquire, Goto, TypeOK, Active, Leading
    <3>2. holder' = Identity(p)'
      BY <2>3 DEF Acquire, Identity
    <3>3. \A q \in Processes : waited'[q] = None
      BY <2>3 DEF Acquire, LeaseWritten
    <3> QED BY <3>1, <3>2, <3>3 DEF LeaseHeld, WaitsLess
  <2>4. CASE Renew(p)
    <3>1. \A q \in Processes : Active(q)' = Active(q) /\ Identity(q)' = Identity(q)
      BY <2>4 DEF Renew, Active, Leading, Identity
    <3>2. \A q \in Processes : waited'[q] = None
      BY <2>4 DEF Renew, LeaseWritten
    <3> QED BY <2>4, <3>1, <3>2 DEF Renew, LeaseHeld, WaitsLess
  <2>5. CASE StoppedLeading(p)
    BY <2>5, MovesOn DEF StoppedLeading, Active
  <2>6. CASE DeregisterController(p)
    BY <2>6, LeaseAlone DEF DeregisterController, Active, Leading
  <2>7. CASE Exit(p)
    BY <2>7, MovesOn DEF Exit
  <2>8. CASE CreateControllerContext(p)
    BY <2>8, MovesOn DEF CreateControllerContext, Fatalf, Ends, Active, Leading, NotLeading
  <2>9. CASE StartPolarisController(p)
    BY <2>9, MovesOn DEF StartPolarisController, Fatalf, Ends, Active, Leading, NotLeading
  <2>10. CASE RegisterController(p)
    BY <2>10, MovesOn DEF RegisterController, Ends, Active, Leading, NotLeading
  <2>11. CASE StartInformers(p)
    BY <2>11, MovesOn DEF StartInformers, Active, Leading, NotLeading
  <2> QED BY <1>3, <2>1, <2>2, <2>3, <2>4, <2>5, <2>6, <2>7, <2>8, <2>9, <2>10, <2>11
          DEF Process, Elected
<1>4. ASSUME NEW p \in Processes, Environment(p) PROVE LeaseHeld'
  <2>1. CASE Crash(p)
    BY <2>1, MovesOn DEF Crash, Ends
  <2>2. CASE Disconnect(p)
    BY <2>2 DEF Disconnect, LeaseHeld, WaitsLess, Identity, Active, Leading
  <2>3. CASE Reconnect(p)
    BY <2>3 DEF Reconnect, LeaseHeld, WaitsLess, Identity, Active, Leading
  <2>4. CASE Lapse(p)
    BY <2>4, LeaseAlone DEF Lapse, Active, Leading
  <2> QED BY <1>4, <2>1, <2>2, <2>3, <2>4 DEF Environment
<1> QED BY <1>1, <1>2, <1>3, <1>4 DEF Next

-----------------------------------------------------------------------------
(* The inductive invariant: the lease names the leader, and nobody has been   *)
(* waiting for longer than the leader has not renewed it.                     *)
THEOREM IInvInvariant == Spec => []IInv
<1>1. IInv /\ [Next]_vars => IInv'
  BY TypeStep, LeaseStep DEF IInv
<1> QED BY InitIInv, <1>1, PTL DEF Spec

(* The type invariant; in particular a leader gives up in time. *)
THEOREM ManagerTypeCorrect == Spec => []TypeOK
<1>1. IInv => TypeOK
  BY DEF IInv
<1> QED BY IInvInvariant, <1>1, PTL

(* OnStartedLeading, RunOrDie: never do two processes run the controllers. *)
THEOREM Exclusion == Spec => []OneActive
BY IInvInvariant, InvOneActive, PTL
=============================================================================
