-------------------------- MODULE ServiceSyncProofs --------------------------
(***************************************************************************)
(* resyncServiceCache holds exactly the services to be synced whenever the *)
(* handlers have no event left, for any services, objects, workers and     *)
(* faults, restarts included, as long as the namespace's annotation stays  *)
(* as it is and no deletion of a service is missed.                        *)
(*                                                                         *)
(* ResyncTracksServices is not inductive: it says nothing while events are *)
(* under way.  History says what they are: the changes of each service one *)
(* after the other, from what resyncServiceCache has (or will have once    *)
(* the handler has stored) to what Kubernetes has.                         *)
(*                                                                         *)
(* Then the types, in every configuration, and what they make provable:    *)
(* with one worker, instances of others are left alone; and, where queries *)
(* do not fail, every instance the controller can know of can be found for *)
(* removal.  The two together: the removal of a service is never forgotten.*)
(***************************************************************************)
EXTENDS ServiceSync, FiniteSetTheorems, SequenceTheorems, TLAPS

Objs == Objects \cup {NoSvc}

(* What resyncServiceCache is to have for a service in a given state. *)
Live(obj) == obj # NoSvc /\ IsPolarisService(obj)
Wanted(obj) == IF Live(obj) THEN obj ELSE NoSvc

Resynced(s) ==
  IF handler # Idle /\ handler.svc = s THEN handler.resync ELSE resyncServiceCache[s]

ServiceEvents ==
  [type : {"add", "update", "delete"}, svc : Services, old : Objs, new : Objs]

(* Each notification is of the kind its two states call for. *)
EventOk(event) ==
  /\ event \in ServiceEvents
  /\ event.type = "add" <=> event.old = NoSvc
  /\ event.type = "delete" <=> event.new = NoSvc

StateOk ==
  /\ svc \in [Services -> Objs]
  /\ nsSync \in NsAnnotations
  /\ svcEvents \in Seq(ServiceEvents)
  /\ \A i \in 1..Len(svcEvents) : EventOk(svcEvents[i])
  /\ resyncServiceCache \in [Services -> Objs]
  /\ handler = Idle \/ handler \in [svc : Services, cache : Objs, resync : Objs]

(* h is how s was at the beginning and after each of the events. *)
IsHistory(s, h) ==
  /\ h \in [1..Len(svcEvents) + 1 -> Objs]
  /\ Resynced(s) = Wanted(h[1])
  /\ h[Len(svcEvents) + 1] = svc[s]
  /\ \A i \in 1..Len(svcEvents) :
       IF svcEvents[i].svc = s
       THEN svcEvents[i].old = h[i] /\ svcEvents[i].new = h[i + 1]
       ELSE h[i + 1] = h[i]

History == \A s \in Services : \E h : IsHistory(s, h)

HInv == StateOk /\ History

(* The configurations the theorem is about. *)
Steady == (\A a, b \in NsAnnotations : a = b) /\ "service" \notin MissedDeletes

-----------------------------------------------------------------------------
LEMMA SeqOfFunction ==
  ASSUME NEW S, NEW n \in Nat, NEW e \in [1..n -> S]
  PROVE  e \in Seq(S) /\ Len(e) = n
OBVIOUS

(* A list of the services of a set names each of them once. *)
LEMMA ListOfServices ==
  ASSUME NEW S \in SUBSET Services
  PROVE  LET e == SetToSeq(S)
         IN  /\ e \in Seq(S)
             /\ \A i, j \in 1..Len(e) : e[i] = e[j] => i = j
             /\ \A s \in S : \E i \in 1..Len(e) : e[i] = s
<1> DEFINE n == Cardinality(S)
           e == SetToSeq(S)
<1>1. IsFiniteSet(S)
  BY FS_Subset, ServiceSyncAssumption DEF ServiceSyncAssumption
<1>2. n \in Nat /\ ExistsBijection(1..n, S)
  BY <1>1, FS_CardinalityType
<1>3. \E f : f \in [1..n -> S] /\ IsInjective(f)
  BY <1>2 DEF ExistsBijection, Bijection, Injection
<1>4. e \in [1..n -> S] /\ IsInjective(e)
  BY <1>3 DEF SetToSeq
<1>5. Cardinality(1..n) = n /\ IsFiniteSet(1..n)
  BY <1>2, FS_Interval
<1>6. e \in Surjection(1..n, S)
  <2>1. e \in Injection(1..n, S)
    BY <1>4 DEF Injection
  <2>2. QED
    BY <2>1, <1>1, <1>5, FS_Injection
<1>7. e \in Seq(S) /\ Len(e) = n
  <2> HIDE DEF n, e
  <2>1. QED
    BY <1>2, <1>4, SeqOfFunction
<1>8. \A s \in S : \E i \in 1..n : e[i] = s
  BY <1>6 DEF Surjection
<1>9. \A i, j \in 1..n : e[i] = e[j] => i = j
  BY <1>4 DEF IsInjective
<1>10. QED
  BY <1>7, <1>8, <1>9

(* The initial list of the informer names every service there is, once. *)
LEMMA ExistingLists ==
  LET S == {s \in Services : svc[s] # NoSvc}
      e == Existing(svc, NoSvc)
  IN  /\ e \in Seq(S)
      /\ \A i, j \in 1..Len(e) : e[i] = e[j] => i = j
      /\ \A s \in S : \E i \in 1..Len(e) : e[i] = s
<1>1. {s \in Services : svc[s] # NoSvc} \in SUBSET Services
  OBVIOUS
<1>2. QED
  BY <1>1, ListOfServices DEF Existing

(* The notification of a service that is there from the beginning. *)
AddEvent(s) == [type |-> "add", svc |-> s, old |-> NoSvc, new |-> svc[s]]

LEMMA AddEventOk ==
  ASSUME NEW s \in Services, svc[s] \in Objects
  PROVE  /\ AddEvent(s) \in ServiceEvents
         /\ EventOk(AddEvent(s))
         /\ AddEvent(s).svc = s /\ AddEvent(s).old = NoSvc
         /\ AddEvent(s).new = svc[s]
BY ServiceSyncAssumption DEF AddEvent, ServiceEvents, Objs, EventOk

(* So its notifications are a history of every service from its creation on. *)
LEMMA StartHistory ==
  ASSUME svc \in [Services -> Objs]
  PROVE  LET events == AddEvents(svc, NoSvc)
         IN  /\ events \in Seq(ServiceEvents)
             /\ \A i \in 1..Len(events) : EventOk(events[i])
             /\ \A s \in Services :
                  \E h \in [1..Len(events) + 1 -> Objs] :
                    /\ h[1] = NoSvc
                    /\ h[Len(events) + 1] = svc[s]
                    /\ \A i \in 1..Len(events) :
                         IF events[i].svc = s
                         THEN events[i].old = h[i] /\ events[i].new = h[i + 1]
                         ELSE h[i + 1] = h[i]
<1> DEFINE S == {s \in Services : svc[s] # NoSvc}
           e == Existing(svc, NoSvc)
           events == AddEvents(svc, NoSvc)
           n == Len(e)
<1>1. /\ e \in Seq(S)
      /\ \A i, j \in 1..n : e[i] = e[j] => i = j
      /\ \A s \in S : \E i \in 1..n : e[i] = s
  BY ExistingLists
<1>2. n \in Nat /\ DOMAIN e = 1..n
  BY <1>1
<1>3. events = [i \in 1..n |-> AddEvent(e[i])]
  BY <1>2 DEF AddEvents, AddEvent
<1>4. ASSUME NEW i \in 1..n
      PROVE  e[i] \in Services /\ svc[e[i]] \in Objects
  <2>1. e[i] \in S
    BY <1>1
  <2>2. QED
    BY <2>1 DEF Objs
<1>5. events \in [1..n -> ServiceEvents]
  BY <1>3, <1>4, AddEventOk
<1>6. events \in Seq(ServiceEvents) /\ Len(events) = n
  <2> HIDE DEF events, n
  <2>1. QED
    BY <1>2, <1>5, SeqOfFunction
<1>7. \A i \in 1..n : events[i] = AddEvent(e[i])
  BY <1>3
<1>8. ASSUME NEW i \in 1..n
      PROVE  /\ events[i].svc = e[i] /\ events[i].old = NoSvc
             /\ events[i].new = svc[e[i]] /\ EventOk(events[i])
  <2> HIDE DEF events, e, n
  <2>1. QED
    BY <1>4, <1>7, AddEventOk
<1>9. ASSUME NEW s \in Services
      PROVE  \E h \in [1..n + 1 -> Objs] :
               /\ h[1] = NoSvc
               /\ h[n + 1] = svc[s]
               /\ \A i \in 1..n : IF events[i].svc = s
                                 THEN events[i].old = h[i] /\ events[i].new = h[i + 1]
                                 ELSE h[i + 1] = h[i]
  <2> DEFINE Named(i) == \E j \in 1..n : j < i /\ e[j] = s
             h == [i \in 1..n + 1 |-> IF Named(i) THEN svc[s] ELSE NoSvc]
  <2>1. h \in [1..n + 1 -> Objs]
    BY DEF Objs
  <2>2. h[1] = NoSvc
    BY <1>2
  <2>3. h[n + 1] = svc[s]
    <3>1. svc[s] # NoSvc => Named(n + 1)
      BY <1>1, <1>2
    <3>2. QED
      BY <3>1, <1>2
  <2>4. ASSUME NEW i \in 1..n
        PROVE  IF events[i].svc = s
               THEN events[i].old = h[i] /\ events[i].new = h[i + 1]
               ELSE h[i + 1] = h[i]
    <3>1. i \in 1..n + 1 /\ i + 1 \in 1..n + 1
      BY <1>2
    <3>2. /\ events[i].svc = e[i] /\ events[i].old = NoSvc
          /\ events[i].new = svc[e[i]]
      BY <1>8
    <3>3. CASE e[i] = s
      <4>1. Named(i + 1)
        BY <1>2, <3>3
      <4>2. ~Named(i)
        BY <1>1, <3>3
      <4>3. h[i] = NoSvc /\ h[i + 1] = svc[s]
        BY <3>1, <4>1, <4>2
      <4>4. QED
        <5> HIDE DEF h, events
        <5>1. QED
          BY <3>2, <3>3, <4>3
    <3>4. CASE e[i] # s
      <4>1. Named(i + 1) <=> Named(i)
        BY <1>2, <3>4
      <4>2. QED
        BY <3>1, <3>2, <3>4, <4>1
    <3>5. QED
      BY <3>3, <3>4
  <2>5. QED
    BY <2>1, <2>2, <2>3, <2>4
<1>10. QED
  BY <1>6, <1>8, <1>9

-----------------------------------------------------------------------------
LEMMA InitHInv == Init => HInv
<1> SUFFICES ASSUME Init PROVE HInv
  OBVIOUS
<1>1. svc \in [Services -> Objs] /\ svcEvents = AddEvents(svc, NoSvc)
  BY DEF Init, Objs
<1>2. StateOk
  BY <1>1, StartHistory DEF Init, StateOk, Objs
<1>3. ASSUME NEW s \in Services PROVE \E h : IsHistory(s, h)
  <2>1. Resynced(s) = NoSvc /\ Wanted(NoSvc) = NoSvc
    BY DEF Init, Resynced, Wanted
  <2>2. QED
    BY <1>1, <2>1, StartHistory DEF IsHistory
<1>4. QED
  BY <1>2, <1>3 DEF HInv, History

LEMMA HInvSuffices == HInv => ResyncTracksServices
<1> SUFFICES ASSUME HInv, svcEvents = << >>, handler = Idle, NEW s \in Services
             PROVE  resyncServiceCache[s] = IF IsLive(s) THEN svc[s] ELSE NoSvc
  BY DEF ResyncTracksServices
<1>1. PICK h : IsHistory(s, h)
  BY DEF HInv, History
<1>2. Len(svcEvents) = 0
  OBVIOUS
<1>3. QED
  BY <1>1, <1>2 DEF IsHistory, Resynced, Wanted, Live, IsLive

(* A change of a service is the next event of its history. *)
LEMMA ChangeStep ==
  ASSUME HInv, NEW s \in Services, NEW obj \in Objs, NEW type,
         ServiceChange(s, obj, type),
         EventOk([type |-> type, svc |-> s, old |-> svc[s], new |-> obj])
  PROVE  HInv'
<1> DEFINE event == [type |-> type, svc |-> s, old |-> svc[s], new |-> obj]
           n == Len(svcEvents)
<1>1. /\ svc' = [svc EXCEPT ![s] = obj] /\ svcEvents' = Append(svcEvents, event)
      /\ UNCHANGED <<nsSync, handler, resyncServiceCache>>
  BY DEF ServiceChange, controllerVars, cacheVars
<1>2. n \in Nat /\ Len(svcEvents') = n + 1
      /\ svcEvents'[n + 1] = event /\ \A i \in 1..n : svcEvents'[i] = svcEvents[i]
  BY <1>1 DEF HInv, StateOk
<1>3. svcEvents' \in Seq(ServiceEvents)
  BY <1>1 DEF HInv, StateOk, EventOk
<1>4. \A i \in 1..Len(svcEvents') : EventOk(svcEvents'[i])
  BY <1>2 DEF HInv, StateOk
<1>5. StateOk'
  BY <1>1, <1>3, <1>4 DEF HInv, StateOk
<1>6. ASSUME NEW t \in Services
      PROVE  (\E h : IsHistory(t, h))'
  <2>1. PICK h : IsHistory(t, h)
    BY DEF HInv, History
  <2> DEFINE g == [i \in 1..n + 2 |-> IF i = n + 2 THEN svc'[t] ELSE h[i]]
  <2>2. svc' \in [Services -> Objs]
    BY <1>5 DEF StateOk
  <2>3. g \in [1..n + 2 -> Objs]
    BY <1>2, <2>1, <2>2 DEF IsHistory
  <2>4. g[1] = h[1] /\ Resynced(t)' = Wanted(h[1])'
    BY <1>1, <1>2, <2>1 DEF IsHistory, Resynced, Wanted, Live, IsPolarisService
  <2>5. g[n + 2] = svc'[t]
    BY <1>2
  <2>6. ASSUME NEW i \in 1..n
        PROVE  IF svcEvents'[i].svc = t
               THEN svcEvents'[i].old = g[i] /\ svcEvents'[i].new = g[i + 1]
               ELSE g[i + 1] = g[i]
    <3>1. g[i] = h[i] /\ g[i + 1] = h[i + 1]
      BY <1>2
    <3>2. QED
      BY <1>2, <2>1, <3>1 DEF IsHistory
  <2>7. IF event.svc = t THEN event.old = g[n + 1] /\ event.new = g[n + 2]
        ELSE g[n + 2] = g[n + 1]
    <3>1. g[n + 1] = svc[t]
      BY <1>2, <2>1 DEF IsHistory
    <3>2. s = t => svc'[t] = obj
      BY <1>1 DEF HInv, StateOk
    <3>3. s # t => svc'[t] = svc[t]
      BY <1>1 DEF HInv, StateOk
    <3>4. QED
      BY <2>5, <3>1, <3>2, <3>3
  <2>8. ASSUME NEW k, k = g
        PROVE  IsHistory(t, k)'
    <3> HIDE DEF g, event, n
    <3>1. 1..n + 1 = 1..n \cup {n + 1} /\ (n + 1) + 1 = n + 2
      BY <1>2
    <3>2. \A i \in 1..n + 1 :
             IF svcEvents'[i].svc = t
             THEN svcEvents'[i].old = k[i] /\ svcEvents'[i].new = k[i + 1]
             ELSE k[i + 1] = k[i]
      BY <1>2, <2>6, <2>7, <2>8, <3>1 DEF event
    <3>3. QED
      BY <1>2, <2>3, <2>4, <2>5, <2>8, <3>1, <3>2 DEF IsHistory
  <2>9. QED
    BY <2>8
<1>7. QED
  BY <1>5, <1>6 DEF HInv, History

(* A change is notified of as what it is, as no deletion is missed. *)
LEMMA K8sStep ==
  ASSUME HInv, Steady, NEW s \in Services,
         \/ \E obj \in Objects : CreateService(s, obj) \/ UpdateService(s, obj)
         \/ DeleteService(s)
  PROVE  HInv'
<1> DEFINE Change(type, obj) == [type |-> type, svc |-> s, old |-> svc[s], new |-> obj]
<1>1. svc[s] \in Objs /\ NoSvc \notin Objects
  BY ServiceSyncAssumption DEF HInv, StateOk
<1>2. ASSUME NEW obj \in Objects, CreateService(s, obj)
      PROVE  HInv'
  <2>1. EventOk(Change("add", obj))
    BY <1>1, <1>2 DEF CreateService, EventOk, ServiceEvents, Objs
  <2>2. QED
    BY <1>2, <2>1, ChangeStep DEF CreateService, Objs
<1>3. ASSUME NEW obj \in Objects, UpdateService(s, obj)
      PROVE  HInv'
  <2>1. EventOk(Change("update", obj))
    BY <1>1, <1>3 DEF UpdateService, EventOk, ServiceEvents, Objs
  <2>2. QED
    BY <1>3, <2>1, ChangeStep DEF UpdateService, Objs
<1>4. CASE DeleteService(s)
  <2>1. EventOk(Change("delete", NoSvc))
    BY <1>1, <1>4 DEF DeleteService, EventOk, ServiceEvents, Objs
  <2>2. ServiceChange(s, NoSvc, "delete")
    BY <1>4 DEF DeleteService, Steady
  <2>3. QED
    BY <2>1, <2>2, ChangeStep DEF Objs
<1>5. QED
  BY <1>2, <1>3, <1>4

(* onServiceAdd, onServiceUpdate, onServiceDelete: whatever the kind of the   *)
(* event, what is or will be in resyncServiceCache is as the new object wants.*)
LEMMA HandlerDecides ==
  ASSUME HInv, HandleServiceEvent, NEW event, event = Head(svcEvents),
         Resynced(event.svc) = Wanted(event.old)
  PROVE  /\ Resynced(event.svc)' = Wanted(event.new)
         /\ \A t \in Services \ {event.svc} : Resynced(t)' = Resynced(t)
         /\ handler' = Idle \/ handler' \in [svc : Services, cache : Objs,
                                           resync : Objs]
<1>1. event \in ServiceEvents /\ EventOk(event)
  BY DEF HandleServiceEvent, HInv, StateOk
<1>2. /\ handler = Idle /\ UNCHANGED <<resyncServiceCache, nsSync>>
      /\ \A s : Resynced(s) = resyncServiceCache[s]
  BY DEF HandleServiceEvent, serviceEventUnchanged, cacheVars, k8sVars, Resynced
<1>3. event.svc \in Services /\ event.old \in Objs /\ event.new \in Objs
  BY <1>1 DEF ServiceEvents
<1>4. ASSUME NEW cache \in Objs, EnqueueThenStore(event.svc, cache, Wanted(event.new))
      PROVE  /\ Resynced(event.svc)' = Wanted(event.new)
             /\ \A t \in Services \ {event.svc} : Resynced(t)' = Resynced(t)
             /\ handler' \in [svc : Services, cache : Objs, resync : Objs]
  <2> DEFINE resync == Wanted(event.new)
  <2>1. resync \in Objs
    BY <1>3 DEF Wanted, Objs
  <2>2. handler' = [svc |-> event.svc, cache |-> cache, resync |-> resync]
    BY <1>4 DEF EnqueueThenStore
  <2>3. handler' \in [svc : Services, cache : Objs, resync : Objs]
    BY <1>3, <2>1, <2>2
  <2>4. handler' # Idle
    BY <2>3, ServiceSyncAssumption DEF Objs
  <2>5. handler'.svc = event.svc /\ handler'.resync = resync
    BY <2>2
  <2>6. QED
    BY <1>2, <2>3, <2>4, <2>5 DEF Resynced
<1>5. ASSUME Ignored, Wanted(event.new) = NoSvc, Wanted(event.old) = NoSvc
      PROVE  /\ Resynced(event.svc)' = Wanted(event.new)
             /\ \A t \in Services \ {event.svc} : Resynced(t)' = Resynced(t)
             /\ handler' = Idle
  BY <1>2, <1>5 DEF Ignored, Resynced
<1>6. CASE event.type = "add"
  <2>1. event.old = NoSvc /\ event.new # NoSvc
    BY <1>1, <1>6 DEF EventOk
  <2>2. onServiceAdd(event)
    BY <1>6 DEF HandleServiceEvent
  <2>3. Wanted(event.old) = NoSvc
    BY <2>1 DEF Wanted
  <2>4. CASE IsPolarisService(event.new)
    BY <1>4, <2>1, <2>2, <2>4 DEF onServiceAdd, Wanted, Live, Objs
  <2>5. CASE ~IsPolarisService(event.new)
    BY <1>5, <2>2, <2>3, <2>5 DEF onServiceAdd, Wanted, Live
  <2>6. QED
    BY <2>4, <2>5
<1>7. CASE event.type = "update"
  <2>1. event.old # NoSvc /\ event.new # NoSvc
    BY <1>1, <1>7 DEF EventOk
  <2>2. onServiceUpdate(event)
    BY <1>7 DEF HandleServiceEvent
  <2>3. CASE ~IsPolarisService(event.old) /\ ~IsPolarisService(event.new)
    BY <1>5, <2>2, <2>3 DEF onServiceUpdate, Wanted, Live
  <2>4. CASE ~IsPolarisService(event.new) /\ IsPolarisService(event.old)
    BY <1>4, <2>2, <2>4 DEF onServiceUpdate, Wanted, Live, Objs
  <2>5. CASE IsPolarisService(event.new)
    BY <1>3, <1>4, <2>1, <2>2, <2>5 DEF onServiceUpdate, Wanted, Live, Objs
  <2>6. QED
    BY <2>3, <2>4, <2>5
<1>8. CASE event.type = "delete"
  <2>1. event.old # NoSvc /\ event.new = NoSvc
    BY <1>1, <1>8 DEF EventOk
  <2>2. onServiceDelete(event)
    BY <1>8 DEF HandleServiceEvent
  <2>3. Wanted(event.new) = NoSvc
    BY <2>1 DEF Wanted
  <2>4. CASE IsPolarisService(event.old)
    BY <1>4, <1>8, <2>2, <2>3, <2>4 DEF onServiceDelete, Objs
  <2>5. CASE ~IsPolarisService(event.old)
    BY <1>5, <2>2, <2>3, <2>5 DEF onServiceDelete, Wanted, Live
  <2>6. QED
    BY <2>4, <2>5
<1>9. event.type \in {"add", "update", "delete"}
  BY <1>1 DEF ServiceEvents
<1>10. QED
  BY <1>6, <1>7, <1>8, <1>9

(* The event that was handled is no longer part of the history. *)
LEMMA HandleStep ==
  ASSUME HInv, HandleServiceEvent
  PROVE  HInv'
<1> DEFINE n == Len(svcEvents)
<1>1. PICK event : event = Head(svcEvents)
  OBVIOUS
<1>2. /\ svcEvents' = Tail(svcEvents) /\ svcEvents # << >>
      /\ UNCHANGED <<svc, nsSync, resyncServiceCache>>
  BY DEF HandleServiceEvent, serviceEventUnchanged, k8sVars, cacheVars
<1>3. /\ n \in Nat /\ n > 0 /\ event = svcEvents[1] /\ event \in ServiceEvents
      /\ Tail(svcEvents) \in Seq(ServiceEvents) /\ Len(Tail(svcEvents)) = n - 1
      /\ \A i \in 1..n - 1 : Tail(svcEvents)[i] = svcEvents[i + 1]
  BY <1>1, <1>2, HeadTailProperties DEF HInv, StateOk
<1>4. event.svc \in Services
  BY <1>3 DEF ServiceEvents
<1>5. Resynced(event.svc) = Wanted(event.old)
  <2>1. PICK h : IsHistory(event.svc, h)
    BY <1>4 DEF HInv, History
  <2>2. QED
    BY <1>3, <2>1 DEF IsHistory
<1>6. /\ Resynced(event.svc)' = Wanted(event.new)
      /\ \A t \in Services \ {event.svc} : Resynced(t)' = Resynced(t)
      /\ handler' = Idle \/ handler' \in [svc : Services, cache : Objs, resync : Objs]
  BY <1>1, <1>5, HandlerDecides
<1>7. StateOk'
  <2>1. \A i \in 1..Len(svcEvents') : EventOk(svcEvents'[i])
    BY <1>2, <1>3 DEF HInv, StateOk
  <2>2. QED
    BY <1>2, <1>3, <1>6, <2>1 DEF HInv, StateOk
<1>8. ASSUME NEW t \in Services
      PROVE  (\E h : IsHistory(t, h))'
  <2>1. PICK h : IsHistory(t, h)
    BY DEF HInv, History
  <2> DEFINE g == [i \in 1..n |-> h[i + 1]]
  <2>2. g \in [1..n -> Objs]
    BY <1>3, <2>1 DEF IsHistory
  <2>3. g[1] = h[2] /\ g[n] = svc[t]
    BY <1>3, <2>1 DEF IsHistory
  <2>4. Resynced(t)' = Wanted(h[2])'
    <3>1. IF event.svc = t THEN event.new = h[2] ELSE h[2] = h[1]
      BY <1>3, <2>1 DEF IsHistory
    <3>2. \A obj : Wanted(obj)' = Wanted(obj)
      BY <1>2 DEF Wanted, Live, IsPolarisService
    <3>3. QED
      BY <1>6, <2>1, <3>1, <3>2 DEF IsHistory
  <2>5. ASSUME NEW i \in 1..n - 1
        PROVE  IF svcEvents'[i].svc = t
               THEN svcEvents'[i].old = g[i] /\ svcEvents'[i].new = g[i + 1]
               ELSE g[i + 1] = g[i]
    <3>1. i + 1 \in 1..n /\ g[i] = h[i + 1] /\ g[i + 1] = h[i + 1 + 1]
      BY <1>3
    <3>2. svcEvents'[i] = svcEvents[i + 1]
      BY <1>2, <1>3
    <3>3. QED
      BY <2>1, <3>1, <3>2 DEF IsHistory
  <2>6. ASSUME NEW k, k = g
        PROVE  IsHistory(t, k)'
    <3> HIDE DEF g, n
    <3>1. Len(svcEvents') = n - 1 /\ (n - 1) + 1 = n
      BY <1>2, <1>3
    <3>2. QED
      BY <1>2, <2>2, <2>3, <2>4, <2>5, <2>6, <3>1 DEF IsHistory
  <2>7. QED
    BY <2>6
<1>9. QED
  BY <1>7, <1>8 DEF HInv, History

LEMMA StoreStep ==
  ASSUME HInv, HandlerStores
  PROVE  HInv'
<1>1. /\ UNCHANGED <<svc, nsSync, svcEvents>> /\ handler' = Idle
      /\ handler \in [svc : Services, cache : Objs, resync : Objs]
      /\ resyncServiceCache' =
           [resyncServiceCache EXCEPT ![handler.svc] = handler.resync]
  BY DEF HandlerStores, k8sVars, eventVars, HInv, StateOk
<1>2. StateOk'
  BY <1>1 DEF HInv, StateOk
<1>3. \A s \in Services : Resynced(s)' = Resynced(s)
  BY <1>1 DEF HandlerStores, HInv, StateOk, Resynced
<1>4. \A s \in Services : \A h : IsHistory(s, h) => IsHistory(s, h)'
  BY <1>1, <1>3 DEF IsHistory, Wanted, Live, IsPolarisService
<1>5. QED
  BY <1>2, <1>4 DEF HInv, History

LEMMA RestartStep ==
  ASSUME HInv, StartAnew
  PROVE  HInv'
<1>1. /\ UNCHANGED <<svc, nsSync>> /\ handler' = Idle
      /\ svcEvents' = AddEvents(svc, NoSvc)
      /\ resyncServiceCache' = [s \in Services |-> NoSvc]
  BY DEF StartAnew, k8sVars
<1>2. svc \in [Services -> Objs]
  BY DEF HInv, StateOk
<1>3. StateOk'
  BY <1>1, <1>2, StartHistory DEF HInv, StateOk, Objs
<1>4. ASSUME NEW s \in Services PROVE (\E h : IsHistory(s, h))'
  <2>1. Resynced(s)' = NoSvc /\ Wanted(NoSvc)' = NoSvc
    BY <1>1 DEF Resynced, Wanted
  <2>2. QED
    BY <1>1, <1>2, <2>1, StartHistory DEF IsHistory
<1>5. QED
  BY <1>3, <1>4 DEF HInv, History

(* Everything else leaves alone what the history is about. *)
LEMMA OtherStep ==
  ASSUME HInv, UNCHANGED <<svc, nsSync, svcEvents, handler, resyncServiceCache>>
  PROVE  HInv'
<1>1. StateOk'
  BY DEF HInv, StateOk
<1>2. \A s \in Services : \A h : IsHistory(s, h) => IsHistory(s, h)'
  BY DEF IsHistory, Resynced, Wanted, Live, IsPolarisService
<1>3. QED
  BY <1>1, <1>2 DEF HInv, History

LEMMA HInvStep ==
  ASSUME HInv, Steady, [Next]_vars
  PROVE  HInv'
<1> DEFINE Same == UNCHANGED <<svc, nsSync, svcEvents, handler, resyncServiceCache>>
<1>1. CASE K8sChange
  <2>1. ASSUME NEW s \in Services, NEW e \in SUBSET Addrs, SetEndpoints(s, e)
        PROVE  Same
    BY <2>1 DEF SetEndpoints, EndpointsChange, controllerVars, cacheVars
  <2>2. ASSUME NEW s \in Services, RemoveEndpoints(s)
        PROVE  Same
    BY <2>2 DEF RemoveEndpoints, EndpointsChange, controllerVars, cacheVars
  <2>3. ASSUME NEW s \in Services, NEW a \in Addrs, ForeignRegister(s, a)
        PROVE  Same
    BY <2>3 DEF ForeignRegister, k8sVars, eventVars, controllerVars, cacheVars
  <2>4. ASSUME NEW annotation \in NsAnnotations, AnnotateNamespace(annotation)
        PROVE  FALSE
    BY <2>4 DEF AnnotateNamespace, Steady, HInv, StateOk
  <2>5. QED
    BY <1>1, <2>1, <2>2, <2>3, <2>4, K8sStep, OtherStep DEF K8sChange
<1>2. CASE HandleServiceEvent
  BY <1>2, HandleStep
<1>3. CASE HandlerStores
  BY <1>3, StoreStep
<1>4. CASE HandleEndpointsEvent \/ HandleNamespaceEvent
  BY <1>4, OtherStep DEF HandleEndpointsEvent, HandleNamespaceEvent, k8sVars, cacheVars
<1>5. ASSUME NEW w \in Workers, NEW s \in Services, NEW r \in Retries, TakeTask(w, s, r)
      PROVE  Same
  BY <1>5 DEF TakeTask, workerUnchanged, k8sVars, eventVars
<1>6. ASSUME NEW w \in Workers, WorkerStep(w)
      PROVE  Same
  <2>1. CASE LoadCache(w) \/ Recheck(w) \/ Compare(w)
    BY <2>1 DEF LoadCache, Recheck, Compare, onlyWorker, workerUnchanged, k8sVars,
       eventVars
  <2>2. CASE CreateInPolaris(w) \/ ReadEndpoints(w) \/ GetAllInstance(w)
    BY <2>2 DEF CreateInPolaris, ReadEndpoints, GetAllInstance, workerUnchanged,
       k8sVars, eventVars
  <2>3. CASE AddInstances(w) \/ UpdateInstances(w) \/ DeleteInstances(w)
    BY <2>3 DEF AddInstances, UpdateInstances, DeleteInstances, Write,
       workerUnchanged, k8sVars, eventVars
  <2>4. CASE DeleteAllInstances(w)
    BY <2>4 DEF DeleteAllInstances, AllDeleted, Write, workerUnchanged, k8sVars, eventVars
  <2>5. CASE StoreCache(w) \/ ForgetCache(w)
    BY <2>5 DEF StoreCache, ForgetCache, CacheService, workerUnchanged, k8sVars,
       eventVars
  <2>6. QED
    BY <1>6, <2>1, <2>2, <2>3, <2>4, <2>5 DEF WorkerStep
<1>7. ASSUME NEW s \in Services, Resync(s)
      PROVE  Same
  BY <1>7 DEF Resync, k8sVars, eventVars, cacheVars
<1>8. CASE CheckHealth
  BY <1>8, OtherStep DEF CheckHealth, k8sVars, eventVars, cacheVars
<1>9. CASE Restart \/ EndpointsTombstone
  BY <1>9, RestartStep DEF Restart, EndpointsTombstone
<1>10. CASE UNCHANGED vars
  BY <1>10, OtherStep DEF vars, k8sVars, eventVars, cacheVars
<1>11. QED
  BY <1>1, <1>2, <1>3, <1>4, <1>5, <1>6, <1>7, <1>8, <1>9, <1>10, OtherStep DEF Next

-----------------------------------------------------------------------------
(* The inductive invariant: the handlers' view of each service, the events    *)
(* under way and Kubernetes form one history (onServiceAdd, onServiceUpdate,  *)
(* onServiceDelete).                                                          *)
THEOREM HInvInvariant ==
  ASSUME Steady
  PROVE  Spec => []HInv
<1>1. HInv /\ [Next]_vars => HInv'
  BY HInvStep
<1>2. QED
  BY <1>1, InitHInv, PTL DEF Spec

(* resyncWorker works from resyncServiceCache alone, rsync.go:34: once the     *)
(* handlers have no event left, it has exactly the services to be synced, each *)
(* as it is now, after any number of changes, faults and restarts.             *)
THEOREM ResyncExact ==
  ASSUME Steady
  PROVE  Spec => []ResyncTracksServices
BY HInvInvariant, HInvSuffices, PTL

-----------------------------------------------------------------------------
(* The type invariant, with no assumption on the configuration.  A worker is   *)
(* about to register instances only for a service it has found, and the        *)
(* notifications under way are about services there can be.                    *)
Queue == [Services -> [Retries -> Nat]]
EpsTypes == (SUBSET Addrs) \cup {NoEndpoints}
HandlerRecord == [svc : Services, cache : Objs, resync : Objs]
WorkerRecord ==
  [pc : PCs, svc : Services \cup {Idle}, retries : Retries, obj : Objs, cached : Objs,
   eps : SUBSET Addrs, view : Views]

SvcEvent == [type : {"add", "update", "delete", "tombstone"}, svc : Services,
             old : Objs, new : Objs]
EpEvent == [type : {"add", "update", "delete", "tombstone"}, svc : Services,
            old : EpsTypes, new : EpsTypes]

Searching == {"idle", "lookup", "queryPurge", "purge", "forget"}
WorkerTyped(k) ==
  /\ k \in WorkerRecord
  /\ k.svc = Idle <=> k.pc = "idle"
  /\ k.pc \notin Searching => k.obj # NoSvc

(* The state in parts, as the steps change them. *)
ClusterTyped ==
  /\ svc \in [Services -> Objs] /\ eps \in [Services -> EpsTypes]
  /\ nsSync \in NsAnnotations
  /\ svcEvents \in Seq(SvcEvent) /\ epEvents \in Seq(EpEvent)
TasksTyped ==
  /\ handler = Idle \/ handler \in HandlerRecord
  /\ pending \in Queue
  /\ serviceCache \in [Services -> Objs] /\ resyncServiceCache \in [Services -> Objs]
  /\ healthy \in BOOLEAN /\ failedTimes \in 0..2
WorkersTyped ==
  /\ DOMAIN worker = Workers
  /\ \A w \in Workers : WorkerTyped(worker[w])
PolarisTyped ==
  /\ registry \in [Services -> Views]
  /\ created \subseteq Services
  /\ orphans \in [Services -> SUBSET Addrs]

TInv == ClusterTyped /\ TasksTyped /\ WorkersTyped /\ PolarisTyped

LEMMA TInvSuffices == TInv => TypeOK
BY DEF TInv, ClusterTyped, TasksTyped, WorkersTyped, PolarisTyped, TypeOK, WorkerTyped,
       WorkerRecord, Objs, EpsTypes, Queue, HandlerRecord

LEMMA IdleTyped == WorkerTyped(IdleWorker)
BY ServiceSyncAssumption
   DEF ServiceSyncAssumption, WorkerTyped, WorkerRecord, IdleWorker, PCs, Retries, Objs,
       Views, NoView, Searching

(* No insertion leads out of the queue. *)
LEMMA EnqueuedTyped ==
  ASSUME NEW p \in Queue, NEW s \in Services, NEW r \in Retries
  PROVE  Enqueued(p, s, r) \in Queue
<1> DEFINE counts == [p[s] EXCEPT ![r] = @ + 1]
<1>1. counts \in [Retries -> Nat]
  BY DEF Queue
<1>2. Enqueued(p, s, r) = [p EXCEPT ![s] = counts]
  BY DEF Enqueued
<1> HIDE DEF counts
<1>3. QED
  BY <1>1, <1>2 DEF Queue

LEMMA ZeroRetries == 0 \in Retries /\ MaxRetries \in Nat
BY ServiceSyncAssumption DEF ServiceSyncAssumption, Retries

(* A failed task comes back, or is dropped. *)
LEMMA RetriedTyped ==
  ASSUME WorkersTyped, NEW w \in Workers, worker[w].pc # "idle", NEW p \in Queue
  PROVE  Retried(p, w) \in Queue /\ (pending \in Queue => PutBack(w) \in Queue)
<1>1. worker[w].svc \in Services /\ worker[w].retries \in Retries
  BY DEF WorkersTyped, WorkerTyped, WorkerRecord
<1>2. worker[w].retries < MaxRetries => worker[w].retries + 1 \in Retries
  BY <1>1, ZeroRetries DEF Retries
<1>3. QED
  BY <1>1, <1>2, ZeroRetries, EnqueuedTyped DEF Retried, PutBack

(* What the informers list is what there is. *)
LEMMA ListedEvents ==
  ASSUME svc \in [Services -> Objs], eps \in [Services -> EpsTypes]
  PROVE  AddEvents(svc, NoSvc) \in Seq(SvcEvent)
         /\ AddEvents(eps, NoEndpoints) \in Seq(EpEvent)
<1>1. AddEvents(svc, NoSvc) \in Seq(SvcEvent)
  <2>1. ServiceEvents \subseteq SvcEvent
    BY DEF ServiceEvents, SvcEvent
  <2>2. QED
    BY <2>1, StartHistory, SeqMonotonic
<1>2. AddEvents(eps, NoEndpoints) \in Seq(EpEvent)
  <2> DEFINE S == {s \in Services : eps[s] # NoEndpoints}
             e == Existing(eps, NoEndpoints)
             n == Len(e)
             events == AddEvents(eps, NoEndpoints)
  <2>1. S \in SUBSET Services
    OBVIOUS
  <2>2. e \in Seq(S)
    BY <2>1, ListOfServices DEF Existing
  <2>3. n \in Nat /\ DOMAIN e = 1..n /\ \A i \in 1..n : e[i] \in Services
    BY <2>2
  <2>4. events = [i \in 1..n |-> [type |-> "add", svc |-> e[i], old |-> NoEndpoints,
                                  new |-> eps[e[i]]]]
    BY <2>3 DEF AddEvents
  <2>5. \A i \in 1..n : [type |-> "add", svc |-> e[i], old |-> NoEndpoints,
                         new |-> eps[e[i]]] \in EpEvent
    BY <2>3 DEF EpEvent, EpsTypes
  <2> HIDE DEF e, n, events
  <2>6. events \in [1..n -> EpEvent]
    BY <2>4, <2>5
  <2>7. QED
    BY <2>3, <2>6, SeqOfFunction DEF events
<1>3. QED
  BY <1>1, <1>2

LEMMA InitTInv == Init => TInv
<1> SUFFICES ASSUME Init PROVE TInv
  OBVIOUS
<1>1. ClusterTyped
  BY ListedEvents DEF Init, ClusterTyped, Objs, EpsTypes
<1>2. TasksTyped
  BY DEF Init, TasksTyped, Objs, Queue
<1>3. WorkersTyped
  BY IdleTyped DEF Init, WorkersTyped
<1>4. PolarisTyped
  BY DEF Init, PolarisTyped, Views, NoView
<1>5. QED
  BY <1>1, <1>2, <1>3, <1>4 DEF TInv

-----------------------------------------------------------------------------
(* Changes in Kubernetes and by other clients of Polaris. *)
LEMMA ClusterTypes ==
  ASSUME TInv, K8sChange
  PROVE  TInv'
<1>1. ASSUME UNCHANGED <<controllerVars, polarisVars>>, ClusterTyped'
      PROVE  TInv'
  BY <1>1
     DEF TInv, TasksTyped, WorkersTyped, PolarisTyped, controllerVars, cacheVars,
         healthVars, polarisVars
<1>2. ASSUME NEW s \in Services, NEW obj \in Objs,
             NEW type \in {"add", "update", "delete", "tombstone"},
             ServiceChange(s, obj, type)
      PROVE  TInv'
  <2> DEFINE e == [type |-> type, svc |-> s, old |-> svc[s], new |-> obj]
  <2>1. e \in SvcEvent
    BY DEF SvcEvent, TInv, ClusterTyped
  <2>2. svcEvents' = Append(svcEvents, e)
    BY <1>2 DEF ServiceChange
  <2> HIDE DEF e
  <2>3. ClusterTyped'
    BY <1>2, <2>1, <2>2 DEF ServiceChange, TInv, ClusterTyped
  <2>4. QED
    BY <1>1, <1>2, <2>3 DEF ServiceChange
<1>3. ASSUME NEW s \in Services, NEW new \in EpsTypes,
             NEW type \in {"add", "update", "delete", "tombstone"},
             EndpointsChange(s, new, type)
      PROVE  TInv'
  <2> DEFINE e == [type |-> type, svc |-> s, old |-> eps[s], new |-> new]
  <2>1. e \in EpEvent
    BY DEF EpEvent, TInv, ClusterTyped
  <2>2. epEvents' = Append(epEvents, e)
    BY <1>3 DEF EndpointsChange
  <2> HIDE DEF e
  <2>3. ClusterTyped'
    BY <1>3, <2>1, <2>2 DEF EndpointsChange, TInv, ClusterTyped
  <2>4. QED
    BY <1>1, <1>3, <2>3 DEF EndpointsChange
<1>4. ASSUME NEW annotation \in NsAnnotations, AnnotateNamespace(annotation)
      PROVE  TInv'
  BY <1>1, <1>4 DEF AnnotateNamespace, TInv, ClusterTyped
<1>5. ASSUME NEW s \in Services, NEW a \in Addrs, ForeignRegister(s, a)
      PROVE  TInv'
  <2> DEFINE view == [registry[s] EXCEPT ![a] = Foreign]
  <2>1. view \in Views
    BY DEF TInv, PolarisTyped, Views
  <2>2. registry' = [registry EXCEPT ![s] = view]
    BY <1>5 DEF ForeignRegister
  <2> HIDE DEF view
  <2>3. PolarisTyped'
    BY <1>5, <2>1, <2>2 DEF TInv, PolarisTyped, ForeignRegister
  <2>4. UNCHANGED <<svc, eps, nsSync, svcEvents, epEvents, handler, pending, serviceCache,
                    resyncServiceCache, worker, healthy, failedTimes>>
    BY <1>5 DEF ForeignRegister, k8sVars, eventVars, controllerVars, cacheVars, healthVars
  <2>5. QED
    BY <2>3, <2>4 DEF TInv, ClusterTyped, TasksTyped, WorkersTyped
<1>6. QED
  BY <1>2, <1>3, <1>4, <1>5
     DEF K8sChange, CreateService, UpdateService, DeleteService, SetEndpoints,
         RemoveEndpoints, Objs, EpsTypes

(* The handlers. *)
LEMMA HandlerTypes ==
  ASSUME TInv,
         HandleServiceEvent \/ HandlerStores \/ HandleEndpointsEvent \/ HandleNamespaceEvent
  PROVE  TInv'
<1>1. UNCHANGED <<svc, eps, nsSync, worker, healthy, failedTimes, registry, created,
                  orphans>>
  BY DEF HandleServiceEvent, HandlerStores, HandleEndpointsEvent, HandleNamespaceEvent,
         serviceEventUnchanged, k8sVars, healthVars, polarisVars
<1>2. WorkersTyped' /\ PolarisTyped'
  BY <1>1 DEF TInv, WorkersTyped, PolarisTyped
<1>3. CASE HandleServiceEvent
  <2> DEFINE e == Head(svcEvents)
  <2>1. e \in SvcEvent /\ svcEvents' \in Seq(SvcEvent)
    BY <1>3 DEF HandleServiceEvent, TInv, ClusterTyped
  <2>2. UNCHANGED <<epEvents, serviceCache, resyncServiceCache>>
    BY <1>3 DEF HandleServiceEvent, serviceEventUnchanged, cacheVars
  <2>3. \/ Ignored
        \/ \E cache, resync \in {e.old, e.new, NoSvc} :
             EnqueueThenStore(e.svc, cache, resync)
    BY <1>3 DEF HandleServiceEvent, onServiceAdd, onServiceUpdate, onServiceDelete
  <2>4. e.svc \in Services /\ {e.old, e.new, NoSvc} \subseteq Objs
    BY <2>1 DEF SvcEvent, Objs
  <2>5. /\ handler' = Idle \/ handler' \in HandlerRecord
        /\ pending' \in Queue
    <3> HIDE DEF e
    <3>1. CASE Ignored
      BY <3>1 DEF Ignored, TInv, TasksTyped
    <3>2. ASSUME NEW cache \in Objs, NEW resync \in Objs,
                 EnqueueThenStore(e.svc, cache, resync)
          PROVE  handler' \in HandlerRecord /\ pending' \in Queue
      BY <2>4, <3>2, EnqueuedTyped, ZeroRetries
         DEF EnqueueThenStore, Enqueue, HandlerRecord, TInv, TasksTyped
    <3>3. QED
      BY <2>3, <2>4, <3>1, <3>2
  <2>6. QED
    BY <1>1, <1>2, <2>1, <2>2, <2>5 DEF TInv, ClusterTyped, TasksTyped
<1>4. CASE HandlerStores
  <2>1. UNCHANGED <<svcEvents, epEvents, pending>> /\ handler \in HandlerRecord
    BY <1>4 DEF HandlerStores, eventVars, TInv, TasksTyped
  <2>2. /\ serviceCache' \in [Services -> Objs]
        /\ resyncServiceCache' \in [Services -> Objs] /\ handler' = Idle
    BY <1>4, <2>1 DEF HandlerStores, TInv, TasksTyped, HandlerRecord
  <2>3. QED
    BY <1>1, <1>2, <2>1, <2>2 DEF TInv, ClusterTyped, TasksTyped
<1>5. CASE HandleEndpointsEvent
  <2> DEFINE e == Head(epEvents)
  <2>1. e \in EpEvent /\ epEvents' \in Seq(EpEvent)
    BY <1>5 DEF HandleEndpointsEvent, TInv, ClusterTyped
  <2>2. UNCHANGED <<svcEvents, handler, serviceCache, resyncServiceCache>>
    BY <1>5 DEF HandleEndpointsEvent, cacheVars
  <2>3. Enqueue(e.svc) \/ UNCHANGED pending
    BY <1>5 DEF HandleEndpointsEvent
  <2>4. e.svc \in Services
    BY <2>1 DEF EpEvent
  <2>5. pending' \in Queue
    <3> HIDE DEF e
    <3>1. QED
      BY <2>3, <2>4, EnqueuedTyped, ZeroRetries DEF Enqueue, TInv, TasksTyped
  <2>6. QED
    BY <1>1, <1>2, <2>1, <2>2, <2>5 DEF TInv, ClusterTyped, TasksTyped
<1>6. CASE HandleNamespaceEvent
  <2>1. UNCHANGED <<svcEvents, epEvents, handler, serviceCache, resyncServiceCache>>
    BY <1>6 DEF HandleNamespaceEvent, cacheVars
  <2>2. PICK synced : pending' = [s \in Services |->
                        IF s \in synced THEN [pending[s] EXCEPT ![0] = @ + 1]
                        ELSE pending[s]]
    BY <1>6 DEF HandleNamespaceEvent
  <2>3. \A s \in Services : [pending[s] EXCEPT ![0] = @ + 1] \in [Retries -> Nat]
                            /\ pending[s] \in [Retries -> Nat]
    BY ZeroRetries DEF TInv, TasksTyped, Queue
  <2>4. pending' \in Queue
    BY <2>2, <2>3 DEF Queue
  <2>5. QED
    BY <1>1, <1>2, <2>1, <2>4 DEF TInv, ClusterTyped, TasksTyped
<1>7. QED
  BY <1>3, <1>4, <1>5, <1>6

-----------------------------------------------------------------------------
(* A worker that goes on as it should. *)
LEMMA WorkerMoves ==
  ASSUME WorkersTyped, NEW w \in Workers, NEW k, WorkerTyped(k),
         worker' = [worker EXCEPT ![w] = k]
  PROVE  WorkersTyped'
<1>1. DOMAIN worker' = Workers /\ \A v \in Workers : worker'[v] = IF v = w THEN k ELSE worker[v]
  BY DEF WorkersTyped
<1>2. \A v \in Workers : WorkerTyped(worker'[v])
  BY <1>1 DEF WorkersTyped
<1>3. QED
  BY <1>1, <1>2 DEF WorkersTyped

LEMMA FinishTyped ==
  ASSUME WorkersTyped, NEW w \in Workers, Finish(w)
  PROVE  WorkersTyped'
BY IdleTyped, WorkerMoves DEF Finish

LEMMA GotoTyped ==
  ASSUME WorkersTyped, NEW w \in Workers, NEW pc \in PCs, Goto(w, pc),
         pc # "idle", worker[w].pc # "idle", pc \notin Searching => worker[w].obj # NoSvc
  PROVE  WorkersTyped'
<1> DEFINE k == [worker[w] EXCEPT
                   !.pc = pc, !.cached = NoSvc,
                   !.eps = IF pc \in {"store", "forget"} THEN {} ELSE @,
                   !.view = IF pc \in {"store", "forget"} THEN NoView ELSE @]
<1>1. WorkerTyped(worker[w])
  BY DEF WorkersTyped
<1>2. NoView \in Views
  BY DEF NoView, Views
<1>3. k \in WorkerRecord /\ k.pc = pc /\ k.svc = worker[w].svc /\ k.obj = worker[w].obj
  BY <1>1, <1>2 DEF WorkerTyped, WorkerRecord, Objs
<1>4. worker' = [worker EXCEPT ![w] = k]
  BY DEF Goto
<1> HIDE DEF k
<1>5. WorkerTyped(k)
  BY <1>1, <1>3 DEF WorkerTyped
<1>6. QED
  BY <1>4, <1>5, WorkerMoves

(* The part of the state that no worker changes. *)
LEMMA WorkerLeaves ==
  ASSUME TInv, UNCHANGED workerUnchanged, pending' \in Queue,
         serviceCache' \in [Services -> Objs], WorkersTyped', PolarisTyped'
  PROVE  TInv'
BY DEF TInv, ClusterTyped, TasksTyped, workerUnchanged, k8sVars, eventVars, healthVars

LEMMA TakeTypes ==
  ASSUME TInv, NEW w \in Workers, NEW s \in Services, NEW r \in Retries, TakeTask(w, s, r)
  PROVE  TInv'
<1> DEFINE k == [IdleWorker EXCEPT !.pc = "lookup", !.svc = s, !.retries = r,
                                   !.obj = svc[s]]
           counts == [pending[s] EXCEPT ![r] = @ - 1]
<1>1. k \in WorkerRecord /\ k.pc = "lookup" /\ k.svc \in Services
  BY IdleTyped DEF WorkerTyped, WorkerRecord, IdleWorker, PCs, Objs, TInv, ClusterTyped
<1>2. worker' = [worker EXCEPT ![w] = k]
  BY DEF TakeTask
<1>3. counts \in [Retries -> Nat]
  BY DEF TakeTask, TInv, TasksTyped, Queue
<1>4. pending' = [pending EXCEPT ![s] = counts]
  BY DEF TakeTask
<1> HIDE DEF k, counts
<1>5. WorkerTyped(k)
  BY <1>1, ServiceSyncAssumption DEF WorkerTyped, Searching, ServiceSyncAssumption
<1>6. WorkersTyped'
  BY <1>2, <1>5, WorkerMoves DEF TInv
<1>7. pending' \in Queue
  BY <1>3, <1>4 DEF TInv, TasksTyped, Queue
<1>8. UNCHANGED <<workerUnchanged, serviceCache, registry, created, orphans>>
  BY DEF TakeTask, polarisVars
<1>9. QED
  BY <1>6, <1>7, <1>8, WorkerLeaves DEF TInv, TasksTyped, PolarisTyped

(* Up to the first batch: what is read is a service, endpoints and a view. *)
LEMMA LookTypes ==
  ASSUME TInv, NEW w \in Workers,
         \/ LoadCache(w) \/ CreateInPolaris(w) \/ Recheck(w) \/ Compare(w)
         \/ ReadEndpoints(w) \/ GetAllInstance(w)
  PROVE  TInv'
<1>1. UNCHANGED <<workerUnchanged, serviceCache, registry, orphans>>
  BY DEF LoadCache, CreateInPolaris, Recheck, Compare, ReadEndpoints, GetAllInstance,
     onlyWorker, polarisVars
<1>2. worker[w].pc # "idle"
  BY DEF LoadCache, CreateInPolaris, Recheck, Compare, ReadEndpoints, GetAllInstance,
     Worker, AfterQuery
<1>3. WorkerTyped(worker[w]) /\ worker[w].svc \in Services
  BY <1>2 DEF TInv, WorkersTyped, WorkerTyped, WorkerRecord
<1>4. pending' \in Queue /\ PolarisTyped'
  <2>1. pending' = pending \/ pending' = Retried(pending, w)
    BY DEF LoadCache, CreateInPolaris, Recheck, Compare, ReadEndpoints, GetAllInstance,
       onlyWorker, Fail
  <2>2. created' = created \/ created' = created \cup {worker[w].svc}
    BY DEF LoadCache, CreateInPolaris, Recheck, Compare, ReadEndpoints, GetAllInstance,
       onlyWorker, polarisVars
  <2>3. QED
    BY <1>1, <1>2, <1>3, <2>1, <2>2, RetriedTyped DEF TInv, TasksTyped, PolarisTyped
<1>5. ASSUME NEW k \in WorkerRecord, worker' = [worker EXCEPT ![w] = k],
             k.svc = worker[w].svc, k.pc # "idle", k.pc \notin Searching => k.obj # NoSvc
      PROVE  WorkersTyped'
  <2>1. WorkerTyped(k)
    BY <1>2, <1>3, <1>5 DEF WorkerTyped
  <2>2. QED
    BY <1>5, <2>1, WorkerMoves DEF TInv
<1>6. ASSUME LoadCache(w)
      PROVE  WorkersTyped'
  <2> DEFINE next == IF worker[w].obj = NoSvc THEN "queryPurge"
                     ELSE IF serviceCache[worker[w].svc] = NoSvc THEN "create" ELSE "compare"
             k == [worker[w] EXCEPT !.pc = next,
                     !.cached = IF next = "compare" THEN serviceCache[worker[w].svc] ELSE NoSvc]
  <2>1. Finish(w) \/ worker' = [worker EXCEPT ![w] = k]
    BY <1>6 DEF LoadCache
  <2>2. next \in PCs /\ next # "idle"
    BY DEF PCs, AfterQuery
  <2>3. k \in WorkerRecord /\ k.pc = next /\ k.svc = worker[w].svc /\ k.obj = worker[w].obj
    BY <1>3, <2>2 DEF WorkerTyped, WorkerRecord, Objs, TInv, TasksTyped
  <2>4. next \notin Searching => worker[w].obj # NoSvc
    BY DEF Searching
  <2> HIDE DEF k, next
  <2>5. QED
    BY <1>5, <2>1, <2>2, <2>3, <2>4, FinishTyped DEF TInv
<1>7. ASSUME CreateInPolaris(w) \/ Recheck(w) \/ Compare(w)
      PROVE  WorkersTyped'
  <2>1. worker[w].pc \in {"create", "recheck", "compare"}
    BY <1>7 DEF CreateInPolaris, Recheck, Compare, Worker
  <2>2. worker[w].obj # NoSvc
    BY <1>3, <2>1 DEF WorkerTyped, Searching
  <2>3. \/ Finish(w)
        \/ \E pc \in {"recheck", "endpoints", "queryUnsync", "store"} : Goto(w, pc)
    BY <1>7 DEF CreateInPolaris, Recheck, Compare, Fail
  <2>4. {"recheck", "endpoints", "queryUnsync", "store"} \subseteq PCs
    BY DEF PCs, AfterQuery
  <2>5. QED
    BY <1>2, <2>2, <2>3, <2>4, FinishTyped, GotoTyped DEF TInv
<1>8. ASSUME ReadEndpoints(w)
      PROVE  WorkersTyped'
  <2> DEFINE k == [worker[w] EXCEPT !.pc = "query", !.eps = eps[worker[w].svc]]
  <2>1. \/ Finish(w)
        \/ worker' = [worker EXCEPT ![w] = k] /\ eps[worker[w].svc] # NoEndpoints
    BY <1>8 DEF ReadEndpoints, Fail
  <2>2. worker[w].obj # NoSvc
    BY <1>3, <1>8 DEF ReadEndpoints, Worker, WorkerTyped, Searching
  <2>3. CASE worker' = [worker EXCEPT ![w] = k] /\ eps[worker[w].svc] # NoEndpoints
    <3>1. eps[worker[w].svc] \in SUBSET Addrs /\ "query" \in PCs
      BY <1>3, <2>3 DEF TInv, ClusterTyped, EpsTypes, PCs, AfterQuery
    <3>2. k \in WorkerRecord /\ k.pc = "query" /\ k.svc = worker[w].svc
          /\ k.obj = worker[w].obj
      BY <1>3, <3>1 DEF WorkerTyped, WorkerRecord
    <3> HIDE DEF k
    <3>3. QED
      BY <1>5, <2>2, <2>3, <3>2
  <2>4. QED
    BY <2>1, <2>3, FinishTyped DEF TInv
<1>9. ASSUME GetAllInstance(w)
      PROVE  WorkersTyped'
  <2>1. PICK view \in {registry[worker[w].svc], NoView} :
          worker' = [worker EXCEPT ![w].pc = AfterQuery[@], ![w].view = view]
    BY <1>9 DEF GetAllInstance
  <2> DEFINE k == [worker[w] EXCEPT !.pc = AfterQuery[@], !.view = view]
  <2>2. view \in Views
    BY <1>3 DEF TInv, PolarisTyped, NoView, Views
  <2>3. AfterQuery[worker[w].pc] \in {"add", "purge", "unsync"}
        /\ (AfterQuery[worker[w].pc] # "purge" => worker[w].obj # NoSvc)
    BY <1>3, <1>9 DEF GetAllInstance, AfterQuery, WorkerTyped, Searching
  <2>4. {"add", "purge", "unsync"} \subseteq PCs
    BY DEF PCs, AfterDelete
  <2>5. k \in WorkerRecord /\ k.pc = AfterQuery[worker[w].pc] /\ k.svc = worker[w].svc
        /\ k.obj = worker[w].obj
    BY <1>3, <2>2, <2>3, <2>4 DEF WorkerTyped, WorkerRecord
  <2>6. worker' = [worker EXCEPT ![w] = k]
    BY <2>1
  <2> HIDE DEF k
  <2>7. QED
    BY <1>5, <2>3, <2>5, <2>6 DEF Searching
<1>10. WorkersTyped'
  BY <1>6, <1>7, <1>8, <1>9
<1>11. QED
  BY <1>1, <1>4, <1>10, WorkerLeaves DEF TInv, TasksTyped

(* The batches: an instance that is written has the attributes of a service. *)
LEMMA WriteTypes ==
  ASSUME TInv, NEW w \in Workers,
         \/ AddInstances(w) \/ UpdateInstances(w) \/ DeleteInstances(w)
         \/ DeleteAllInstances(w)
  PROVE  TInv'
<1> DEFINE s == worker[w].svc
<1>1. UNCHANGED <<workerUnchanged, serviceCache, created>>
  BY DEF AddInstances, UpdateInstances, DeleteInstances, DeleteAllInstances, AllDeleted,
     Write
<1>2. worker[w].pc \in {"add", "update", "remove", "purge", "unsync"}
  BY DEF AddInstances, UpdateInstances, DeleteInstances, DeleteAllInstances, Worker,
     AfterDelete
<1>3. /\ WorkerTyped(worker[w]) /\ worker[w].svc \in Services
      /\ worker[w].pc # "purge" => worker[w].obj \in Objects
  BY <1>2 DEF TInv, WorkersTyped, WorkerTyped, WorkerRecord, Searching, Objs
<1>4. worker[w].pc # "purge" => worker[w].obj.attrs \in Attrs
  BY <1>3, ServiceSyncAssumption DEF ServiceSyncAssumption
<1>5. registry[s] \in Views
  BY <1>3 DEF TInv, PolarisTyped
<1>6. \E view \in Views : registry' = [registry EXCEPT ![s] = view]
  <2>1. CASE AddInstances(w)
    <3>1. PICK reached : registry' = [registry EXCEPT ![s] =
             [a \in Addrs |-> IF a \in reached /\ registry[s][a] = NoInstance
                              THEN worker[w].obj.attrs ELSE registry[s][a]]]
      BY <2>1 DEF AddInstances, Write
    <3>2. QED
      BY <1>4, <1>5, <2>1, <3>1 DEF AddInstances, Worker, Views
  <2>2. CASE UpdateInstances(w)
    <3>1. PICK reached : registry' = [registry EXCEPT ![s] =
             [a \in Addrs |-> IF a \in reached /\ registry[s][a] # NoInstance
                              THEN worker[w].obj.attrs ELSE registry[s][a]]]
      BY <2>2 DEF UpdateInstances, Write
    <3>2. QED
      BY <1>4, <1>5, <2>2, <3>1 DEF UpdateInstances, Worker, Views
  <2>3. CASE DeleteInstances(w) \/ DeleteAllInstances(w)
    <3>1. PICK reached : registry' = [registry EXCEPT ![s] =
             [a \in Addrs |-> Removed(w, reached, a)]]
      BY <2>3 DEF DeleteInstances, DeleteAllInstances, AllDeleted, Write
    <3>2. QED
      BY <1>5, <3>1 DEF Removed, Views
  <2>4. QED
    BY <2>1, <2>2, <2>3
<1>7. PolarisTyped'
  <2>1. orphans' = orphans \/ \E left \in SUBSET Addrs : orphans' = [orphans EXCEPT ![s] = left]
    BY DEF AddInstances, UpdateInstances, DeleteInstances, DeleteAllInstances, AllDeleted,
       Managed
  <2>2. QED
    BY <1>1, <1>6, <2>1 DEF TInv, PolarisTyped
<1>8. pending' \in Queue
  <2>1. \/ pending' = pending
        \/ pending' = Retried(PutBack(w), w)
    BY DEF AddInstances, UpdateInstances, DeleteInstances, DeleteAllInstances, AllDeleted,
       Write
  <2>2. QED
    BY <1>2, <2>1, RetriedTyped DEF TInv, TasksTyped
<1>9. WorkersTyped'
  <2>1. \/ Finish(w)
        \/ worker[w].pc # "purge" /\ \E pc \in {"update", "remove", "store"} : Goto(w, pc)
        \/ worker[w].pc = "purge" /\ Goto(w, "forget")
    <3>1. CASE AddInstances(w) \/ UpdateInstances(w) \/ DeleteInstances(w)
      BY <3>1 DEF AddInstances, UpdateInstances, DeleteInstances, Write, Worker
    <3>2. CASE DeleteAllInstances(w)
      <4>1. \/ Finish(w)
            \/ worker[w].pc \in {"purge", "unsync"} /\ Goto(w, AfterDelete[worker[w].pc])
        BY <3>2 DEF DeleteAllInstances, AllDeleted, Write, AfterDelete
      <4>2. QED
        BY <4>1 DEF AfterDelete
    <3>3. QED
      BY <3>1, <3>2
  <2>2. {"update", "remove", "store", "forget"} \subseteq PCs
    BY DEF PCs
  <2>3. worker[w].pc # "purge" => worker[w].obj # NoSvc
    BY <1>3, ServiceSyncAssumption DEF ServiceSyncAssumption
  <2>4. QED
    BY <1>2, <2>1, <2>2, <2>3, FinishTyped, GotoTyped DEF TInv, Searching
<1>10. QED
  BY <1>1, <1>7, <1>8, <1>9, WorkerLeaves DEF TInv, TasksTyped

LEMMA CacheTypes ==
  ASSUME TInv, NEW w \in Workers, StoreCache(w) \/ ForgetCache(w)
  PROVE  TInv'
<1>1. worker[w].pc # "idle"
  BY DEF StoreCache, ForgetCache, Worker
<1>2. worker[w].svc \in Services /\ worker[w].obj \in Objs
  BY <1>1 DEF TInv, WorkersTyped, WorkerTyped, WorkerRecord
<1>3. /\ UNCHANGED <<workerUnchanged, pending, registry, created, orphans>> /\ Finish(w)
      /\ \E obj \in Objs : serviceCache' = [serviceCache EXCEPT ![worker[w].svc] = obj]
  BY <1>2 DEF StoreCache, ForgetCache, CacheService, polarisVars, Objs
<1>4. serviceCache' \in [Services -> Objs]
  BY <1>2, <1>3 DEF TInv, TasksTyped
<1>5. QED
  BY <1>3, <1>4, WorkerLeaves, FinishTyped DEF TInv, TasksTyped, PolarisTyped

(* The loops beside the workers, and a restart. *)
LEMMA LoopTypes ==
  ASSUME TInv,
         \/ CheckHealth \/ Restart \/ EndpointsTombstone
         \/ (\E s \in Services : Resync(s)) \/ UNCHANGED vars
  PROVE  TInv'
<1> Registered \in [Services -> SUBSET Addrs]
  BY DEF Registered, Managed
<1>1. CASE CheckHealth
  <2>1. UNCHANGED <<svc, eps, nsSync, svcEvents, epEvents, handler, pending, worker,
                    registry, created, resyncServiceCache>>
        /\ orphans' \in {orphans, Registered}
    BY <1>1 DEF CheckHealth, k8sVars, eventVars, cacheVars, polarisVars
  <2>2. /\ healthy' \in BOOLEAN /\ failedTimes' \in 0..2
        /\ serviceCache' \in [Services -> Objs]
    <3>1. \/ healthy' = TRUE /\ failedTimes' = 0
          \/ healthy' = (failedTimes + 1 < 3) /\ failedTimes' = (failedTimes + 1) % 3
          \/ UNCHANGED <<healthy, failedTimes>>
      BY <1>1 DEF CheckHealth, healthVars
    <3>2. \/ UNCHANGED serviceCache
          \/ serviceCache' = [s \in Services |-> NoSvc]
      BY <1>1 DEF CheckHealth, cacheVars
    <3>3. healthy' \in BOOLEAN /\ failedTimes' \in 0..2
      <4>1. failedTimes \in {0, 1, 2} /\ healthy \in BOOLEAN
        BY DEF TInv, TasksTyped
      <4>2. (failedTimes + 1) % 3 \in 0..2
        BY <4>1
      <4>3. (failedTimes + 1 < 3) \in BOOLEAN
        OBVIOUS
      <4>4. 0 \in 0..2 /\ failedTimes \in 0..2
        BY <4>1
      <4>5. healthy' \in BOOLEAN
        BY <3>1, <4>1, <4>3, Zenon
      <4>6. QED
        BY <3>1, <4>2, <4>4, <4>5
    <3>4. QED
      BY <3>2, <3>3 DEF TInv, TasksTyped, Objs
  <2>3. QED
    BY <2>1, <2>2 DEF TInv, ClusterTyped, TasksTyped, WorkersTyped, PolarisTyped
<1>2. CASE StartAnew
  <2>1. UNCHANGED <<svc, eps, nsSync, registry, created>> /\ orphans' = Registered
    BY <1>2 DEF StartAnew, k8sVars
  <2>2. svcEvents' \in Seq(SvcEvent) /\ epEvents' \in Seq(EpEvent)
    BY <1>2, ListedEvents DEF StartAnew, TInv, ClusterTyped
  <2>3. ClusterTyped' /\ PolarisTyped'
    BY <2>1, <2>2 DEF TInv, ClusterTyped, PolarisTyped
  <2>4. TasksTyped'
    BY <1>2 DEF StartAnew, TasksTyped, Queue, Objs
  <2>5. WorkersTyped'
    BY <1>2, IdleTyped DEF StartAnew, WorkersTyped
  <2>6. QED
    BY <2>3, <2>4, <2>5 DEF TInv
<1>3. ASSUME NEW s \in Services, Resync(s)
      PROVE  TInv'
  <2>1. UNCHANGED <<svc, eps, nsSync, svcEvents, epEvents, handler, serviceCache,
                    resyncServiceCache, worker, healthy, failedTimes, registry, created,
                    orphans>>
    BY <1>3 DEF Resync, k8sVars, eventVars, cacheVars, healthVars, polarisVars
  <2>2. pending' \in Queue
    BY <1>3, EnqueuedTyped, ZeroRetries DEF Resync, Enqueue, TInv, TasksTyped
  <2>3. QED
    BY <2>1, <2>2 DEF TInv, ClusterTyped, TasksTyped, WorkersTyped, PolarisTyped
<1>4. CASE UNCHANGED vars
  BY <1>4 DEF vars, k8sVars, eventVars, cacheVars, healthVars, polarisVars, TInv,
     ClusterTyped, TasksTyped, WorkersTyped, PolarisTyped
<1>5. QED
  BY <1>1, <1>2, <1>3, <1>4 DEF Restart, EndpointsTombstone

LEMMA NextTInv == TInv /\ [Next]_vars => TInv'
BY ClusterTypes, HandlerTypes, TakeTypes, LookTypes, WriteTypes, CacheTypes, LoopTypes
   DEF Next, WorkerStep

(* The state keeps its shape in every configuration, through faults and        *)
(* restarts: in particular a queued task has a number of retries there can be, *)
(* and a worker at processSyncInstance a service it has found.                 *)
THEOREM TypeCorrect == Spec => []TypeOK
BY InitTInv, NextTInv, TInvSuffices, PTL DEF Spec

-----------------------------------------------------------------------------
(* Instances of others, with one worker.  What it decided to update or to      *)
(* delete, on a view that may be out of date by now, is still its own: nobody   *)
(* else deletes an instance of the controller, and only a free address can be   *)
(* taken.                                                                       *)
Alone == \A v, w \in Workers : v = w

Writing == {"add", "update", "remove", "purge", "unsync"}
ViewOwned(w) ==
  worker[w].pc \in Writing =>
    \A a \in Managed(worker[w].view) : registry[worker[w].svc][a] \in Attrs
OInv == TInv /\ \A w \in Workers : ViewOwned(w)

ForeignKept ==
  \A s \in Services, a \in Addrs : registry[s][a] = Foreign => registry'[s][a] = Foreign
OwnKept ==
  \A s \in Services, a \in Addrs : registry[s][a] \in Attrs => registry'[s][a] \in Attrs

LEMMA Differ == Foreign \notin Attrs /\ NoInstance \notin Attrs /\ Foreign # NoInstance
BY ServiceSyncAssumption DEF ServiceSyncAssumption

LEMMA InitOInv == Init => OInv
BY InitTInv DEF Init, OInv, ViewOwned, IdleWorker, Writing

(* Steps without the worker take no instance away. *)
LEMMA OthersOwn ==
  ASSUME OInv, OwnKept, UNCHANGED worker
  PROVE  \A w \in Workers : ViewOwned(w)'
<1> SUFFICES ASSUME NEW w \in Workers, worker[w].pc \in Writing,
                    NEW a \in Managed(worker[w].view)
             PROVE  registry'[worker[w].svc][a] \in Attrs
  BY DEF ViewOwned, Managed, IsSyncInstance
<1>1. worker[w].svc \in Services /\ a \in Addrs
  BY DEF OInv, TInv, WorkersTyped, WorkerTyped, WorkerRecord, Writing, Managed
<1>2. QED
  BY <1>1 DEF OInv, ViewOwned, OwnKept

(* The worker that moves is the only one. *)
LEMMA AloneOwn ==
  ASSUME Alone, NEW w \in Workers, ViewOwned(w)'
  PROVE  \A v \in Workers : ViewOwned(v)'
BY DEF Alone

LEMMA MovedOn ==
  ASSUME TInv, NEW w \in Workers, NEW pc, Goto(w, pc)
  PROVE  /\ worker'[w].pc = pc /\ worker'[w].svc = worker[w].svc
         /\ pc \notin {"store", "forget"} => worker'[w].view = worker[w].view
BY DEF Goto, TInv, WorkersTyped, WorkerTyped, WorkerRecord

LEMMA ForeignRegisterOwn ==
  ASSUME OInv, NEW s \in Services, NEW a \in Addrs, ForeignRegister(s, a)
  PROVE  ForeignKept /\ OwnKept
<1>1. registry \in [Services -> Views] /\ registry[s][a] = NoInstance
      /\ registry' = [registry EXCEPT ![s][a] = Foreign]
  BY DEF ForeignRegister, OInv, TInv, PolarisTyped
<1>2. ASSUME NEW t \in Services, NEW b \in Addrs
      PROVE  registry'[t][b] = IF t = s /\ b = a THEN Foreign ELSE registry[t][b]
  BY <1>1 DEF Views
<1>3. QED
  BY <1>1, <1>2, Differ DEF ForeignKept, OwnKept

(* The batches of processSyncInstance and of processDeleteService. *)
LEMMA BatchOwn ==
  ASSUME OInv, NEW w \in Workers,
         \/ AddInstances(w) \/ UpdateInstances(w) \/ DeleteInstances(w)
         \/ DeleteAllInstances(w)
  PROVE  ForeignKept /\ ViewOwned(w)'
<1> DEFINE s == worker[w].svc
           view == worker[w].view
<1>1. worker[w].pc \in Writing
  BY DEF AddInstances, UpdateInstances, DeleteInstances, DeleteAllInstances, Worker,
     AfterDelete, Writing
<1>2. s \in Services /\ registry \in [Services -> Views]
  BY <1>1 DEF OInv, TInv, WorkersTyped, WorkerTyped, WorkerRecord, Writing, PolarisTyped
<1>3. \A a \in Managed(view) : registry[s][a] \in Attrs
  BY <1>1 DEF OInv, ViewOwned
<1>4. worker[w].pc # "purge" => worker[w].obj.attrs \in Attrs
  <2>1. worker[w].pc # "purge" => worker[w].obj \in Objects
    BY <1>1 DEF OInv, TInv, WorkersTyped, WorkerTyped, WorkerRecord, Searching, Writing, Objs
  <2>2. QED
    BY <2>1, ServiceSyncAssumption DEF ServiceSyncAssumption
<1>5. CASE AddInstances(w)
  <2>1. PICK reached : registry' = [registry EXCEPT ![s] =
           [a \in Addrs |-> IF a \in reached /\ registry[s][a] = NoInstance
                            THEN worker[w].obj.attrs ELSE registry[s][a]]]
    BY <1>5 DEF AddInstances, Write
  <2>2. worker[w].pc = "add" /\ Goto(w, "update")
    BY <1>5 DEF AddInstances, Write, Worker
  <2>3. ForeignKept /\ OwnKept
    BY <1>2, <1>4, <2>1, <2>2, Differ DEF ForeignKept, OwnKept, Views
  <2>4. worker'[w].svc = s /\ worker'[w].view = view
    BY <2>2, MovedOn DEF OInv
  <2>5. QED
    BY <1>2, <1>3, <2>3, <2>4 DEF OwnKept, ViewOwned, Managed, IsSyncInstance
<1>6. CASE UpdateInstances(w)
  <2>1. PICK reached \in SUBSET ToUpdate(worker[w]) :
          registry' = [registry EXCEPT ![s] =
            [a \in Addrs |-> IF a \in reached /\ registry[s][a] # NoInstance
                             THEN worker[w].obj.attrs ELSE registry[s][a]]]
    BY <1>6 DEF UpdateInstances, Write
  <2>2. worker[w].pc = "update" /\ Goto(w, "remove")
    BY <1>6 DEF UpdateInstances, Write, Worker
  <2>3. reached \subseteq Managed(view)
    BY <2>1 DEF ToUpdate
  <2>4. ForeignKept /\ OwnKept
    BY <1>2, <1>3, <1>4, <2>1, <2>2, <2>3, Differ DEF ForeignKept, OwnKept, Views
  <2>5. worker'[w].svc = s /\ worker'[w].view = view
    BY <2>2, MovedOn DEF OInv
  <2>6. QED
    BY <1>2, <1>3, <2>4, <2>5 DEF OwnKept, ViewOwned, Managed, IsSyncInstance
<1>7. CASE DeleteInstances(w) \/ DeleteAllInstances(w)
  <2>1. PICK reached \in SUBSET Managed(view) :
          registry' = [registry EXCEPT ![s] = [a \in Addrs |-> Removed(w, reached, a)]]
    BY <1>7 DEF DeleteInstances, DeleteAllInstances, AllDeleted, Write, ToDelete
  <2>2. ForeignKept
    BY <1>2, <1>3, <2>1, Differ DEF ForeignKept, Removed, Views
  <2>3. Finish(w) \/ \E pc \in {"store", "forget"} : Goto(w, pc)
    <3>1. CASE DeleteInstances(w)
      BY <3>1 DEF DeleteInstances, Write
    <3>2. CASE DeleteAllInstances(w)
      <4>1. \/ Finish(w)
            \/ worker[w].pc \in {"purge", "unsync"} /\ Goto(w, AfterDelete[worker[w].pc])
        BY <3>2 DEF DeleteAllInstances, AllDeleted, Write, AfterDelete
      <4>2. QED
        BY <4>1 DEF AfterDelete
    <3>3. QED
      BY <1>7, <3>1, <3>2
  <2>4. worker'[w].pc \in {"idle", "store", "forget"}
    BY <2>3, MovedOn DEF OInv, Finish, IdleWorker, TInv, WorkersTyped
  <2>5. QED
    BY <2>2, <2>4 DEF ViewOwned, Writing
<1>8. QED
  BY <1>5, <1>6, <1>7

(* The other steps of the worker leave Polaris' instances alone; the view it   *)
(* writes by is taken from there, or empty when the query failed.              *)
LEMMA ReadOwn ==
  ASSUME OInv, NEW w \in Workers,
         \/ \E s \in Services, r \in Retries : TakeTask(w, s, r)
         \/ LoadCache(w) \/ CreateInPolaris(w) \/ Recheck(w) \/ Compare(w)
         \/ ReadEndpoints(w) \/ GetAllInstance(w) \/ StoreCache(w) \/ ForgetCache(w)
  PROVE  UNCHANGED registry /\ ViewOwned(w)'
<1>1. UNCHANGED registry
  BY DEF TakeTask, LoadCache, CreateInPolaris, Recheck, Compare, ReadEndpoints,
     GetAllInstance, StoreCache, ForgetCache, CacheService, onlyWorker, polarisVars
<1>2. CASE GetAllInstance(w)
  <2>1. PICK view \in {registry[worker[w].svc], NoView} :
          worker' = [worker EXCEPT ![w].pc = AfterQuery[@], ![w].view = view]
    BY <1>2 DEF GetAllInstance
  <2>2. worker'[w].view = view /\ worker'[w].svc = worker[w].svc
    BY <2>1 DEF OInv, TInv, WorkersTyped, WorkerTyped, WorkerRecord
  <2>3. \A a \in Managed(view) : registry[worker[w].svc][a] \in Attrs
    BY Differ DEF Managed, IsSyncInstance, NoView
  <2>4. QED
    BY <1>1, <2>2, <2>3 DEF ViewOwned, Managed, IsSyncInstance
<1>3. CASE ~GetAllInstance(w)
  <2>1. worker'[w].pc \notin Writing
    <3>1. ASSUME Finish(w) PROVE worker'[w].pc \notin Writing
      BY <3>1 DEF Finish, IdleWorker, Writing, OInv, TInv, WorkersTyped
    <3>2. ASSUME NEW pc \in {"recheck", "endpoints", "queryUnsync", "store"}, Goto(w, pc)
          PROVE  worker'[w].pc \notin Writing
      BY <3>2, MovedOn DEF Writing, OInv
    <3>3. CASE \/ \E s \in Services, r \in Retries : TakeTask(w, s, r)
               \/ LoadCache(w) \/ ReadEndpoints(w)
      <4>1. \/ Finish(w)
            \/ worker'[w].pc \in {"lookup", "queryPurge", "create", "compare", "query"}
        <5>1. DOMAIN worker = Workers /\ worker[w] \in WorkerRecord
          BY DEF OInv, TInv, WorkersTyped, WorkerTyped
        <5>2. CASE \E s \in Services, r \in Retries : TakeTask(w, s, r)
          BY <5>1, <5>2 DEF TakeTask, IdleWorker
        <5>3. CASE LoadCache(w)
          BY <5>1, <5>3 DEF LoadCache, WorkerRecord
        <5>4. CASE ReadEndpoints(w)
          BY <5>1, <5>4 DEF ReadEndpoints, Fail, WorkerRecord
        <5>5. QED
          BY <3>3, <5>2, <5>3, <5>4
      <4>2. QED
        BY <3>1, <4>1 DEF Writing
    <3>4. CASE CreateInPolaris(w) \/ Recheck(w) \/ Compare(w) \/ StoreCache(w)
               \/ ForgetCache(w)
      BY <3>1, <3>2, <3>4 DEF CreateInPolaris, Recheck, Compare, StoreCache, ForgetCache,
         CacheService, Fail
    <3>5. QED
      BY <1>3, <3>3, <3>4
  <2>2. QED
    BY <1>1, <2>1 DEF ViewOwned
<1>4. QED
  BY <1>1, <1>2, <1>3

LEMMA OInvStep ==
  ASSUME OInv, Alone, [Next]_vars
  PROVE  OInv' /\ ForeignKept
<1>1. TInv'
  BY NextTInv DEF OInv
<1>2. ASSUME UNCHANGED registry
      PROVE  ForeignKept /\ OwnKept
  BY <1>2 DEF ForeignKept, OwnKept
<1>3. CASE K8sChange
  <2>1. UNCHANGED worker
    BY <1>3 DEF K8sChange, CreateService, UpdateService, DeleteService, ServiceChange,
       SetEndpoints, RemoveEndpoints, EndpointsChange, AnnotateNamespace, ForeignRegister,
       controllerVars
  <2>2. \/ UNCHANGED registry
        \/ \E s \in Services, a \in Addrs : ForeignRegister(s, a)
    BY <1>3 DEF K8sChange, CreateService, UpdateService, DeleteService, ServiceChange,
       SetEndpoints, RemoveEndpoints, EndpointsChange, AnnotateNamespace, polarisVars
  <2>3. ForeignKept /\ OwnKept
    BY <1>2, <2>2, ForeignRegisterOwn
  <2>4. QED
    BY <1>1, <2>1, <2>3, OthersOwn DEF OInv
<1>4. CASE \/ HandleServiceEvent \/ HandlerStores \/ HandleEndpointsEvent
           \/ HandleNamespaceEvent \/ (\E s \in Services : Resync(s)) \/ CheckHealth
           \/ UNCHANGED vars
  <2>1. UNCHANGED <<registry, worker>>
    BY <1>4 DEF HandleServiceEvent, HandlerStores, HandleEndpointsEvent,
       HandleNamespaceEvent, serviceEventUnchanged, Resync, CheckHealth, vars, polarisVars
  <2>2. QED
    BY <1>1, <1>2, <2>1, OthersOwn DEF OInv
<1>5. ASSUME NEW w \in Workers,
             WorkerStep(w) \/ \E s \in Services, r \in Retries : TakeTask(w, s, r)
      PROVE  OInv' /\ ForeignKept
  <2>1. ForeignKept /\ ViewOwned(w)'
    BY <1>2, <1>5, BatchOwn, ReadOwn DEF WorkerStep
  <2>2. QED
    BY <1>1, <2>1, AloneOwn DEF OInv
<1>6. CASE Restart \/ EndpointsTombstone
  <2>1. UNCHANGED registry /\ worker' = [w \in Workers |-> IdleWorker]
    BY <1>6 DEF Restart, EndpointsTombstone, StartAnew
  <2>2. QED
    BY <1>1, <1>2, <2>1 DEF OInv, ViewOwned, IdleWorker, Writing
<1>7. QED
  BY <1>3, <1>4, <1>5, <1>6 DEF Next

(* processSyncInstance (endpoint.go:165), processDeleteService (service.go:214), *)
(* one worker: an instance that somebody else registered is neither updated nor *)
(* deleted, through any failures and restarts.                                  *)
THEOREM OthersUntouched ==
  ASSUME Alone
  PROVE  Spec => ForeignUntouched
<1>1. OInv /\ [Next]_vars => OInv'
  BY OInvStep
<1>2. OInv /\ [Next]_vars =>
        [\A s \in Services, a \in Addrs :
           registry[s][a] = Foreign => registry'[s][a] = Foreign]_vars
  BY OInvStep DEF ForeignKept
<1>3. QED
  BY <1>1, <1>2, InitOInv, PTL DEF Spec, ForeignUntouched
-----------------------------------------------------------------------------
(* Whatever this controller has registered, and can know of, can still be found *)
(* for removal, for any services, objects, failing and refused writes, outages, *)
(* missed deletions and restarts, with one worker and no failing query.         *)
(* InstancesAccounted is not inductive: a worker that stores must have a        *)
(* service to store, and one that forgets must have left no instance, which     *)
(* rests on what it saw when it asked Polaris.                                  *)

(* The configurations the theorem is about. *)
Calm == (\A v, w \in Workers : v = w) /\ MaxQueryFaults = 0

UsedOk ==
  /\ DOMAIN used = {"changes", "enables", "writes", "refusals", "queries", "probes",
                    "restarts", "foreign"}
  /\ \A bound \in DOMAIN used : used[bound] \in Nat

(* Every step assigns to parts of these. *)
Shaped ==
  /\ DOMAIN serviceCache = Services /\ DOMAIN orphans = Services
  /\ DOMAIN registry = Services /\ \A s \in Services : DOMAIN registry[s] = Addrs
  /\ DOMAIN worker = Workers
  /\ \A w \in Workers :
       /\ DOMAIN worker[w] = DOMAIN IdleWorker
       /\ worker[w].pc = "idle" \/ worker[w].svc \in Services

Adding(w) == worker[w].pc \in {"update", "remove", "store"}
Accounted(s) ==
  Remaining(s) # {} =>
    serviceCache[s] # NoSvc \/ \E w \in Workers : worker[w].svc = s /\ Adding(w)

WorkerOk(w) ==
  LET k == worker[w]
  IN  /\ k.pc \notin {"idle", "lookup", "queryPurge", "purge", "forget"} => k.obj # NoSvc
      /\ k.pc \in {"purge", "unsync"} => Managed(registry[k.svc]) \subseteq Managed(k.view)
      /\ k.pc = "forget" => Remaining(k.svc) = {}

AInv ==
  /\ UsedOk /\ Shaped
  /\ \A s \in Services : Accounted(s)
  /\ \A w \in Workers : WorkerOk(w)

-----------------------------------------------------------------------------
LEMMA InitAInv == Init => AInv
<1> SUFFICES ASSUME Init PROVE AInv
  OBVIOUS
<1>1. UsedOk
  BY DEF Init, UsedOk
<1>2. Shaped
  BY DEF Init, Shaped, NoView, IdleWorker
<1>3. \A s \in Services : Managed(registry[s]) = {}
  BY ServiceSyncAssumption DEF Init, Managed, IsSyncInstance, NoView
<1>4. \A w \in Workers : WorkerOk(w)
  BY DEF Init, WorkerOk, IdleWorker
<1>5. QED
  BY <1>1, <1>2, <1>3, <1>4 DEF AInv, Accounted, Remaining

LEMMA InvAccounted == AInv => InstancesAccounted
BY DEF AInv, Accounted, Adding, InstancesAccounted

(* What is used up of a bound stays used up. *)
LEMMA UsedStep ==
  ASSUME UsedOk, [Next]_vars
  PROVE  UsedOk' /\ \A bound \in DOMAIN used : used[bound] <= used'[bound]
<1> DEFINE MoreUsed == UsedOk' /\ \A bound \in DOMAIN used : used[bound] <= used'[bound]
<1>1. ASSUME NEW bound \in DOMAIN used, used' = [used EXCEPT ![bound] = @ + 1]
      PROVE  MoreUsed
  BY <1>1 DEF UsedOk
<1>2. CASE used' = used
  BY <1>2 DEF UsedOk
<1>3. CASE K8sChange
  <2>1. ASSUME NEW annotation \in NsAnnotations, AnnotateNamespace(annotation)
        PROVE  MoreUsed
    <3>1. \/ used' = [used EXCEPT !.changes = @ + 1, !.enables = @ + 1]
          \/ used' = [used EXCEPT !.changes = @ + 1, !.enables = @]
      BY <2>1 DEF AnnotateNamespace
    <3>2. /\ DOMAIN used' = DOMAIN used
          /\ \A bound \in DOMAIN used : used'[bound] \in {used[bound], used[bound] + 1}
      BY <3>1 DEF UsedOk
    <3>3. QED
      BY <3>2 DEF UsedOk
  <2>2. ASSUME \/ Use("changes", MaxChanges)
               \/ Use("foreign", MaxForeign)
        PROVE  MoreUsed
    BY <1>1, <2>2 DEF Use, UsedOk
  <2>3. QED
    BY <1>3, <2>1, <2>2 DEF K8sChange, CreateService, UpdateService, DeleteService,
       ServiceChange, SetEndpoints, RemoveEndpoints, EndpointsChange, ForeignRegister
<1>4. CASE HandleServiceEvent \/ HandlerStores \/ HandleEndpointsEvent
           \/ EndpointsTombstone \/ HandleNamespaceEvent
  BY <1>2, <1>4 DEF HandleServiceEvent, HandlerStores, HandleEndpointsEvent,
     EndpointsTombstone, HandleNamespaceEvent, serviceEventUnchanged
<1>5. ASSUME NEW w \in Workers,
             WorkerStep(w) \/ \E s \in Services, r \in Retries : TakeTask(w, s, r)
      PROVE  MoreUsed
  <2>1. ASSUME \/ Use("writes", MaxWriteFaults) \/ Use("refusals", MaxRefusals)
               \/ Use("queries", MaxQueryFaults)
        PROVE  MoreUsed
    BY <1>1, <2>1 DEF Use, UsedOk
  <2>2. \/ used' = used
        \/ Use("writes", MaxWriteFaults) \/ Use("refusals", MaxRefusals)
        \/ Use("queries", MaxQueryFaults)
    <3>1. CASE CreateInPolaris(w) \/ GetAllInstance(w)
      BY <3>1 DEF CreateInPolaris, GetAllInstance
    <3>2. CASE \/ AddInstances(w) \/ UpdateInstances(w) \/ DeleteInstances(w)
               \/ DeleteAllInstances(w)
      BY <3>2 DEF AddInstances, UpdateInstances, DeleteInstances, DeleteAllInstances,
         Reached, Completed, Failed
    <3>3. CASE LoadCache(w) \/ Recheck(w) \/ Compare(w) \/ ReadEndpoints(w)
               \/ StoreCache(w) \/ ForgetCache(w)
               \/ \E s \in Services, r \in Retries : TakeTask(w, s, r)
      BY <3>3 DEF LoadCache, Recheck, Compare, ReadEndpoints, StoreCache, ForgetCache,
         CacheService, TakeTask, onlyWorker
    <3>4. QED
      BY <1>5, <3>1, <3>2, <3>3 DEF WorkerStep
  <2>3. QED
    BY <1>2, <2>1, <2>2
<1>6. CASE CheckHealth \/ Restart \/ \E s \in Services : Resync(s)
  <2>1. ASSUME Use("probes", MaxProbeFaults) \/ Use("restarts", MaxRestarts)
        PROVE  MoreUsed
    BY <1>1, <2>1 DEF Use, UsedOk
  <2>2. QED
    BY <1>2, <1>6, <2>1 DEF CheckHealth, Restart, Resync
<1>7. QED
  BY <1>2, <1>3, <1>4, <1>5, <1>6 DEF Next, vars

(* What the assumption rules out. *)
LEMMA NoFaults ==
  ASSUME UsedOk, Calm
  PROVE  ~Use("queries", MaxQueryFaults)
BY DEF UsedOk, Calm, Use

-----------------------------------------------------------------------------
(* Steps in which no worker takes part: the cache loses nothing, and Polaris *)
(* gets no instance of the controller.                                      *)
LEMMA OthersStep ==
  ASSUME AInv, Shaped', UNCHANGED <<worker, orphans>>,
         \A s \in Services : Managed(registry[s])' \subseteq Managed(registry[s]),
         \A s \in Services : serviceCache[s] # NoSvc => serviceCache[s]' # NoSvc
  PROVE  /\ \A s \in Services : Accounted(s)'
         /\ \A w \in Workers : WorkerOk(w)'
<1>1. \A s \in Services : Remaining(s)' \subseteq Remaining(s)
  BY DEF Remaining
<1>2. \A s \in Services : Accounted(s)'
  BY <1>1 DEF AInv, Accounted, Adding
<1>3. ASSUME NEW w \in Workers PROVE WorkerOk(w)'
  <2>1. worker[w].pc # "idle" =>
          /\ Managed(registry[worker[w].svc])' \subseteq Managed(registry[worker[w].svc])
          /\ Remaining(worker[w].svc)' \subseteq Remaining(worker[w].svc)
    BY <1>1 DEF AInv, Shaped
  <2>2. Managed(worker[w].view)' = Managed(worker[w].view)
    BY DEF Managed
  <2>3. QED
    BY <2>1, <2>2 DEF AInv, WorkerOk
<1>4. QED
  BY <1>2, <1>3

(* The cache is lost: of what there is, nothing is known any more. *)
LEMMA ForgottenStep ==
  ASSUME AInv, UsedOk', Shaped', UNCHANGED registry, orphans' = Registered,
         UNCHANGED worker \/ \A w \in Workers : worker'[w].pc = "idle"
  PROVE  AInv'
<1>1. ASSUME NEW s \in Services
      PROVE  Managed(registry[s])' = Managed(registry[s]) /\ Remaining(s)' = {}
  BY DEF Managed, Registered, Remaining
<1>2. ASSUME NEW w \in Workers PROVE WorkerOk(w)'
  <2>1. CASE worker'[w].pc = "idle"
    BY <2>1 DEF WorkerOk
  <2>2. CASE UNCHANGED worker
    <3>1. worker[w].pc # "idle" =>
            /\ Managed(registry[worker[w].svc])' = Managed(registry[worker[w].svc])
            /\ Remaining(worker[w].svc)' = {}
      BY <1>1, <2>2 DEF AInv, Shaped
    <3>2. Managed(worker[w].view)' = Managed(worker[w].view)
      BY <2>2 DEF Managed
    <3>3. QED
      BY <2>2, <3>1, <3>2 DEF AInv, WorkerOk
  <2>3. QED
    BY <2>1, <2>2
<1>3. QED
  BY <1>1, <1>2 DEF AInv, Accounted

LEMMA ForeignStep ==
  ASSUME AInv, NEW s \in Services, NEW a \in Addrs, ForeignRegister(s, a)
  PROVE  /\ Shaped'
         /\ \A t \in Services : Managed(registry[t])' \subseteq Managed(registry[t])
<1>1. /\ registry' = [registry EXCEPT ![s][a] = Foreign]
      /\ UNCHANGED <<serviceCache, worker, orphans>>
  BY DEF ForeignRegister, controllerVars, cacheVars
<1>2. Shaped'
  BY <1>1 DEF AInv, Shaped
<1>3. ASSUME NEW t \in Services, NEW b \in Addrs, registry'[t][b] \in Attrs
      PROVE  registry[t][b] \in Attrs
  BY <1>1, <1>3, ServiceSyncAssumption DEF AInv, Shaped
<1>4. QED
  BY <1>2, <1>3 DEF Managed, IsSyncInstance

(* The steps of the one worker that do not write to the registry or the cache. *)
LEMMA QuietStep ==
  ASSUME AInv, Calm, NEW w \in Workers, ~Adding(w),
         UNCHANGED serviceCache,
         \A s \in Services : Remaining(s)' \subseteq Remaining(s)
  PROVE  \A s \in Services : Accounted(s)'
BY DEF AInv, Calm, Accounted

(* A batch of the one worker, after which it goes on to store. *)
LEMMA BatchStep ==
  ASSUME AInv, Calm, NEW w \in Workers, UNCHANGED serviceCache,
         NEW view, registry' = [registry EXCEPT ![worker[w].svc] = view],
         \A s \in Services \ {worker[w].svc} : orphans'[s] = orphans[s],
         worker'[w].svc = worker[w].svc, Adding(w)'
  PROVE  \A s \in Services : Accounted(s)'
<1> SUFFICES ASSUME NEW s \in Services PROVE Accounted(s)'
  OBVIOUS
<1>1. CASE worker[w].svc = s
  BY <1>1 DEF Accounted
<1>2. CASE worker[w].svc # s
  <2>1. registry'[s] = registry[s]
    BY <1>2 DEF AInv, Shaped
  <2>2. Remaining(s)' = Remaining(s)
    BY <1>2, <2>1 DEF Managed, Remaining
  <2>3. QED
    BY <1>2, <2>2 DEF AInv, Accounted, Calm
<1>3. QED
  BY <1>1, <1>2

-----------------------------------------------------------------------------
(* What the steps of the worker make of its own state. *)
LEMMA ShapedWorker ==
  ASSUME Shaped, NEW w \in Workers, NEW k, DOMAIN k = DOMAIN IdleWorker,
         k.pc = "idle" \/ k.svc \in Services, worker' = [worker EXCEPT ![w] = k],
         UNCHANGED serviceCache \/ \E s \in Services : \E obj :
                                     serviceCache' = [serviceCache EXCEPT ![s] = obj],
         UNCHANGED registry \/ \E s \in Services : \E view :
                                 /\ DOMAIN view = Addrs
                                 /\ registry' = [registry EXCEPT ![s] = view],
         UNCHANGED orphans \/ \E s \in Services : \E left :
                                orphans' = [orphans EXCEPT ![s] = left]
  PROVE  Shaped' /\ worker'[w] = k
BY DEF Shaped

(* A worker that is alone is the only one to be looked at. *)
LEMMA WorkerAlone ==
  ASSUME Calm, NEW w \in Workers, WorkerOk(w)'
  PROVE  \A v \in Workers : WorkerOk(v)'
BY DEF Calm

LEMMA TakeStep ==
  ASSUME AInv, Calm, NEW w \in Workers, NEW s \in Services, NEW r \in Retries,
         TakeTask(w, s, r)
  PROVE  AInv'
<1>1. PICK k : /\ DOMAIN k = DOMAIN IdleWorker /\ k.pc = "lookup" /\ k.svc = s
               /\ worker' = [worker EXCEPT ![w] = k]
  BY DEF TakeTask, IdleWorker
<1>2. UNCHANGED <<serviceCache, registry, orphans>> /\ ~Adding(w)
  BY DEF TakeTask, workerUnchanged, healthVars, polarisVars, Worker, Adding
<1>3. Shaped' /\ worker'[w] = k
  BY <1>1, <1>2, ShapedWorker DEF AInv
<1>4. WorkerOk(w)'
  BY <1>1, <1>3 DEF WorkerOk
<1>5. UsedOk'
  BY UsedStep DEF AInv, Next
<1>6. QED
  BY <1>2, <1>3, <1>4, <1>5, WorkerAlone, QuietStep DEF AInv, Managed, Remaining

(* A step that changes nothing but the worker's own state. *)
LEMMA MoveStep ==
  ASSUME AInv, Calm, NEW w \in Workers, [Next]_vars, ~Adding(w),
         UNCHANGED <<registry, serviceCache, orphans>>,
         NEW k, DOMAIN k = DOMAIN IdleWorker, worker' = [worker EXCEPT ![w] = k],
         k.pc # "idle" => k.svc = worker[w].svc /\ worker[w].pc # "idle",
         k.pc \notin {"idle", "lookup", "queryPurge", "purge", "forget"} => k.obj # NoSvc,
         k.pc \in {"purge", "unsync"} => Managed(registry[k.svc]) \subseteq Managed(k.view),
         k.pc # "forget"
  PROVE  AInv'
<1>1. Shaped' /\ worker'[w] = k
  BY ShapedWorker DEF AInv, Shaped
<1>2. Managed(registry[k.svc])' = Managed(registry[k.svc])
      /\ Managed(worker[w].view)' = Managed(k.view)
  BY <1>1 DEF Managed
<1>3. WorkerOk(w)'
  BY <1>1, <1>2 DEF WorkerOk, Managed
<1>4. UsedOk'
  BY UsedStep DEF AInv
<1>5. \A s \in Services : Remaining(s)' \subseteq Remaining(s)
  BY DEF Managed, Remaining
<1>6. QED
  BY <1>1, <1>3, <1>4, <1>5, WorkerAlone, QuietStep DEF AInv

LEMMA GotoRecord ==
  ASSUME Shaped, NEW w \in Workers, NEW pc, Goto(w, pc)
  PROVE  \E k : /\ DOMAIN k = DOMAIN IdleWorker /\ k.pc = pc
               /\ k.svc = worker[w].svc /\ k.obj = worker[w].obj
               /\ k.retries = worker[w].retries
               /\ worker' = [worker EXCEPT ![w] = k]
<1> DEFINE k == [worker[w] EXCEPT
                   !.pc = pc, !.cached = NoSvc,
                   !.eps = IF pc \in {"store", "forget"} THEN {} ELSE @,
                   !.view = IF pc \in {"store", "forget"} THEN NoView ELSE @]
<1>1. DOMAIN k = DOMAIN IdleWorker /\ k.pc = pc /\ k.svc = worker[w].svc
      /\ k.obj = worker[w].obj /\ k.retries = worker[w].retries
  BY DEF Shaped, IdleWorker
<1>2. worker' = [worker EXCEPT ![w] = k]
  BY DEF Goto
<1>3. QED
  BY <1>1, <1>2

(* The steps of a worker up to its first batch. *)
LEMMA LookStep ==
  ASSUME AInv, Calm, NEW w \in Workers, [Next]_vars,
         \/ LoadCache(w) \/ CreateInPolaris(w) \/ Recheck(w) \/ Compare(w)
         \/ ReadEndpoints(w) \/ GetAllInstance(w)
  PROVE  AInv'
<1>1. UNCHANGED <<registry, serviceCache, orphans>>
  BY DEF LoadCache, CreateInPolaris, Recheck, Compare, ReadEndpoints, GetAllInstance,
     onlyWorker, workerUnchanged, healthVars, polarisVars
<1>2. worker[w].pc \notin {"idle", "update", "remove", "store"}
  BY DEF LoadCache, CreateInPolaris, Recheck, Compare, ReadEndpoints, GetAllInstance,
     Worker, AfterQuery
<1>3. ~Adding(w)
  BY <1>2 DEF Adding
<1>4. ASSUME Finish(w) PROVE AInv'
  <2>1. IdleWorker.pc = "idle"
    BY DEF IdleWorker
  <2>2. worker' = [worker EXCEPT ![w] = IdleWorker]
    BY <1>4 DEF Finish
  <2>3. QED
    BY <1>1, <1>3, <2>1, <2>2, MoveStep
<1>5. ASSUME NEW pc, Goto(w, pc), worker[w].obj # NoSvc,
             pc \notin {"idle", "purge", "unsync", "forget"}
      PROVE  AInv'
  <2>1. PICK k : /\ DOMAIN k = DOMAIN IdleWorker /\ k.pc = pc
                 /\ k.svc = worker[w].svc /\ k.obj = worker[w].obj
                 /\ worker' = [worker EXCEPT ![w] = k]
    BY <1>5, GotoRecord DEF AInv
  <2>2. QED
    BY <1>1, <1>2, <1>3, <1>5, <2>1, MoveStep
<1>6. CASE LoadCache(w)
  <2> DEFINE next == IF worker[w].obj = NoSvc THEN "queryPurge"
                     ELSE IF serviceCache[worker[w].svc] = NoSvc THEN "create" ELSE "compare"
             k == [worker[w] EXCEPT !.pc = next,
                     !.cached = IF next = "compare" THEN serviceCache[worker[w].svc] ELSE NoSvc]
  <2>1. Finish(w) \/ worker' = [worker EXCEPT ![w] = k]
    BY <1>6 DEF LoadCache
  <2>2. /\ DOMAIN k = DOMAIN IdleWorker /\ k.pc = next
        /\ k.svc = worker[w].svc /\ k.obj = worker[w].obj
    BY DEF AInv, Shaped, IdleWorker
  <2>3. CASE worker' = [worker EXCEPT ![w] = k]
    <3> HIDE DEF k
    <3>1. QED
      BY <1>1, <1>2, <1>3, <2>2, <2>3, MoveStep
  <2>4. QED
    BY <1>4, <2>1, <2>3
<1>7. CASE CreateInPolaris(w) \/ Recheck(w) \/ Compare(w)
  <2>1. worker[w].obj # NoSvc
    BY <1>7 DEF CreateInPolaris, Recheck, Compare, Worker, AInv, WorkerOk
  <2>2. \/ Finish(w)
        \/ \E pc \in {"recheck", "endpoints", "queryUnsync", "store"} : Goto(w, pc)
    BY <1>7 DEF CreateInPolaris, Recheck, Compare, Fail
  <2>3. QED
    BY <1>4, <1>5, <2>1, <2>2
<1>8. CASE ReadEndpoints(w)
  <2> DEFINE k == [worker[w] EXCEPT !.pc = "query", !.eps = eps[worker[w].svc]]
  <2>1. Finish(w) \/ worker' = [worker EXCEPT ![w] = k]
    BY <1>8 DEF ReadEndpoints, Fail
  <2>2. /\ DOMAIN k = DOMAIN IdleWorker /\ k.pc = "query"
        /\ k.svc = worker[w].svc /\ k.obj = worker[w].obj
    BY DEF AInv, Shaped, IdleWorker
  <2>3. worker[w].obj # NoSvc
    BY <1>8 DEF ReadEndpoints, Worker, AInv, WorkerOk
  <2>4. CASE worker' = [worker EXCEPT ![w] = k]
    <3> HIDE DEF k
    <3>1. QED
      BY <1>1, <1>2, <1>3, <2>2, <2>3, <2>4, MoveStep
  <2>5. QED
    BY <1>4, <2>1, <2>4
<1>9. CASE GetAllInstance(w)
  <2> DEFINE s == worker[w].svc
             k == [worker[w] EXCEPT !.pc = AfterQuery[@], !.view = registry[s]]
  <2>1. worker' = [worker EXCEPT ![w] = k]
    BY <1>9, NoFaults DEF GetAllInstance, AInv
  <2>2. /\ DOMAIN k = DOMAIN IdleWorker /\ k.pc = AfterQuery[worker[w].pc]
        /\ k.svc = s /\ k.obj = worker[w].obj /\ k.view = registry[s]
    BY DEF AInv, Shaped, IdleWorker
  <2>3. /\ k.pc \in {"add", "purge", "unsync"}
        /\ k.pc # "purge" => worker[w].obj # NoSvc
    BY <1>9, <2>2 DEF GetAllInstance, AfterQuery, AInv, WorkerOk
  <2> HIDE DEF k
  <2>4. QED
    BY <1>1, <1>2, <1>3, <2>1, <2>2, <2>3, MoveStep
<1>10. QED
  BY <1>6, <1>7, <1>8, <1>9

(* The three batches of processSyncInstance. *)
LEMMA WriteStep ==
  ASSUME AInv, Calm, NEW w \in Workers, [Next]_vars,
         AddInstances(w) \/ UpdateInstances(w) \/ DeleteInstances(w)
  PROVE  AInv'
<1> DEFINE s == worker[w].svc
<1>1. /\ UNCHANGED serviceCache
      /\ worker[w].obj # NoSvc /\ s \in Services
      /\ \E next \in {"update", "remove", "store"} : Goto(w, next)
  BY DEF AddInstances, UpdateInstances, DeleteInstances, Write, workerUnchanged,
     healthVars, Worker, AInv, WorkerOk, Shaped
<1>2. PICK view : DOMAIN view = Addrs /\ registry' = [registry EXCEPT ![s] = view]
  BY DEF AddInstances, UpdateInstances, DeleteInstances, Write
<1>3. orphans' = orphans \/ orphans' = [orphans EXCEPT ![s] = {}]
  BY DEF AddInstances, UpdateInstances, DeleteInstances
<1>4. \A t \in Services \ {s} : orphans'[t] = orphans[t]
  BY <1>3 DEF AInv, Shaped
<1>5. PICK k : /\ DOMAIN k = DOMAIN IdleWorker /\ k.pc \in {"update", "remove", "store"}
               /\ k.svc = s /\ k.obj = worker[w].obj
               /\ worker' = [worker EXCEPT ![w] = k]
  BY <1>1, GotoRecord DEF AInv
<1>6. Shaped' /\ worker'[w] = k
  BY <1>1, <1>2, <1>5, <1>3, ShapedWorker DEF AInv
<1>7. WorkerOk(w)' /\ Adding(w)'
  BY <1>1, <1>5, <1>6 DEF WorkerOk, Adding
<1>8. UsedOk'
  BY UsedStep DEF AInv
<1>9. \A t \in Services : Accounted(t)'
  BY <1>1, <1>2, <1>5, <1>6, <1>7, <1>4, BatchStep
<1>10. QED
  BY <1>1, <1>6, <1>7, <1>8, <1>9, WorkerAlone DEF AInv

(* processDeleteService: of the instances the worker saw, which are all there  *)
(* are, none is left but those that Polaris refused to delete, if there was no *)
(* error, and only fewer are left if there was one.                            *)
LEMMA DeleteAllResult ==
  ASSUME AInv, NEW w \in Workers, DeleteAllInstances(w), NEW s \in Services,
         worker[w].svc = s
  PROVE  /\ \A t \in Services \ {s} : registry'[t] = registry[t] /\ orphans'[t] = orphans[t]
         /\ Managed(registry[s])' \subseteq Managed(registry[s])
         /\ Remaining(s)' \subseteq Remaining(s)
         /\ \/ /\ Remaining(s)' = {} /\ Goto(w, AfterDelete[worker[w].pc])
               /\ UNCHANGED pending
            \/ /\ Finish(w) /\ pending' = Retried(PutBack(w), w)
               /\ Use("writes", MaxWriteFaults)
<1> DEFINE targets == Managed(worker[w].view)
<1>1. PICK reached \in SUBSET targets :
        /\ registry' = [registry EXCEPT ![s] = [a \in Addrs |-> Removed(w, reached, a)]]
        /\ \/ /\ orphans' = [orphans EXCEPT ![s] = targets \ reached]
              /\ Goto(w, AfterDelete[worker[w].pc]) /\ UNCHANGED pending
           \/ /\ UNCHANGED orphans /\ Finish(w) /\ pending' = Retried(PutBack(w), w)
              /\ Use("writes", MaxWriteFaults)
  BY DEF DeleteAllInstances, AllDeleted, Failed, Write
<1>2. Managed(registry[s]) \subseteq targets
  BY DEF DeleteAllInstances, AfterDelete, AInv, WorkerOk
<1>3. Managed(registry[s])' = Managed(registry[s]) \ reached
  <2>1. \A a \in Addrs : registry'[s][a] = IF a \in reached THEN NoInstance
                                          ELSE registry[s][a]
    BY <1>1 DEF AInv, Shaped, Removed
  <2>2. QED
    BY <2>1, ServiceSyncAssumption DEF Managed, IsSyncInstance
<1>4. \A t \in Services \ {s} : registry'[t] = registry[t] /\ orphans'[t] = orphans[t]
  BY <1>1 DEF AInv, Shaped
<1>5. orphans'[s] = orphans[s] \/ orphans'[s] = targets \ reached
  BY <1>1 DEF AInv, Shaped
<1>6. Remaining(s)' \subseteq Remaining(s)
  BY <1>2, <1>3, <1>5 DEF Remaining
<1>7. orphans' = [orphans EXCEPT ![s] = targets \ reached] => Remaining(s)' = {}
  BY <1>2, <1>3 DEF Remaining, AInv, Shaped
<1>8. QED
  BY <1>1, <1>3, <1>4, <1>6, <1>7

LEMMA DeleteAllStep ==
  ASSUME AInv, Calm, NEW w \in Workers, [Next]_vars, DeleteAllInstances(w)
  PROVE  AInv'
<1>1. PICK s \in Services : worker[w].svc = s /\ worker[w].pc \in {"purge", "unsync"}
  BY DEF DeleteAllInstances, AfterDelete, AInv, Shaped
<1>2. UNCHANGED serviceCache /\ ~Adding(w)
  BY <1>1 DEF DeleteAllInstances, AllDeleted, Write, Adding
<1>3. /\ \E view : DOMAIN view = Addrs /\ registry' = [registry EXCEPT ![s] = view]
      /\ UNCHANGED orphans \/ \E left : orphans' = [orphans EXCEPT ![s] = left]
  BY <1>1 DEF DeleteAllInstances, AllDeleted, Write
<1>4. PICK k : /\ DOMAIN k = DOMAIN IdleWorker /\ worker' = [worker EXCEPT ![w] = k]
               /\ \/ k.pc = "idle"
                  \/ /\ k.svc = s /\ k.obj = worker[w].obj
                     /\ k.pc = AfterDelete[worker[w].pc] /\ Remaining(s)' = {}
  <2>1. IdleWorker.pc = "idle"
    BY DEF IdleWorker
  <2>2. CASE Finish(w)
    BY <2>1, <2>2 DEF Finish
  <2>3. CASE ~Finish(w)
    BY <1>1, <2>3, DeleteAllResult, GotoRecord DEF AInv
  <2>4. QED
    BY <2>2, <2>3
<1>5. Shaped' /\ worker'[w] = k
  BY <1>1, <1>2, <1>3, <1>4, ShapedWorker DEF AInv
<1>6. WorkerOk(w)'
  <2>1. k.pc \in {"idle", "forget", "store"} /\ (k.pc = "store" => k.obj # NoSvc)
    BY <1>1, <1>4 DEF AfterDelete, AInv, WorkerOk
  <2>2. k.pc = "forget" => Remaining(k.svc)' = {}
    BY <1>4
  <2>3. QED
    BY <1>5, <2>1, <2>2 DEF WorkerOk, Remaining, Managed
<1>7. UsedOk'
  BY UsedStep DEF AInv
<1>8. \A t \in Services : Remaining(t)' \subseteq Remaining(t)
  BY <1>1, DeleteAllResult DEF Remaining, Managed
<1>9. QED
  BY <1>2, <1>5, <1>6, <1>7, <1>8, WorkerAlone, QuietStep DEF AInv

(* StoreCache has a service to store, ForgetCache nothing left behind. *)
LEMMA CacheStep ==
  ASSUME AInv, Calm, NEW w \in Workers, [Next]_vars, StoreCache(w) \/ ForgetCache(w)
  PROVE  AInv'
<1> DEFINE s == worker[w].svc
<1>1. /\ UNCHANGED <<registry, orphans>> /\ s \in Services
      /\ worker' = [worker EXCEPT ![w] = IdleWorker]
  BY DEF StoreCache, ForgetCache, CacheService, Finish, workerUnchanged, healthVars,
     polarisVars, Worker, AInv, Shaped
<1>2. PICK obj : /\ serviceCache' = [serviceCache EXCEPT ![s] = obj]
                 /\ obj # NoSvc \/ Remaining(s) = {}
  BY DEF StoreCache, ForgetCache, CacheService, Worker, AInv, WorkerOk
<1>3. IdleWorker.pc = "idle"
  BY DEF IdleWorker
<1>4. Shaped' /\ worker'[w] = IdleWorker
  BY <1>1, <1>2, <1>3, ShapedWorker DEF AInv
<1>5. WorkerOk(w)'
  BY <1>3, <1>4 DEF WorkerOk
<1>6. ASSUME NEW t \in Services PROVE Accounted(t)'
  <2>1. Remaining(t)' = Remaining(t)
    BY <1>1 DEF Managed, Remaining
  <2>2. CASE t = s
    BY <1>1, <1>2, <2>1, <2>2 DEF AInv, Shaped, Accounted
  <2>3. CASE t # s
    BY <1>2, <2>1, <2>3 DEF AInv, Shaped, Accounted, Calm
  <2>4. QED
    BY <2>2, <2>3
<1>7. UsedOk'
  BY UsedStep DEF AInv
<1>8. QED
  BY <1>1, <1>4, <1>5, <1>6, <1>7, WorkerAlone DEF AInv

LEMMA AInvStep == AInv /\ Calm /\ [Next]_vars => AInv'
<1> SUFFICES ASSUME AInv, Calm, [Next]_vars
             PROVE  AInv'
  OBVIOUS
<1>1. UsedOk'
  BY UsedStep DEF AInv
<1>2. ASSUME UNCHANGED <<worker, registry, orphans>>, DOMAIN serviceCache' = Services,
             \A s \in Services : serviceCache[s] # NoSvc => serviceCache'[s] # NoSvc
      PROVE  AInv'
  <2>1. Shaped'
    BY <1>2 DEF AInv, Shaped
  <2>2. \A s \in Services : Managed(registry[s])' \subseteq Managed(registry[s])
    BY <1>2 DEF Managed
  <2>3. QED
    BY <1>1, <1>2, <2>1, <2>2, OthersStep DEF AInv
<1>3. ASSUME UNCHANGED <<worker, registry, serviceCache, orphans>>
      PROVE  AInv'
  BY <1>2, <1>3 DEF AInv, Shaped
<1>4. CASE K8sChange
  <2>1. ASSUME NEW s \in Services, NEW a \in Addrs, ForeignRegister(s, a)
        PROVE  AInv'
    BY <1>1, <2>1, ForeignStep, OthersStep DEF AInv, ForeignRegister, controllerVars,
       cacheVars
  <2>2. ASSUME NEW annotation \in NsAnnotations, AnnotateNamespace(annotation)
        PROVE  AInv'
    BY <1>3, <2>2 DEF AnnotateNamespace, controllerVars, cacheVars, polarisVars
  <2>3. ASSUME NEW s \in Services, NEW obj, NEW type,
               ServiceChange(s, obj, type) \/ EndpointsChange(s, obj, type)
        PROVE  AInv'
    BY <1>3, <2>3 DEF ServiceChange, EndpointsChange, controllerVars, cacheVars, polarisVars
  <2>4. QED
    BY <1>4, <2>1, <2>2, <2>3 DEF K8sChange, CreateService, UpdateService, DeleteService,
       SetEndpoints, RemoveEndpoints
<1>5. CASE HandlerStores
  BY <1>2, <1>5 DEF HandlerStores, polarisVars, AInv, Shaped
<1>6. CASE HandleServiceEvent \/ HandleEndpointsEvent \/ HandleNamespaceEvent
           \/ \E s \in Services : Resync(s)
  BY <1>3, <1>6 DEF HandleServiceEvent, HandleEndpointsEvent, HandleNamespaceEvent,
     Resync, serviceEventUnchanged, cacheVars, polarisVars
<1>7. CASE CheckHealth
  <2>1. \/ UNCHANGED <<worker, registry, serviceCache, orphans>>
        \/ /\ UNCHANGED <<worker, registry>> /\ orphans' = Registered
           /\ serviceCache' = [s \in Services |-> NoSvc]
    BY <1>7 DEF CheckHealth, cacheVars, polarisVars
  <2>2. CASE orphans' = Registered /\ UNCHANGED <<worker, registry>>
             /\ serviceCache' = [s \in Services |-> NoSvc]
    <3>1. Shaped'
      BY <2>2 DEF AInv, Shaped, Registered
    <3>2. QED
      BY <1>1, <2>2, <3>1, ForgottenStep
  <2>3. QED
    BY <1>3, <2>1, <2>2
<1>8. CASE Restart \/ EndpointsTombstone
  <2>1. /\ UNCHANGED registry /\ orphans' = Registered
        /\ serviceCache' = [s \in Services |-> NoSvc]
        /\ worker' = [w \in Workers |-> IdleWorker]
    BY <1>8 DEF Restart, EndpointsTombstone, StartAnew
  <2>2. Shaped'
    BY <2>1 DEF AInv, Shaped, Registered, IdleWorker
  <2>3. \A w \in Workers : worker'[w].pc = "idle"
    BY <2>1 DEF IdleWorker
  <2>4. QED
    BY <1>1, <2>1, <2>2, <2>3, ForgottenStep
<1>9. ASSUME NEW w \in Workers, WorkerStep(w)
      PROVE  AInv'
  BY <1>9, LookStep, WriteStep, DeleteAllStep, CacheStep DEF WorkerStep
<1>10. ASSUME NEW w \in Workers, NEW s \in Services, NEW r \in Retries, TakeTask(w, s, r)
       PROVE  AInv'
  BY <1>10, TakeStep
<1>11. CASE UNCHANGED vars
  BY <1>3, <1>11 DEF vars, cacheVars, polarisVars
<1>12. QED
  BY <1>4, <1>5, <1>6, <1>7, <1>8, <1>9, <1>10, <1>11 DEF Next

-----------------------------------------------------------------------------
(* The inductive invariant: what the worker of syncService may rely on between *)
(* its query of Polaris and its last write.                                    *)
THEOREM AInvInvariant ==
  ASSUME Calm
  PROVE  Spec => []AInv
<1>1. AInv /\ [Next]_vars => AInv'
  BY AInvStep
<1>2. QED
  BY <1>1, InitAInv, PTL DEF Spec

(* service.go:146, processDeleteService is reached through serviceCache only: *)
(* whatever changes, whichever writes fail or are refused in part and however *)
(* often the process starts anew, an instance of this controller is never     *)
(* left registered for a service the cache does not know, but for those a     *)
(* refused deletion or the loss of the cache left, until the next sync.       *)
THEOREM AlwaysFound ==
  ASSUME Calm
  PROVE  Spec => []InstancesAccounted
BY AInvInvariant, InvAccounted, PTL
-----------------------------------------------------------------------------
(* A removal is never forgotten.  An instance of the controller may be left   *)
(* of a service that is gone, or not to be synced any more, only as long as   *)
(* the change has not been handled, or a task is queued that was not given up *)
(* on, or the worker is about to remove it.  What registers an instance after *)
(* the change is a worker that found the service before: that counts as an    *)
(* instance already.  Only what a refused deletion or the loss of the cache   *)
(* left is nobody's.                                                          *)
Announced(s) ==
  \E i \in 1..Len(svcEvents) :
    /\ svcEvents[i].svc = s
    /\ Live(svcEvents[i].old) /\ ~Live(svcEvents[i].new)
Queued(s) == \E r \in Retries : r <= used.writes /\ pending[s][r] > 0
Removing(k, s) ==
  /\ k.svc = s /\ ~Live(k.obj) /\ k.retries <= used.writes
  /\ k.pc \in {"lookup", "queryPurge", "purge", "compare", "queryUnsync", "unsync"}
UnderWay(s) ==
  Announced(s) \/ Queued(s) \/ \E w \in Workers : Removing(worker[w], s)

Registers(s) ==
  \/ Remaining(s) # {}
  \/ \E w \in Workers : worker[w].svc = s /\ Live(worker[w].obj)
Tracked(s) == ~IsLive(s) /\ Registers(s) => UnderWay(s)
Registering(k) == k.pc \in {"endpoints", "query", "add", "update", "remove"}

RInv ==
  /\ \A w \in Workers : Registering(worker[w]) => Live(worker[w].obj)
  /\ \A s \in Services : Tracked(s)

(* All that is known of a state, each part by its own invariant. *)
Known == TInv /\ HInv /\ AInv /\ RInv

(* The configurations the theorem is about: a write that fails is always *)
(* retried.                                                              *)
Retrying == Calm /\ Steady /\ MaxWriteFaults \in Nat /\ MaxWriteFaults <= MaxRetries

LEMMA InitRInv == ASSUME Init PROVE RInv
<1>1. ASSUME NEW w \in Workers PROVE worker[w].pc = "idle" /\ ~Live(worker[w].obj)
  BY DEF Init, IdleWorker, Live
<1>2. ASSUME NEW s \in Services PROVE Remaining(s) = {}
  BY ServiceSyncAssumption DEF Init, Remaining, Managed, IsSyncInstance, NoView
<1>3. QED
  BY <1>1, <1>2 DEF RInv, Tracked, Registers, Registering

(* The annotation of the namespace stays, and with it what is live. *)
LEMMA SameAnnotation ==
  ASSUME HInv, Steady, [Next]_vars
  PROVE  /\ UNCHANGED nsSync
         /\ \A s : svc'[s] = svc[s] => IsLive(s)' = IsLive(s)
<1>1. UNCHANGED nsSync
  BY HInvStep DEF HInv, StateOk, Steady
<1>2. QED
  BY <1>1 DEF IsLive, IsPolarisService

(* Insertions take nothing out of the queue. *)
MorePending == \A s \in Services, r \in Retries : pending[s][r] <= pending'[s][r]

LEMMA EnqueuedMore ==
  ASSUME NEW p \in Queue, NEW s \in Services, NEW r \in Retries
  PROVE  /\ \A t \in Services, x \in Retries : p[t][x] <= Enqueued(p, s, r)[t][x]
         /\ Enqueued(p, s, r)[s][r] > 0
<1>1. Enqueued(p, s, r)[s] = [p[s] EXCEPT ![r] = @ + 1]
  BY DEF Enqueued, Queue
<1>2. \A t \in Services \ {s} : Enqueued(p, s, r)[t] = p[t]
  BY DEF Enqueued, Queue
<1>3. \A t \in Services, x \in Retries : p[t][x] \in Nat
  BY DEF Queue
<1>4. p[s] \in [Retries -> Nat]
  BY DEF Queue
<1>5. \A x \in Retries : Enqueued(p, s, r)[s][x] = IF x = r THEN p[s][x] + 1 ELSE p[s][x]
  BY <1>1, <1>4
<1>6. QED
  BY <1>2, <1>3, <1>5

LEMMA StaysQueued ==
  ASSUME TInv, TInv', AInv, [Next]_vars, MorePending, NEW s \in Services, Queued(s)
  PROVE  Queued(s)'
<1>1. PICK r \in Retries : r <= used.writes /\ pending[s][r] > 0
  BY DEF Queued
<1>2. used.writes \in Nat /\ used'.writes \in Nat /\ used.writes <= used'.writes
  BY UsedStep DEF AInv, UsedOk
<1>3. pending[s][r] \in Nat /\ pending'[s][r] \in Nat /\ r \in Nat
  BY ZeroRetries DEF TInv, TasksTyped, Queue, Retries
<1>4. QED
  BY <1>1, <1>2, <1>3 DEF Queued, MorePending

-----------------------------------------------------------------------------
(* Steps in which no worker takes part. *)
LEMMA OthersTracked ==
  ASSUME Known, TInv', Retrying, [Next]_vars, UNCHANGED worker, MorePending,
         \A s \in Services : Remaining(s)' \subseteq Remaining(s),
         \A s \in Services : Announced(s) => (Announced(s) \/ Queued(s))',
         \A s \in Services : IsLive(s) => (IsLive(s) \/ Announced(s))'
  PROVE  RInv'
<1>1. UNCHANGED nsSync
  BY SameAnnotation DEF Known, Retrying
<1>2. \A w \in Workers : Live(worker[w].obj)' <=> Live(worker[w].obj)
  BY <1>1 DEF Live, IsPolarisService
<1>3. \A w \in Workers : (Registering(worker[w]) => Live(worker[w].obj))'
  BY <1>2 DEF Known, RInv, Registering
<1>4. ASSUME NEW s \in Services, ~IsLive(s)', Registers(s)'
      PROVE  UnderWay(s)'
  <2>1. CASE IsLive(s)
    BY <1>4, <2>1 DEF UnderWay
  <2>2. CASE ~IsLive(s)
    <3>1. Registers(s)
      BY <1>2, <1>4 DEF Registers
    <3>2. UnderWay(s)
      BY <2>2, <3>1 DEF Known, RInv, Tracked
    <3>3. CASE Queued(s)
      BY <3>3, StaysQueued DEF Known, UnderWay
    <3>4. CASE Announced(s)
      BY <3>4 DEF UnderWay
    <3>5. ASSUME NEW w \in Workers, Removing(worker[w], s)
          PROVE  Removing(worker[w], s)'
      <4>1. worker[w].retries \in Nat /\ used.writes \in Nat /\ used'.writes \in Nat
            /\ used.writes <= used'.writes
        BY UsedStep, ZeroRetries DEF Known, AInv, UsedOk, TInv, WorkersTyped, WorkerTyped,
           WorkerRecord, Retries
      <4>2. QED
        BY <1>2, <3>5, <4>1 DEF Removing
    <3>6. QED
      BY <3>2, <3>3, <3>4, <3>5 DEF UnderWay
  <2>3. QED
    BY <2>1, <2>2
<1>5. QED
  BY <1>3, <1>4 DEF RInv, Tracked

(* The same where neither Kubernetes nor Polaris changes. *)
LEMMA QuietTracked ==
  ASSUME Known, TInv', Retrying, [Next]_vars, UNCHANGED <<worker, svc, svcEvents>>,
         MorePending,
         \A s \in Services : Remaining(s)' \subseteq Remaining(s)
  PROVE  RInv'
<1>1. \A s \in Services : IsLive(s)' = IsLive(s)
  BY SameAnnotation DEF Known, Retrying
<1>2. UNCHANGED nsSync
  BY SameAnnotation DEF Known, Retrying
<1>3. \A s \in Services : Announced(s)' = Announced(s)
  BY <1>2 DEF Announced, Live, IsPolarisService
<1>4. QED
  BY <1>1, <1>3, OthersTracked

(* A change that ends the syncing of a service is notified of. *)
LEMMA ChangeTracked ==
  ASSUME Known, TInv', Retrying, [Next]_vars, NEW s \in Services, NEW obj \in Objs, NEW type,
         ServiceChange(s, obj, type)
  PROVE  RInv'
<1> DEFINE n == Len(svcEvents)
<1>1. PICK event : /\ event.svc = s /\ event.old = svc[s] /\ event.new = obj
                   /\ svc' = [svc EXCEPT ![s] = obj]
                   /\ svcEvents' = Append(svcEvents, event)
                   /\ UNCHANGED <<worker, registry, orphans, pending>>
  BY DEF ServiceChange, controllerVars, polarisVars
<1>2. /\ n \in Nat /\ Len(svcEvents') = n + 1
      /\ svcEvents'[n + 1] = event /\ \A i \in 1..n : svcEvents'[i] = svcEvents[i]
  BY <1>1 DEF Known, HInv, StateOk
<1>3. UNCHANGED nsSync
  BY SameAnnotation DEF Known, Retrying
<1>4. ASSUME NEW t \in Services, Announced(t)
      PROVE  Announced(t)'
  <2>1. PICK i \in 1..n : /\ svcEvents[i].svc = t
                          /\ Live(svcEvents[i].old) /\ ~Live(svcEvents[i].new)
    BY <1>4 DEF Announced
  <2>2. i \in 1..Len(svcEvents') /\ svcEvents'[i] = svcEvents[i]
    BY <1>2, <2>1
  <2> HIDE DEF n
  <2>3. QED
    BY <1>3, <2>1, <2>2 DEF Announced, Live, IsPolarisService
<1>5. ASSUME NEW t \in Services, IsLive(t), ~IsLive(t)'
      PROVE  Announced(t)'
  <2>1. t = s /\ svc'[s] = obj /\ svc[s] # NoSvc
    BY <1>1, <1>3, <1>5 DEF Known, HInv, StateOk, IsLive, IsPolarisService
  <2>2. Live(event.old)' /\ ~Live(event.new)'
    BY <1>1, <1>3, <1>5, <2>1 DEF Live, IsLive, IsPolarisService
  <2>3. n + 1 \in 1..Len(svcEvents')
    BY <1>2
  <2> HIDE DEF n
  <2>4. QED
    BY <1>1, <1>2, <1>3, <2>1, <2>2, <2>3 DEF Announced, Live, IsPolarisService
<1>6. MorePending
  <2>1. \A t \in Services, r \in Retries : pending[t][r] \in Nat
    BY DEF Known, TInv, TasksTyped, Queue
  <2>2. QED
    BY <1>1, <2>1 DEF MorePending
<1>7. \A t \in Services : Remaining(t)' \subseteq Remaining(t)
  BY <1>1 DEF Managed, Remaining
<1>8. QED
  BY <1>1, <1>4, <1>5, <1>6, <1>7, OthersTracked

(* onServiceUpdate, onServiceDelete: a service no longer to be synced is *)
(* enqueued, with all its retries.                                       *)
LEMMA HandleTracked ==
  ASSUME Known, TInv', Retrying, [Next]_vars, HandleServiceEvent
  PROVE  RInv'
<1> DEFINE n == Len(svcEvents)
<1>1. PICK event : event = Head(svcEvents)
  OBVIOUS
<1>2. /\ svcEvents' = Tail(svcEvents) /\ svcEvents # << >>
      /\ UNCHANGED <<svc, nsSync, worker, registry, orphans, used>>
  BY DEF HandleServiceEvent, serviceEventUnchanged, k8sVars, polarisVars
<1>3. /\ n \in Nat /\ n > 0 /\ event = svcEvents[1] /\ EventOk(event)
      /\ Len(Tail(svcEvents)) = n - 1
      /\ \A i \in 1..n - 1 : Tail(svcEvents)[i] = svcEvents[i + 1]
  BY <1>1, <1>2, HeadTailProperties DEF Known, HInv, StateOk
<1>4. event.svc \in Services /\ event.type \in {"add", "update", "delete"}
  BY <1>3 DEF EventOk, ServiceEvents
<1>5. pending \in Queue /\ 0 \in Retries /\ used'.writes \in Nat
  BY <1>2, ZeroRetries DEF Known, TInv, TasksTyped, AInv, UsedOk
<1>6. pending' = pending \/ Enqueue(event.svc)
  BY <1>1 DEF HandleServiceEvent, onServiceAdd, onServiceUpdate, onServiceDelete,
     EnqueueThenStore, Ignored
<1>7. MorePending
  <2>1. \A s \in Services, r \in Retries : pending[s][r] \in Nat
    BY <1>5 DEF Queue
  <2>2. QED
    BY <1>4, <1>5, <1>6, <2>1, EnqueuedMore DEF MorePending, Enqueue
<1>8. ASSUME Live(event.old), ~Live(event.new)
      PROVE  Queued(event.svc)'
  <2>1. Enqueue(event.svc)
    <3>1. event.type # "add"
      BY <1>3, <1>8 DEF EventOk, Live
    <3>2. CASE event.type = "update"
      BY <1>1, <1>3, <1>8, <3>2
         DEF HandleServiceEvent, onServiceUpdate, EnqueueThenStore, EventOk, Live
    <3>3. CASE event.type = "delete"
      BY <1>1, <1>8, <3>3 DEF HandleServiceEvent, onServiceDelete, EnqueueThenStore, Live
    <3>4. QED
      BY <1>4, <3>1, <3>2, <3>3
  <2>2. pending'[event.svc][0] > 0
    BY <1>4, <1>5, <2>1, EnqueuedMore DEF Enqueue
  <2>3. QED
    BY <1>5, <2>2 DEF Queued
<1>9. ASSUME NEW s \in Services, Announced(s)
      PROVE  (Announced(s) \/ Queued(s))'
  <2>1. PICK i \in 1..n : /\ svcEvents[i].svc = s
                          /\ Live(svcEvents[i].old) /\ ~Live(svcEvents[i].new)
    BY <1>9 DEF Announced
  <2>2. CASE i = 1
    BY <1>3, <1>8, <2>1, <2>2
  <2>3. CASE i # 1
    <3>1. i - 1 \in 1..Len(svcEvents') /\ svcEvents'[i - 1] = svcEvents[i]
      BY <1>2, <1>3, <2>1, <2>3
    <3> HIDE DEF n
    <3>2. QED
      BY <1>2, <2>1, <3>1 DEF Announced, Live, IsPolarisService
  <2>4. QED
    BY <2>2, <2>3
<1>10. \A s \in Services : Remaining(s)' \subseteq Remaining(s)
  BY <1>2 DEF Managed, Remaining
<1>11. \A s \in Services : IsLive(s)' = IsLive(s)
  BY <1>2, SameAnnotation DEF Known, Retrying
<1>12. QED
  BY <1>2, <1>7, <1>9, <1>10, <1>11, OthersTracked

(* The other handlers and the loops, none of which takes a task. *)
LEMMA LoopsTracked ==
  ASSUME Known, TInv', Retrying, [Next]_vars,
         \/ HandlerStores \/ HandleEndpointsEvent \/ HandleNamespaceEvent
         \/ CheckHealth \/ (\E s \in Services : Resync(s))
  PROVE  RInv'
<1>1. /\ UNCHANGED <<worker, svc, svcEvents, registry>>
      /\ orphans' = orphans \/ orphans' = Registered
  BY DEF HandlerStores, HandleEndpointsEvent, HandleNamespaceEvent, CheckHealth,
     Resync, k8sVars, eventVars, polarisVars
<1>2. \A s \in Services : Remaining(s)' \subseteq Remaining(s)
  <2>1. CASE UNCHANGED orphans
    BY <1>1, <2>1 DEF Managed, Remaining
  <2>2. CASE orphans' = Registered
    <3>1. \A s \in Services : Remaining(s)' = {}
      BY <1>1, <2>2 DEF Managed, Registered, Remaining
    <3>2. QED
      BY <3>1
  <2>3. QED
    BY <1>1, <2>1, <2>2
<1>3. pending \in Queue /\ 0 \in Retries
  BY ZeroRetries DEF Known, TInv, TasksTyped
<1>4. \A s \in Services, r \in Retries : pending[s][r] \in Nat
  BY <1>3 DEF Queue
<1>5. CASE UNCHANGED pending \/ \E s \in Services : Enqueue(s)
  <2>1. MorePending
    BY <1>3, <1>4, <1>5, EnqueuedMore DEF MorePending, Enqueue
  <2>2. QED
    BY <1>1, <1>2, <2>1, QuietTracked
<1>6. CASE HandleNamespaceEvent
  <2>1. PICK synced : pending' = [s \in Services |->
                         IF s \in synced THEN [pending[s] EXCEPT ![0] = @ + 1]
                         ELSE pending[s]]
    BY <1>6 DEF HandleNamespaceEvent
  <2>2. ASSUME NEW s \in Services, NEW r \in Retries
        PROVE  pending[s][r] <= pending'[s][r]
    <3>1. pending[s] \in [Retries -> Nat]
      BY <1>3 DEF Queue
    <3>2. QED
      BY <1>3, <1>4, <2>1, <3>1
  <2>3. MorePending
    BY <2>2 DEF MorePending
  <2>4. QED
    BY <1>1, <1>2, <2>3, QuietTracked
<1>7. CASE HandleEndpointsEvent
  <2>1. Head(epEvents) \in EpEvent
    BY <1>7, HeadTailProperties DEF HandleEndpointsEvent, Known, TInv, ClusterTyped
  <2>2. Head(epEvents).svc \in Services
    BY <2>1 DEF EpEvent
  <2>3. QED
    BY <1>5, <1>7, <2>2 DEF HandleEndpointsEvent
<1>8. QED
  BY <1>5, <1>6, <1>7 DEF HandlerStores, CheckHealth, Resync

LEMMA ClusterTracked ==
  ASSUME Known, TInv', Retrying, [Next]_vars, K8sChange
  PROVE  RInv'
<1>1. \A s \in Services, r \in Retries : pending[s][r] \in Nat
  BY DEF Known, TInv, TasksTyped, Queue
<1>2. ASSUME UNCHANGED <<worker, svc, svcEvents, pending>>,
             \A s \in Services : Remaining(s)' \subseteq Remaining(s)
      PROVE  RInv'
  <2>1. MorePending
    BY <1>1, <1>2 DEF MorePending
  <2>2. QED
    BY <1>2, <2>1, QuietTracked
<1>3. ASSUME NEW s \in Services, NEW a \in Addrs, ForeignRegister(s, a)
      PROVE  RInv'
  <2>1. \A t \in Services : Remaining(t)' \subseteq Remaining(t)
    BY <1>3, ForeignStep DEF Known, ForeignRegister, Remaining
  <2>2. QED
    BY <1>2, <1>3, <2>1 DEF ForeignRegister, controllerVars, k8sVars, eventVars
<1>4. ASSUME NEW annotation \in NsAnnotations, AnnotateNamespace(annotation)
      PROVE  RInv'
  BY <1>4 DEF AnnotateNamespace, Retrying, Steady, Known, HInv, StateOk
<1>5. ASSUME NEW s \in Services, NEW e, NEW type, EndpointsChange(s, e, type)
      PROVE  RInv'
  BY <1>2, <1>5 DEF EndpointsChange, controllerVars, polarisVars, Managed, Remaining
<1>6. ASSUME NEW s \in Services, NEW obj \in Objs, NEW type, ServiceChange(s, obj, type)
      PROVE  RInv'
  BY <1>6, ChangeTracked
<1>7. QED
  BY <1>3, <1>4, <1>5, <1>6 DEF K8sChange, CreateService, UpdateService, DeleteService,
     SetEndpoints, RemoveEndpoints, Objs

-----------------------------------------------------------------------------
(* The worker.  A task about a service that is not to be synced is looked up *)
(* and found to be so.                                                       *)
LEMMA TakeTracked ==
  ASSUME Known, TInv', Retrying, [Next]_vars, NEW w \in Workers, NEW s \in Services,
         NEW r \in Retries, TakeTask(w, s, r)
  PROVE  RInv'
<1>1. /\ pending' = [pending EXCEPT ![s][r] = @ - 1] /\ worker[w].pc = "idle"
      /\ UNCHANGED <<svc, nsSync, svcEvents, registry, orphans, used>>
  BY DEF TakeTask, workerUnchanged, k8sVars, eventVars, polarisVars, Worker
<1>2. PICK k : /\ worker' = [worker EXCEPT ![w] = k]
               /\ k.pc = "lookup" /\ k.svc = s /\ k.retries = r /\ k.obj = svc[s]
  <2> DEFINE k == [IdleWorker EXCEPT !.pc = "lookup", !.svc = s, !.retries = r,
                                    !.obj = svc[s]]
  <2>1. worker' = [worker EXCEPT ![w] = k]
    BY DEF TakeTask
  <2>2. k.pc = "lookup" /\ k.svc = s /\ k.retries = r /\ k.obj = svc[s]
    BY DEF IdleWorker
  <2>3. QED
    BY <2>1, <2>2
<1>3. worker'[w] = k /\ \A v \in Workers : v = w
  BY <1>2 DEF Known, AInv, Shaped, Retrying, Calm
<1>4. r \in Nat /\ used.writes \in Nat
  BY ZeroRetries DEF Retries, Known, AInv, UsedOk
<1>5. \A t \in Services, x \in Retries :
        pending'[t][x] = IF t = s /\ x = r THEN pending[t][x] - 1 ELSE pending[t][x]
  BY <1>1 DEF Known, TInv, TasksTyped, Queue
<1>6. worker[w].svc \notin Services
  BY <1>1, ServiceSyncAssumption DEF Known, TInv, WorkersTyped, WorkerTyped
<1>7. ASSUME NEW t \in Services, ~IsLive(t)', Registers(t)'
      PROVE  UnderWay(t)'
  <2>1. ~IsLive(t)
    BY <1>1, <1>7, SameAnnotation DEF Known, Retrying
  <2>2. Remaining(t)' = Remaining(t)
    BY <1>1 DEF Managed, Remaining
  <2>3. t = s => ~Live(k.obj)'
    BY <1>1, <1>2, <1>7 DEF IsLive, Live, IsPolarisService
  <2>4. Registers(t)
    BY <1>2, <1>3, <1>7, <2>2, <2>3 DEF Registers
  <2>5. Announced(t) \/ Queued(t)
    BY <1>3, <1>6, <2>1, <2>4 DEF Known, RInv, Tracked, UnderWay, Removing
  <2>6. CASE Announced(t)
    BY <1>1, <2>6 DEF UnderWay, Announced, Live, IsPolarisService
  <2>7. CASE t = s /\ r <= used.writes
    <3>1. Removing(worker[w], t)'
      BY <1>1, <1>2, <1>3, <2>3, <2>7 DEF Removing
    <3>2. QED
      BY <3>1 DEF UnderWay
  <2>8. CASE Queued(t) /\ ~(t = s /\ r <= used.writes)
    <3>1. PICK x \in Retries : x <= used.writes /\ pending[t][x] > 0
      BY <2>8 DEF Queued
    <3>2. pending'[t][x] = pending[t][x]
      BY <1>5, <2>8, <3>1
    <3>3. QED
      BY <1>1, <3>1, <3>2 DEF Queued, UnderWay
  <2>9. QED
    BY <2>5, <2>6, <2>7, <2>8
<1>8. \A v \in Workers : (Registering(worker[v]) => Live(worker[v].obj))'
  BY <1>2, <1>3 DEF Registering
<1>9. QED
  BY <1>7, <1>8 DEF RInv, Tracked

(* What a step of the worker has to show: of other services nothing changes,  *)
(* and where it was to remove the service's instances, it still is, or it has *)
(* put the task back, or it has removed them.                                 *)
LEMMA WorkerTracked ==
  ASSUME Known, TInv', Retrying, [Next]_vars, NEW w \in Workers, NEW k,
         worker' = [worker EXCEPT ![w] = k], UNCHANGED <<svc, svcEvents>>, MorePending,
         NEW s \in Services, worker[w].svc = s,
         (k.pc = "idle" /\ k.svc = Idle) \/ (k.svc = s /\ k.obj = worker[w].obj),
         Registering(k) => Live(worker[w].obj),
         \A t \in Services \ {s} : registry'[t] = registry[t] /\ orphans'[t] = orphans[t],
         ~Live(worker[w].obj) => Remaining(s)' \subseteq Remaining(s),
         Removing(worker[w], s) => Remaining(s)' = {} \/ Queued(s)' \/ Removing(k, s)'
  PROVE  RInv'
<1>1. UNCHANGED nsSync
  BY SameAnnotation DEF Known, Retrying
<1>2. worker'[w] = k /\ \A v \in Workers : v = w
  BY DEF Known, AInv, Shaped, Retrying, Calm
<1>3. Idle \notin Services
  BY ServiceSyncAssumption
<1>4. ASSUME NEW t \in Services, ~IsLive(t)', Registers(t)'
      PROVE  UnderWay(t)'
  <2>1. ~IsLive(t)
    BY <1>4, SameAnnotation DEF Known, Retrying
  <2>2. Registers(t)
    <3>1. CASE t = s /\ Live(worker[w].obj)
      BY <3>1 DEF Registers
    <3>2. CASE t = s /\ ~Live(worker[w].obj)
      <4>1. ~(k.svc = t /\ Live(k.obj)')
        BY <1>1, <1>3, <3>2 DEF Live, IsPolarisService
      <4>2. Remaining(t)' # {}
        BY <1>2, <1>4, <4>1 DEF Registers
      <4>3. QED
        BY <3>2, <4>2 DEF Registers
    <3>3. CASE t # s
      <4>1. Remaining(t)' = Remaining(t)
        BY <3>3 DEF Managed, Remaining
      <4>2. k.svc # t
        BY <1>3, <3>3
      <4>3. QED
        BY <1>2, <1>4, <4>1, <4>2 DEF Registers
    <3>4. QED
      BY <3>1, <3>2, <3>3
  <2>3. UnderWay(t)
    BY <2>1, <2>2 DEF Known, RInv, Tracked
  <2>4. CASE Announced(t)
    BY <1>1, <2>4 DEF UnderWay, Announced, Live, IsPolarisService
  <2>5. CASE Queued(t)
    BY <2>5, StaysQueued DEF Known, UnderWay
  <2>6. CASE Removing(worker[w], t)
    <3>1. t = s /\ ~Live(worker[w].obj)
      BY <2>6 DEF Removing
    <3>2. ~(k.svc = t /\ Live(k.obj)')
      BY <1>1, <1>3, <3>1 DEF Live, IsPolarisService
    <3>3. Remaining(t)' # {}
      BY <1>2, <1>4, <3>2 DEF Registers
    <3>4. Queued(t)' \/ Removing(k, t)'
      BY <2>6, <3>1, <3>3
    <3>5. QED
      BY <1>2, <3>4 DEF UnderWay
  <2>7. QED
    BY <1>2, <2>3, <2>4, <2>5, <2>6 DEF UnderWay
<1>5. \A v \in Workers : (Registering(worker[v]) => Live(worker[v].obj))'
  <2>1. Registering(k) => k.obj = worker[w].obj
    BY DEF Registering
  <2>2. QED
    BY <1>1, <1>2, <2>1 DEF Registering, Live, IsPolarisService
<1>6. QED
  BY <1>4, <1>5 DEF RInv, Tracked

(* processDeleteService failed: the task is put back (the service is gone) or *)
(* retried (it is not to be synced), which the failures so far have left room *)
(* for.                                                                       *)
LEMMA FailureQueued ==
  ASSUME Known, Retrying, NEW w \in Workers, NEW s \in Services, worker[w].svc = s,
         worker[w].pc \in {"purge", "unsync"}, Use("writes", MaxWriteFaults),
         worker[w].retries <= used.writes, pending' = Retried(PutBack(w), w)
  PROVE  Queued(s)'
<1> DEFINE r == worker[w].retries
<1>1. r \in Retries /\ r \in 0..MaxRetries /\ MaxRetries \in Nat /\ 0 \in Retries
  BY ZeroRetries DEF Known, TInv, WorkersTyped, WorkerTyped, WorkerRecord, Retries
<1>2. used.writes \in Nat /\ used'.writes = used.writes + 1 /\ used.writes < MaxWriteFaults
  BY DEF Use, Known, AInv, UsedOk
<1>3. PutBack(w) \in Queue
  BY RetriedTyped DEF Known, TInv, TasksTyped
<1>4. CASE r < MaxRetries
  <2>1. pending' = Enqueued(PutBack(w), s, r + 1) /\ r + 1 \in Retries
    BY <1>1, <1>4 DEF Retried, Retries
  <2>2. pending'[s][r + 1] > 0
    BY <1>3, <2>1, EnqueuedMore
  <2>3. r + 1 <= used'.writes
    BY <1>1, <1>2
  <2>4. QED
    BY <2>1, <2>2, <2>3 DEF Queued
<1>5. CASE ~(r < MaxRetries)
  <2>1. worker[w].pc = "purge"
    BY <1>1, <1>2, <1>5 DEF Retrying
  <2>2. pending' = Enqueued(pending, s, 0)
    BY <1>5, <2>1 DEF Retried, PutBack, Worker
  <2>3. pending'[s][0] > 0
    BY <1>1, <2>2, EnqueuedMore DEF Known, TInv, TasksTyped
  <2>4. QED
    BY <1>1, <1>2, <2>3 DEF Queued
<1>6. QED
  BY <1>4, <1>5

LEMMA RetriedMore ==
  ASSUME Known, NEW w \in Workers, worker[w].pc # "idle", NEW p \in {pending, PutBack(w)},
         pending' = Retried(p, w)
  PROVE  MorePending
<1> DEFINE s == worker[w].svc
           r == worker[w].retries
<1>1. /\ s \in Services /\ r \in 0..MaxRetries /\ MaxRetries \in Nat /\ 0 \in Retries
      /\ pending \in Queue /\ PutBack(w) \in Queue
  BY ZeroRetries, RetriedTyped
     DEF Known, TInv, WorkersTyped, TasksTyped, WorkerTyped, WorkerRecord, Retries
<1>2. r < MaxRetries => r + 1 \in Retries
  BY <1>1 DEF Retries
<1>3. \A t \in Services, x \in Retries :
        pending[t][x] \in Nat /\ PutBack(w)[t][x] \in Nat /\ Retried(p, w)[t][x] \in Nat
  <2>1. p \in Queue
    BY <1>1
  <2>2. Retried(p, w) \in Queue
    BY <2>1, RetriedTyped DEF Known, TInv
  <2>3. QED
    BY <1>1, <2>2 DEF Queue
<1>4. \A t \in Services, x \in Retries : pending[t][x] <= PutBack(w)[t][x]
  <2>1. CASE PutBack(w) = pending
    BY <1>3, <2>1
  <2>2. CASE PutBack(w) = Enqueued(pending, s, IF r < MaxRetries THEN r + 1 ELSE 0)
    BY <1>1, <1>2, <2>2, EnqueuedMore
  <2>3. QED
    BY <2>1, <2>2 DEF PutBack
<1>5. \A t \in Services, x \in Retries : p[t][x] <= Retried(p, w)[t][x]
  <2>1. CASE Retried(p, w) = p
    BY <1>3, <2>1
  <2>2. CASE Retried(p, w) = Enqueued(p, s, r + 1) /\ r < MaxRetries
    BY <1>1, <1>2, <2>2, EnqueuedMore
  <2>3. QED
    BY <2>1, <2>2 DEF Retried
<1>6. \A t \in Services, x \in Retries : p[t][x] \in Nat /\ pending[t][x] <= p[t][x]
  BY <1>3, <1>4
<1>7. QED
  BY <1>3, <1>5, <1>6 DEF MorePending

(* A step after which the worker goes on, or fails, about the same service. *)
LEMMA LookTracked ==
  ASSUME Known, TInv', Retrying, [Next]_vars, NEW w \in Workers,
         \/ LoadCache(w) \/ CreateInPolaris(w) \/ Recheck(w) \/ Compare(w)
         \/ ReadEndpoints(w) \/ GetAllInstance(w)
         \/ StoreCache(w) \/ ForgetCache(w)
  PROVE  RInv'
<1>1. PICK s \in Services : worker[w].svc = s /\ worker[w].pc # "idle"
  BY DEF LoadCache, CreateInPolaris, Recheck, Compare, ReadEndpoints, GetAllInstance,
     StoreCache, ForgetCache, Worker, AfterQuery, Known, AInv, Shaped
<1>2. UNCHANGED <<svc, svcEvents, registry, orphans>>
  BY DEF LoadCache, CreateInPolaris, Recheck, Compare, ReadEndpoints, GetAllInstance,
     StoreCache, ForgetCache, CacheService, onlyWorker, workerUnchanged, k8sVars, eventVars,
     polarisVars
<1>3. \A t \in Services : Remaining(t)' = Remaining(t)
  BY <1>2 DEF Managed, Remaining
<1>4. MorePending
  <2>1. CASE UNCHANGED pending
    <3>1. \A t \in Services, r \in Retries : pending[t][r] \in Nat
      BY DEF Known, TInv, TasksTyped, Queue
    <3>2. QED
      BY <2>1, <3>1 DEF MorePending
  <2>2. CASE pending' = Retried(pending, w)
    BY <1>1, <2>2, RetriedMore
  <2>3. QED
    BY <2>1, <2>2 DEF LoadCache, CreateInPolaris, Recheck, Compare, ReadEndpoints,
       GetAllInstance, StoreCache, ForgetCache, CacheService, onlyWorker, Fail
<1>5. ASSUME NEW k, worker' = [worker EXCEPT ![w] = k],
             (k.pc = "idle" /\ k.svc = Idle) \/ (k.svc = s /\ k.obj = worker[w].obj),
             Registering(k) => Live(worker[w].obj),
             Removing(worker[w], s) => Remaining(s) = {} \/ Removing(k, s)'
      PROVE  RInv'
  BY <1>1, <1>2, <1>3, <1>4, <1>5, WorkerTracked
<1>6. ASSUME Finish(w), Removing(worker[w], s) => Remaining(s) = {}
      PROVE  RInv'
  <2>1. PICK k : /\ k.pc = "idle" /\ k.svc = Idle
                 /\ worker' = [worker EXCEPT ![w] = k]
    BY <1>6 DEF Finish, IdleWorker
  <2>2. ~Registering(k)
    BY <2>1 DEF Registering
  <2>3. QED
    BY <1>5, <1>6, <2>1, <2>2
<1>7. UNCHANGED nsSync
  BY SameAnnotation DEF Known, Retrying
(* What the removing worker goes on with. *)
<1>8. ASSUME NEW k, k.svc = s, k.obj = worker[w].obj, k.retries = worker[w].retries,
             k.pc \in {"queryPurge", "compare", "queryUnsync", "purge", "unsync"},
             Removing(worker[w], s)
      PROVE  Removing(k, s)'
  <2>1. ~Live(k.obj)'
    BY <1>7, <1>8 DEF Removing, Live, IsPolarisService
  <2>2. k.retries <= used'.writes
    <3>1. worker[w].retries \in Nat /\ used.writes \in Nat /\ used'.writes \in Nat
          /\ used.writes <= used'.writes
      BY UsedStep, ZeroRetries DEF Known, AInv, UsedOk, TInv, WorkersTyped, WorkerTyped,
         WorkerRecord, Retries
    <3>2. QED
      BY <1>8, <3>1 DEF Removing
  <2>3. QED
    BY <1>8, <2>1, <2>2 DEF Removing
<1>9. ASSUME NEW pc, Goto(w, pc), Registering([pc |-> pc]) => Live(worker[w].obj),
             Removing(worker[w], s) =>
               pc = "queryUnsync"
      PROVE  RInv'
  <2>1. PICK k : /\ DOMAIN k = DOMAIN IdleWorker /\ k.pc = pc
                 /\ k.svc = s /\ k.obj = worker[w].obj /\ k.retries = worker[w].retries
                 /\ worker' = [worker EXCEPT ![w] = k]
    BY <1>1, <1>9, GotoRecord DEF Known, AInv
  <2>2. Registering(k) => Live(worker[w].obj)
    BY <1>9, <2>1 DEF Registering
  <2>3. Removing(worker[w], s) => Removing(k, s)'
    BY <1>8, <1>9, <2>1
  <2>4. QED
    BY <1>5, <2>1, <2>2, <2>3
<1>10. CASE LoadCache(w)
  <2>1. PICK cached : cached = serviceCache[s]
    OBVIOUS
  <2>2. PICK next : next = IF worker[w].obj = NoSvc THEN "queryPurge"
                           ELSE IF cached = NoSvc THEN "create" ELSE "compare"
    OBVIOUS
  <2>3. PICK k : k = [worker[w] EXCEPT !.pc = next,
                        !.cached = IF next = "compare" THEN cached ELSE NoSvc]
    OBVIOUS
  <2>4. \/ Finish(w) /\ cached = NoSvc
        \/ worker' = [worker EXCEPT ![w] = k] /\ (worker[w].obj = NoSvc => cached # NoSvc)
    BY <1>1, <1>10, <2>1, <2>2, <2>3 DEF LoadCache
  <2>5. /\ DOMAIN k = DOMAIN IdleWorker /\ k.pc = next
        /\ k.svc = s /\ k.obj = worker[w].obj /\ k.retries = worker[w].retries
    BY <1>1, <2>3 DEF Known, AInv, Shaped, IdleWorker
  <2>6. cached = NoSvc => Remaining(s) = {}
    <3>1. \A v \in Workers : ~Adding(v)
      BY <1>10 DEF LoadCache, Worker, Adding, Retrying, Calm
    <3>2. QED
      BY <2>1, <3>1 DEF Known, AInv, Accounted
  <2>7. CASE worker' = [worker EXCEPT ![w] = k] /\ (worker[w].obj = NoSvc => cached # NoSvc)
    <3>1. next \in {"queryPurge", "compare"} \/ (next = "create" /\ cached = NoSvc)
      BY <2>2
    <3>2. ~Registering(k)
      BY <2>5, <3>1 DEF Registering
    <3>3. Removing(worker[w], s) => Remaining(s) = {} \/ Removing(k, s)'
      BY <1>8, <2>5, <2>6, <3>1
    <3>4. QED
      BY <1>5, <2>5, <2>7, <3>2, <3>3
  <2>8. QED
    BY <1>6, <2>4, <2>6, <2>7
<1>11. CASE CreateInPolaris(w) \/ Recheck(w) \/ Compare(w)
  <2>1. worker[w].obj # NoSvc
    BY <1>11 DEF CreateInPolaris, Recheck, Compare, Worker, Known, AInv, WorkerOk
  <2>2. Compare(w) \/ ~Removing(worker[w], s)
    BY <1>11 DEF CreateInPolaris, Recheck, Worker, Removing
  <2>3. \/ Finish(w) /\ ~Compare(w)
        \/ Goto(w, "recheck") /\ ~Compare(w)
        \/ IsPolarisService(worker[w].obj) /\ (Goto(w, "endpoints") \/ Goto(w, "store"))
        \/ Goto(w, "queryUnsync")
    BY <1>11 DEF CreateInPolaris, Recheck, Compare, Fail, Worker
  <2>4. Live(worker[w].obj) <=> IsPolarisService(worker[w].obj)
    BY <2>1 DEF Live
  <2>5. QED
    BY <1>6, <1>9, <2>2, <2>3, <2>4 DEF Registering, Removing
<1>12. CASE ReadEndpoints(w)
  <2>1. PICK k : k = [worker[w] EXCEPT !.pc = "query", !.eps = eps[worker[w].svc]]
    OBVIOUS
  <2>2. Finish(w) \/ worker' = [worker EXCEPT ![w] = k]
    BY <1>12, <2>1 DEF ReadEndpoints, Fail
  <2>3. k.pc = "query" /\ k.svc = s /\ k.obj = worker[w].obj
    BY <1>1, <2>1 DEF Known, AInv, Shaped, IdleWorker
  <2>4. Live(worker[w].obj) /\ ~Removing(worker[w], s)
    BY <1>12 DEF ReadEndpoints, Worker, Known, RInv, Registering, Removing
  <2>5. QED
    BY <1>5, <1>6, <2>2, <2>3, <2>4
<1>13. CASE GetAllInstance(w)
  <2>1. PICK k : k = [worker[w] EXCEPT !.pc = AfterQuery[@], !.view = registry[s]]
    OBVIOUS
  <2>2. worker' = [worker EXCEPT ![w] = k]
    BY <1>1, <1>13, <2>1, NoFaults DEF GetAllInstance, Known, AInv, Retrying
  <2>3. /\ k.pc = AfterQuery[worker[w].pc] /\ k.svc = s
        /\ k.obj = worker[w].obj /\ k.retries = worker[w].retries
    BY <1>1, <2>1 DEF Known, AInv, Shaped, IdleWorker
  <2>4. \/ worker[w].pc = "query" /\ k.pc = "add"
        \/ worker[w].pc # "query" /\ k.pc \in {"purge", "unsync"}
    BY <1>13, <2>3 DEF GetAllInstance, AfterQuery
  <2>5. Registering(k) => Live(worker[w].obj)
    BY <2>4 DEF Known, RInv, Registering
  <2>6. Removing(worker[w], s) => Removing(k, s)'
    BY <1>8, <2>3, <2>4 DEF Removing
  <2>7. QED
    BY <1>5, <2>2, <2>3, <2>5, <2>6
<1>14. CASE StoreCache(w) \/ ForgetCache(w)
  BY <1>6, <1>14 DEF StoreCache, ForgetCache, CacheService, Worker, Removing
<1>15. QED
  BY <1>10, <1>11, <1>12, <1>13, <1>14

(* The batches of processSyncInstance, made by workers that found the service *)
(* to be synced.                                                              *)
LEMMA BatchTracked ==
  ASSUME Known, TInv', Retrying, [Next]_vars, NEW w \in Workers,
         AddInstances(w) \/ UpdateInstances(w) \/ DeleteInstances(w)
  PROVE  RInv'
<1>1. PICK s \in Services : worker[w].svc = s /\ worker[w].pc \in {"add", "update", "remove"}
  BY DEF AddInstances, UpdateInstances, DeleteInstances, Worker, Known, AInv, Shaped
<1>2. /\ UNCHANGED <<svc, svcEvents, pending>>
      /\ \E view : registry' = [registry EXCEPT ![s] = view]
      /\ \E next : Goto(w, next)
  BY <1>1 DEF AddInstances, UpdateInstances, DeleteInstances, Write, workerUnchanged,
     k8sVars, eventVars
<1>3. orphans' = orphans \/ orphans' = [orphans EXCEPT ![s] = {}]
  BY <1>1 DEF AddInstances, UpdateInstances, DeleteInstances
<1>4. \A t \in Services \ {s} : registry'[t] = registry[t] /\ orphans'[t] = orphans[t]
  BY <1>2, <1>3 DEF Known, AInv, Shaped
<1>5. MorePending
  <2>1. \A t \in Services, r \in Retries : pending[t][r] \in Nat
    BY DEF Known, TInv, TasksTyped, Queue
  <2>2. QED
    BY <1>2, <2>1 DEF MorePending
<1>6. PICK k : /\ k.svc = s /\ k.obj = worker[w].obj
               /\ worker' = [worker EXCEPT ![w] = k]
  BY <1>1, <1>2, GotoRecord DEF Known, AInv
<1>7. Live(worker[w].obj)
  BY <1>1 DEF Known, RInv, Registering
<1>8. ~Removing(worker[w], s)
  BY <1>1 DEF Removing
<1>9. QED
  BY <1>1, <1>2, <1>4, <1>5, <1>6, <1>7, <1>8, WorkerTracked

(* processDeleteService: nothing is left but what Polaris refused to delete, *)
(* or the task is queued again.                                              *)
LEMMA DeleteTracked ==
  ASSUME Known, TInv', Retrying, [Next]_vars, NEW w \in Workers, DeleteAllInstances(w)
  PROVE  RInv'
<1>1. PICK s \in Services : worker[w].svc = s /\ worker[w].pc \in {"purge", "unsync"}
  BY DEF DeleteAllInstances, AfterDelete, Known, AInv, Shaped
<1>2. /\ \A t \in Services \ {s} : registry'[t] = registry[t] /\ orphans'[t] = orphans[t]
      /\ Remaining(s)' \subseteq Remaining(s)
      /\ \/ /\ Remaining(s)' = {} /\ Goto(w, AfterDelete[worker[w].pc])
            /\ UNCHANGED pending
         \/ /\ Finish(w) /\ pending' = Retried(PutBack(w), w)
            /\ Use("writes", MaxWriteFaults)
  BY <1>1, DeleteAllResult DEF Known
<1>3. UNCHANGED <<svc, svcEvents>>
  BY DEF DeleteAllInstances, AllDeleted, Write, workerUnchanged, k8sVars, eventVars
<1>4. MorePending
  <2>1. CASE UNCHANGED pending
    <3>1. \A t \in Services, r \in Retries : pending[t][r] \in Nat
      BY DEF Known, TInv, TasksTyped, Queue
    <3>2. QED
      BY <2>1, <3>1 DEF MorePending
  <2>2. CASE pending' = Retried(PutBack(w), w)
    BY <1>1, <2>2, RetriedMore
  <2>3. QED
    BY <1>2, <2>1, <2>2
<1>5. CASE Remaining(s)' = {} /\ Goto(w, AfterDelete[worker[w].pc])
  <2>1. PICK k : /\ k.pc = AfterDelete[worker[w].pc] /\ k.svc = s /\ k.obj = worker[w].obj
                 /\ worker' = [worker EXCEPT ![w] = k]
    BY <1>1, <1>5, GotoRecord DEF Known, AInv
  <2>2. ~Registering(k)
    BY <1>1, <2>1 DEF Registering, AfterDelete
  <2>3. QED
    BY <1>1, <1>2, <1>3, <1>4, <1>5, <2>1, <2>2, WorkerTracked
<1>6. CASE /\ Use("writes", MaxWriteFaults) /\ pending' = Retried(PutBack(w), w)
           /\ Finish(w)
  <2>1. PICK k : /\ k.pc = "idle" /\ k.svc = Idle
                 /\ worker' = [worker EXCEPT ![w] = k]
    BY <1>6 DEF Finish, IdleWorker
  <2>2. ~Registering(k)
    BY <2>1 DEF Registering
  <2>3. Removing(worker[w], s) => Queued(s)'
    BY <1>1, <1>6, FailureQueued DEF Removing
  <2>4. QED
    BY <1>1, <1>2, <1>3, <1>4, <2>1, <2>2, <2>3, WorkerTracked
<1>7. QED
  BY <1>2, <1>5, <1>6

(* A new process has no worker at work, and whatever it finds registered it *)
(* does not know of.                                                        *)
LEMMA AnewTracked ==
  ASSUME Known, StartAnew
  PROVE  RInv'
<1>1. \A w \in Workers : worker'[w].pc = "idle" /\ worker'[w].svc = Idle
  BY DEF StartAnew, IdleWorker
<1>2. \A s \in Services : Remaining(s)' = {}
  BY DEF StartAnew, Registered, Remaining, Managed
<1>3. \A s \in Services : ~Registers(s)'
  BY <1>1, <1>2, ServiceSyncAssumption DEF Registers
<1>4. QED
  BY <1>1, <1>3 DEF RInv, Tracked, Registering

LEMMA RInvStep == Known /\ TInv' /\ Retrying /\ [Next]_vars => RInv'
<1> SUFFICES ASSUME Known, TInv', Retrying, [Next]_vars
             PROVE  RInv'
  OBVIOUS
<1>1. ASSUME NEW w \in Workers, WorkerStep(w)
      PROVE  RInv'
  BY <1>1, LookTracked, BatchTracked, DeleteTracked DEF WorkerStep
<1>2. ASSUME NEW w \in Workers, NEW s \in Services, NEW r \in Retries, TakeTask(w, s, r)
      PROVE  RInv'
  BY <1>2, TakeTracked
<1>3. CASE Restart \/ EndpointsTombstone
  BY <1>3, AnewTracked DEF Restart, EndpointsTombstone
<1>4. CASE UNCHANGED vars
  <2>1. UNCHANGED <<worker, svc, svcEvents, pending, registry>>
    BY <1>4 DEF vars, k8sVars, eventVars, polarisVars
  <2>2. \A s \in Services, r \in Retries : pending[s][r] \in Nat
    BY DEF Known, TInv, TasksTyped, Queue
  <2>3. QED
    BY <1>4, <2>1, <2>2, QuietTracked DEF MorePending, Managed, Remaining, vars, polarisVars
<1>5. QED
  BY <1>1, <1>2, <1>3, <1>4, ClusterTracked, HandleTracked, LoopsTracked DEF Next

(* The inductive invariant: from the change to the removal there is always    *)
(* somebody who knows of it (onServiceUpdate, onServiceDelete, the task queue *)
(* and syncService).                                                          *)
THEOREM RemovalTracked ==
  ASSUME Retrying
  PROVE  Spec => []Known
<1>1. Known /\ [Next]_vars => Known'
  BY NextTInv, HInvStep, AInvStep, RInvStep DEF Known, Retrying
<1>2. Init => Known
  BY InitTInv, InitHInv, InitAInv, InitRInv DEF Known
<1>3. QED
  BY <1>1, <1>2, PTL DEF Spec

(* No event about a service is left to be handled, no task is queued and no *)
(* worker is on its way.                                                    *)
AtRest ==
  /\ svcEvents = << >>
  /\ \A s \in Services, r \in Retries : pending[s][r] = 0
  /\ \A w \in Workers : worker[w].pc = "idle"
RemovedAtRest == AtRest => \A s \in Services : ~IsLive(s) => Remaining(s) = {}

(* service.go:145, the safety half of RemovedConverges: at rest nothing is     *)
(* registered of a service that is gone or not to be synced any more, whenever *)
(* that was decided and whatever failed meanwhile, without help of a resync,   *)
(* but for what a refused deletion or a process that lost its cache, by an     *)
(* outage, a restart or a tombstone, left behind.                              *)
THEOREM RemovedWhenAtRest ==
  ASSUME Retrying
  PROVE  Spec => []RemovedAtRest
<1>1. Known => RemovedAtRest
  <2> SUFFICES ASSUME Known, AtRest, NEW s \in Services, ~IsLive(s), Remaining(s) # {}
               PROVE  FALSE
    BY DEF RemovedAtRest
  <2>1. UnderWay(s)
    BY DEF Known, RInv, Tracked, Registers
  <2>2. ~Announced(s)
    BY DEF AtRest, Announced
  <2>3. ~Queued(s)
    BY DEF AtRest, Queued
  <2>4. \A w \in Workers : ~Removing(worker[w], s)
    BY DEF AtRest, Removing
  <2>5. QED
    BY <2>1, <2>2, <2>3, <2>4 DEF UnderWay
<1>2. QED
  BY <1>1, RemovalTracked, PTL
=============================================================================
