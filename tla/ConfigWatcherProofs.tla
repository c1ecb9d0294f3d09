------------------------- MODULE ConfigWatcherProofs -------------------------
(***************************************************************************)
(* Nothing goes round in circles between the two directions of             *)
(* ConfigWatcher, for any files, ConfigMaps, names and bounds.             *)
(*                                                                         *)
(* NoCycle is not inductive: it bounds what is stored on either side, and  *)
(* says neither what a fetch has under way nor that what can be sent to    *)
(* Polaris has made no hop at all.                                         *)
(*                                                                         *)
(* Then the types, for which the hops are part of the invariant, and what  *)
(* the executor has on its queues the rest.                                *)
(***************************************************************************)
EXTENDS ConfigWatcher, FiniteSetTheorems, SequenceTheorems, TLAPS

(* A file has made a hop at most, a ConfigMap two and, unless it says that it *)
(* came from Polaris, none; a fetch carries what a file was.                  *)
FileHops ==
  file \in [Files -> [present : BOOLEAN, tagged : BOOLEAN, fromK8s : BOOLEAN,
                      hops : {0, 1}, version : Nat]]

CmOk(cm) ==
  cm # NoCm => /\ cm \in [fromPolaris : BOOLEAN, tagged : BOOLEAN,
                          hops : {0, 1, 2}, version : Nat]
               /\ ~cm.fromPolaris => cm.hops = 0

CmHops == DOMAIN cms = CmNames /\ \A n \in CmNames : CmOk(cms[n])

FetchHops ==
  fetch \in [Files -> [pc : {"idle", "fetch", "create", "update"},
                       hops : {0, 1}, version : Nat]]

IInv == FileHops /\ CmHops /\ FetchHops

-----------------------------------------------------------------------------
LEMMA InitIInv == Init => IInv
BY DEF Init, IInv, FileHops, CmHops, CmOk, FetchHops, NoFile, NoFetch

LEMMA InvNoCycle == IInv => NoCycle
BY DEF IInv, FileHops, CmHops, CmOk, NoCycle

(* What is written to a file, a ConfigMap or a fetch keeps the invariant. *)
LEMMA WriteFileHops ==
  ASSUME FileHops, NEW f \in Files, NEW tagged \in BOOLEAN, NEW fromK8s \in BOOLEAN,
         NEW hops \in {0, 1}, WriteFile(f, tagged, fromK8s, hops)
  PROVE  FileHops'
<1>1. file[f].version + 1 \in Nat
  BY DEF FileHops
<1>2. [present |-> TRUE, tagged |-> tagged, hops |-> hops, fromK8s |-> fromK8s,
       version |-> file[f].version + 1]
        \in [present : BOOLEAN, tagged : BOOLEAN, fromK8s : BOOLEAN,
             hops : {0, 1}, version : Nat]
  BY <1>1
<1>3. QED
  BY <1>2 DEF FileHops, WriteFile

LEMMA SetCmHops ==
  ASSUME CmHops, NEW n, NEW cm, CmOk(cm), SetCm(n, cm)
  PROVE  CmHops'
BY DEF CmHops, CmOk, SetCm

LEMMA MirrorOk ==
  ASSUME FetchHops, NEW f \in Files
  PROVE  CmOk(Mirror(f))
<1>1. fetch[f].hops \in {0, 1} /\ fetch[f].version \in Nat
  BY DEF FetchHops
<1>2. QED
  BY <1>1 DEF CmOk, Mirror

-----------------------------------------------------------------------------
(* Only what has made no hop is sent to Polaris: IsPolarisConfigMap. *)
LEMMA SyncStep ==
  ASSUME IInv, NEW n \in CmNames, SyncConfigMap(n)
  PROVE  FileHops'
<1>1. PushedAs[n] \in Files
  BY ConfigWatcherAssumption DEF SyncConfigMap
<1>2. CASE IsPolarisConfigMap(cms[n])
           /\ WriteFile(PushedAs[n], cms[n].tagged, TRUE, cms[n].hops + 1)
  <2>1. cms[n].tagged \in BOOLEAN /\ cms[n].hops + 1 \in {0, 1}
    BY <1>2 DEF IInv, CmHops, CmOk, IsPolarisConfigMap
  <2>2. QED
    BY <1>1, <1>2, <2>1, WriteFileHops DEF IInv
<1>3. CASE file' = [file EXCEPT ![PushedAs[n]].present = FALSE]
  BY <1>1, <1>3 DEF IInv, FileHops
<1>4. CASE file' = file
  BY <1>4 DEF IInv, FileHops
<1>5. CASE file' = [file EXCEPT ![PushedAs[n]].version = @ + 1]
  <2>1. file[PushedAs[n]].version + 1 \in Nat
    BY <1>1 DEF IInv, FileHops
  <2>2. QED
    BY <1>1, <1>5, <2>1 DEF IInv, FileHops
<1>6. QED
  BY <1>2, <1>3, <1>4, <1>5 DEF SyncConfigMap

(* The files: users and the other direction write them. *)
LEMMA FileStep ==
  ASSUME IInv, [Next]_vars
  PROVE  FileHops'
<1>1. ASSUME NEW f \in Files, NEW tagged \in BOOLEAN, PutFile(f, tagged)
      PROVE  FileHops'
  BY <1>1, WriteFileHops DEF PutFile, IInv
<1>2. ASSUME NEW f \in Files, RemoveFile(f)
      PROVE  FileHops'
  BY <1>2 DEF RemoveFile, IInv, FileHops
<1>3. ASSUME NEW n \in CmNames, SyncConfigMap(n)
      PROVE  FileHops'
  BY <1>3, SyncStep
<1>4. CASE UNCHANGED file
  BY <1>4 DEF IInv, FileHops
<1>5. CASE Users
  BY <1>1, <1>2, <1>4, <1>5
     DEF Users, PutCm, RemoveCm, CreateNamespace, DeleteNamespace
<1>6. CASE Watcher \/ WatchEnds \/ StreamBreaks \/ FetchResources
           \/ ReceiveGroups \/ ReceiveConfigFiles
  BY <1>4, <1>6 DEF Watcher, ListNamespaces, OpenWatch, WatchNamespaces, WatchEnds,
     StreamBreaks, FetchResources, ReceiveGroups, ReceiveConfigFiles, nsUnchanged
<1>7. ASSUME NEW f \in Files, Handle(f) \/ FetchFails(f)
      PROVE  FileHops'
  BY <1>4, <1>7 DEF Handle, SyncFile, DropFile, Executor, FetchConfigFile, CreateCm,
     UpdateCm, FetchFails, fetchUnchanged
<1>8. CASE UNCHANGED vars
  BY <1>4, <1>8 DEF vars
<1>9. QED
  BY <1>3, <1>5, <1>6, <1>7, <1>8 DEF Next

(* The ConfigMaps: what users write has made no hop, what a fetch writes says *)
(* where it came from.                                                        *)
LEMMA CmStep ==
  ASSUME IInv, [Next]_vars
  PROVE  CmHops'
<1> CmOk(NoCm)
  BY DEF CmOk
<1>1. ASSUME NEW n \in DOMAIN PushedAs, NEW tagged \in CmTags, PutCm(n, tagged)
      PROVE  CmHops'
  <2>1. CmOk([fromPolaris |-> FALSE, tagged |-> tagged, hops |-> 0, version |-> 0])
    BY ConfigWatcherAssumption DEF CmOk, ConfigWatcherAssumption
  <2>2. QED
    BY <1>1, <2>1, SetCmHops DEF PutCm, IInv
<1>2. ASSUME NEW n \in DOMAIN PushedAs, RemoveCm(n)
      PROVE  CmHops'
  BY <1>2, SetCmHops DEF RemoveCm, IInv
<1>3. CASE DeleteNamespace
  BY <1>3 DEF DeleteNamespace, CmHops
<1>4. ASSUME NEW f \in Files, DropFile(f)
      PROVE  CmHops'
  BY <1>4, SetCmHops DEF DropFile, IInv, CmHops
<1>5. ASSUME NEW f \in Files, CreateCm(f)
      PROVE  CmHops'
  BY <1>5, SetCmHops, MirrorOk DEF CreateCm, IInv, CmHops
<1>6. ASSUME NEW f \in Files, UpdateCm(f)
      PROVE  CmHops'
  BY <1>6, SetCmHops, MirrorOk DEF UpdateCm, IInv, CmHops
<1>7. CASE UNCHANGED cms
  BY <1>7 DEF IInv, CmHops
<1>8. CASE Users
  BY <1>1, <1>2, <1>3, <1>7, <1>8
     DEF Users, PutFile, RemoveFile, CreateNamespace
<1>9. CASE Watcher \/ WatchEnds \/ StreamBreaks \/ FetchResources
           \/ ReceiveGroups \/ ReceiveConfigFiles
  BY <1>7, <1>9 DEF Watcher, ListNamespaces, OpenWatch, WatchNamespaces, WatchEnds,
     StreamBreaks, FetchResources, ReceiveGroups, ReceiveConfigFiles, nsUnchanged
<1>10. ASSUME NEW f \in Files, Handle(f) \/ FetchFails(f)
       PROVE  CmHops'
  BY <1>4, <1>5, <1>6, <1>7, <1>10 DEF Handle, SyncFile, Executor, FetchConfigFile,
     FetchFails
<1>11. ASSUME NEW n \in CmNames, SyncConfigMap(n)
       PROVE  CmHops'
  BY <1>7, <1>11 DEF SyncConfigMap
<1>12. CASE UNCHANGED vars
  BY <1>7, <1>12 DEF vars
<1>13. QED
  BY <1>8, <1>9, <1>10, <1>11, <1>12 DEF Next

(* The fetches: what one carries it has read from a file. *)
LEMMA FetchStep ==
  ASSUME IInv, [Next]_vars
  PROVE  FetchHops'
<1>1. ASSUME NEW f \in Files, SyncFile(f)
      PROVE  FetchHops'
  BY <1>1 DEF SyncFile, IInv, FetchHops
<1>2. ASSUME NEW f \in Files, FetchDone(f)
      PROVE  FetchHops'
  BY <1>2 DEF FetchDone, NoFetch, IInv, FetchHops
<1>3. ASSUME NEW f \in Files, FetchConfigFile(f)
      PROVE  FetchHops'
  <2>1. [pc |-> "create", hops |-> file[f].hops, version |-> file[f].version]
          \in [pc : {"idle", "fetch", "create", "update"}, hops : {0, 1},
               version : Nat]
    BY DEF IInv, FileHops
  <2>2. QED
    BY <1>2, <1>3, <2>1 DEF FetchConfigFile, FetchGoesOn, IInv, FetchHops
<1>4. ASSUME NEW f \in Files, CreateCm(f)
      PROVE  FetchHops'
  BY <1>2, <1>4 DEF CreateCm, FetchGoesOn, IInv, FetchHops
<1>5. ASSUME NEW f \in Files, UpdateCm(f) \/ FetchFails(f)
      PROVE  FetchHops'
  BY <1>2, <1>5 DEF UpdateCm, FetchFails
<1>6. CASE UNCHANGED fetch
  BY <1>6 DEF IInv, FetchHops
<1>7. ASSUME NEW f \in Files, Handle(f) \/ FetchFails(f)
      PROVE  FetchHops'
  BY <1>1, <1>3, <1>4, <1>5, <1>6, <1>7 DEF Handle, Executor, DropFile
<1>8. CASE Users \/ Watcher \/ WatchEnds \/ StreamBreaks \/ FetchResources
           \/ ReceiveGroups \/ ReceiveConfigFiles
  BY <1>6, <1>8 DEF Users, PutFile, RemoveFile, PutCm, RemoveCm, CreateNamespace,
     DeleteNamespace, Watcher, ListNamespaces, OpenWatch, WatchNamespaces, WatchEnds,
     StreamBreaks, FetchResources, ReceiveGroups, ReceiveConfigFiles, nsUnchanged,
     handlingVars
<1>9. ASSUME NEW n \in CmNames, SyncConfigMap(n)
      PROVE  FetchHops'
  BY <1>6, <1>9 DEF SyncConfigMap, handlingVars
<1>10. CASE UNCHANGED vars
  BY <1>6, <1>10 DEF vars, handlingVars
<1>11. QED
  BY <1>7, <1>8, <1>9, <1>10 DEF Next

-----------------------------------------------------------------------------
(* The inductive invariant of both directions together (SyncConfigMap,        *)
(* fetchConfigFile).                                                          *)
THEOREM IInvInvariant == Spec => []IInv
<1>1. IInv /\ [Next]_vars => IInv'
  BY FileStep, CmStep, FetchStep DEF IInv
<1>2. QED
  BY <1>1, InitIInv, PTL DEF Spec

(* options/polaris.go:52, both directions at once: whatever the names of files *)
(* and ConfigMaps, and whatever fails or ends, nothing that came from Polaris  *)
(* is sent to Polaris again.                                                   *)
THEOREM NothingEchoes == Spec => []NoCycle
BY IInvInvariant, InvNoCycle, PTL

-----------------------------------------------------------------------------
(* The type invariant.  What the executor fetches is on one of its queues, so   *)
(* none of it is left when the next list is handled; the lists are of files     *)
(* there can be.                                                                *)
FileRef == [tagged : BOOLEAN, fromK8s : BOOLEAN, version : Nat]
Lists == UNION {[S -> FileRef] : S \in SUBSET Files}
GroupsAnswer == [type : {"groups"}, revision : SUBSET Groups, data : SUBSET Groups]
FilesAnswer == [type : {"files"}, revision : {NoRef}, data : Lists]
Answer == GroupsAnswer \cup FilesAnswer

ClusterTyped ==
  /\ nsExists \in BOOLEAN
  /\ \A n \in CmNames : cms[n] # NoCm => nsExists
  /\ toSync \subseteq CmNames /\ cached \subseteq DOMAIN PushedAs
NsWatchTyped ==
  /\ watch \in {"unlisted", "listed", "open", "ended"}
  /\ known \in BOOLEAN /\ nsEvents \in Seq({"added", "deleted"})
StreamTyped ==
  /\ streamOpen \in BOOLEAN
  /\ responses \in Seq(Answer)
  /\ groups \subseteq Groups /\ groupRevision \subseteq groups
  /\ filesRevisions = [g \in Groups |-> NoRef]
Queued(f) == \E w \in ExecWorkers : \E i \in 1..Len(jobs[w]) : jobs[w][i] = f
FetchesTyped ==
  /\ needSyncFiles \in [Files -> Nat \cup {NoRef}]
  /\ jobs \in [ExecWorkers -> Seq(Files)]
  /\ \A f \in batch : f \in Files /\ f \in DOMAIN listing /\ listing[f] \in FileRef
  /\ \A f \in Files :
       fetch[f].pc # "idle" => needSyncFiles[f] # NoRef /\ f \notin batch /\ Queued(f)

WInv == IInv /\ ClusterTyped /\ NsWatchTyped /\ StreamTyped /\ FetchesTyped

LEMMA WInvSuffices == WInv => TypeOK
<1> SUFFICES ASSUME WInv PROVE TypeOK
  OBVIOUS
<1>1. file \in [Files -> [present : BOOLEAN, tagged : BOOLEAN, fromK8s : BOOLEAN,
                          hops : Nat, version : Nat]]
  <2>1. \A f \in Files : file[f] \in [present : BOOLEAN, tagged : BOOLEAN,
                                      fromK8s : BOOLEAN, hops : Nat, version : Nat]
    BY DEF WInv, IInv, FileHops
  <2>2. QED
    BY <2>1 DEF WInv, IInv, FileHops
<1>2. \A n \in CmNames : cms[n] # NoCm => nsExists /\ cms[n] \in Cms
  BY DEF WInv, IInv, CmHops, CmOk, Cms, ClusterTyped
<1>3. \A i \in DOMAIN responses : responses[i].type \in {"groups", "files"}
  <2>1. \A i \in DOMAIN responses : responses[i] \in Answer
    BY DEF WInv, StreamTyped
  <2>2. QED
    BY <2>1 DEF Answer, GroupsAnswer, FilesAnswer
<1>4. \A f \in Files : /\ fetch[f].pc \in {"idle", "fetch", "create", "update"}
                       /\ fetch[f].pc # "idle" => needSyncFiles[f] # NoRef
  BY DEF WInv, IInv, FetchHops, FetchesTyped
<1>5. QED
  BY <1>1, <1>2, <1>3, <1>4
     DEF WInv, TypeOK, ClusterTyped, NsWatchTyped, StreamTyped, FetchesTyped

(* Sequences of one element, lists of finite sets. *)
LEMMA OneSeq ==
  ASSUME NEW S, NEW x \in S
  PROVE  << x >> \in Seq(S)
OBVIOUS

LEMMA InitWInv == Init => WInv
<1> SUFFICES ASSUME Init PROVE WInv
  OBVIOUS
<1>1. ClusterTyped
  BY DEF Init, ClusterTyped
<1>2. NsWatchTyped
  <2>1. << >> \in Seq({"added", "deleted"})
    BY EmptySeq
  <2>2. QED
    BY <2>1 DEF Init, NsWatchTyped
<1>3. StreamTyped
  <2>1. << >> \in Seq(Answer)
    BY EmptySeq
  <2>2. QED
    BY <2>1 DEF Init, StreamTyped
<1>4. FetchesTyped
  BY DEF Init, FetchesTyped, NoFetch, Exec!Init
<1>5. QED
  BY <1>1, <1>2, <1>3, <1>4, InitIInv DEF WInv

LEMMA IInvStep == IInv /\ [Next]_vars => IInv'
BY FileStep, CmStep, FetchStep DEF IInv

-----------------------------------------------------------------------------
(* ConfigMaps are only in a namespace there is. *)
LEMMA ClusterStep ==
  ASSUME WInv, [Next]_vars
  PROVE  ClusterTyped'
<1>1. ASSUME NEW n \in CmNames, NEW cm, cm = NoCm \/ nsExists, SetCm(n, cm),
             UNCHANGED nsExists, cached' \subseteq DOMAIN PushedAs
      PROVE  ClusterTyped'
  BY <1>1 DEF SetCm, WInv, IInv, CmHops, ClusterTyped
<1>2. CASE UNCHANGED <<cms, nsExists, toSync, cached>>
  BY <1>2 DEF WInv, ClusterTyped
<1>3. CASE Users
  <2>1. ASSUME NEW f \in Files, RemoveFile(f) \/ \E tagged \in BOOLEAN : PutFile(f, tagged)
        PROVE  ClusterTyped'
    BY <1>2, <2>1 DEF RemoveFile, PutFile, nsVars
  <2>2. ASSUME NEW n \in DOMAIN PushedAs,
               RemoveCm(n) \/ \E tagged \in CmTags : PutCm(n, tagged)
        PROVE  ClusterTyped'
    <3>1. n \in CmNames
      BY ConfigWatcherAssumption DEF ConfigWatcherAssumption
    <3>2. cached' \subseteq DOMAIN PushedAs
      BY <2>2 DEF RemoveCm, PutCm, WInv, ClusterTyped
    <3>3. UNCHANGED nsExists
      BY <2>2 DEF RemoveCm, PutCm, nsVars
    <3>4. \E cm : (cm = NoCm \/ nsExists) /\ SetCm(n, cm)
      BY <2>2 DEF RemoveCm, PutCm
    <3>5. QED
      BY <1>1, <3>1, <3>2, <3>3, <3>4
  <2>3. CASE CreateNamespace
    BY <2>3 DEF CreateNamespace, WInv, ClusterTyped
  <2>4. CASE DeleteNamespace
    BY <2>4 DEF DeleteNamespace, WInv, ClusterTyped
  <2>5. QED
    BY <1>3, <2>1, <2>2, <2>3, <2>4 DEF Users
<1>4. CASE Watcher \/ WatchEnds \/ StreamBreaks \/ FetchResources
           \/ ReceiveGroups \/ ReceiveConfigFiles
  BY <1>2, <1>4 DEF Watcher, ListNamespaces, OpenWatch, WatchNamespaces, WatchEnds,
     StreamBreaks, FetchResources, ReceiveGroups, ReceiveConfigFiles, nsUnchanged, nsVars
<1>5. ASSUME NEW n \in CmNames, SyncConfigMap(n)
      PROVE  ClusterTyped'
  BY <1>5 DEF SyncConfigMap, nsVars, WInv, ClusterTyped
<1>6. ASSUME NEW f \in Files, Handle(f) \/ FetchFails(f)
      PROVE  ClusterTyped'
  <2>1. MirrorName[f] \in CmNames
    BY ConfigWatcherAssumption DEF ConfigWatcherAssumption
  <2>2. UNCHANGED <<nsExists, cached>>
    BY <1>6 DEF Handle, SyncFile, DropFile, Executor, FetchConfigFile, CreateCm, UpdateCm,
       FetchFails, fetchUnchanged, nsVars
  <2>3. \/ UNCHANGED <<cms, toSync>>
        \/ \E cm : (cm = NoCm \/ nsExists) /\ SetCm(MirrorName[f], cm)
    <3>1. CASE SyncFile(f) \/ FetchConfigFile(f) \/ FetchFails(f)
      BY <3>1 DEF SyncFile, FetchConfigFile, FetchFails
    <3>2. CASE DropFile(f) \/ CreateCm(f)
      BY <3>2 DEF DropFile, CreateCm
    <3>3. CASE UpdateCm(f)
      BY <2>1, <3>3 DEF UpdateCm, WInv, ClusterTyped
    <3>4. QED
      BY <1>6, <3>1, <3>2, <3>3 DEF Handle, Executor
  <2>4. cached' \subseteq DOMAIN PushedAs
    BY <2>2 DEF WInv, ClusterTyped
  <2>5. QED
    BY <1>1, <1>2, <2>1, <2>2, <2>3, <2>4
<1>7. QED
  BY <1>2, <1>3, <1>4, <1>5, <1>6 DEF Next, vars, nsVars

LEMMA NsWatchStep ==
  ASSUME WInv, [Next]_vars
  PROVE  NsWatchTyped'
<1>1. CASE UNCHANGED <<watch, known, nsEvents>>
  BY <1>1 DEF WInv, NsWatchTyped
<1>2. CASE CreateNamespace \/ DeleteNamespace
  BY <1>2 DEF CreateNamespace, DeleteNamespace, Notified, WInv, NsWatchTyped
<1>3. CASE Watcher \/ WatchEnds
  <2>1. CASE ListNamespaces \/ OpenWatch \/ WatchEnds
    <3>1. << "added" >> \in Seq({"added", "deleted"}) /\ << >> \in Seq({"added", "deleted"})
      BY EmptySeq, OneSeq
    <3>2. QED
      BY <2>1, <3>1
         DEF ListNamespaces, OpenWatch, WatchEnds, WInv, NsWatchTyped, ClusterTyped
  <2>2. CASE WatchNamespaces
    BY <2>2 DEF WatchNamespaces, WInv, NsWatchTyped
  <2>3. QED
    BY <1>3, <2>1, <2>2 DEF Watcher
<1>4. CASE Users
  <2>1. CASE CreateNamespace \/ DeleteNamespace
    BY <1>2, <2>1
  <2>2. CASE ~(CreateNamespace \/ DeleteNamespace)
    BY <1>1, <1>4, <2>2 DEF Users, RemoveFile, PutFile, RemoveCm, PutCm, nsVars
  <2>3. QED
    BY <2>1, <2>2
<1>5. CASE StreamBreaks \/ FetchResources \/ ReceiveGroups \/ ReceiveConfigFiles
           \/ \E n \in CmNames : SyncConfigMap(n)
  BY <1>1, <1>5 DEF StreamBreaks, FetchResources, ReceiveGroups, ReceiveConfigFiles,
     SyncConfigMap, nsVars
<1>6. ASSUME NEW f \in Files, Handle(f) \/ FetchFails(f)
      PROVE  NsWatchTyped'
  BY <1>1, <1>6 DEF Handle, SyncFile, DropFile, Executor, FetchConfigFile, CreateCm,
     UpdateCm, FetchFails, fetchUnchanged, nsVars
<1>7. QED
  BY <1>1, <1>3, <1>4, <1>5, <1>6 DEF Next, vars, nsVars

-----------------------------------------------------------------------------
(* fetchResources: what it asks for is answered from the files there are. *)
LEMMA ListOfSet ==
  ASSUME NEW S, IsFiniteSet(S)
  PROVE  SetToSeq(S) \in Seq(S)
<1> DEFINE n == Cardinality(S)
           e == SetToSeq(S)
<1>1. n \in Nat /\ ExistsBijection(1..n, S)
  BY FS_CardinalityType
<1>2. \E f : f \in [1..n -> S] /\ IsInjective(f)
  BY <1>1 DEF ExistsBijection, Bijection, Injection
<1>3. e \in [1..n -> S]
  BY <1>2 DEF SetToSeq
<1> HIDE DEF n, e
<1>4. QED
  BY <1>1, <1>3 DEF e

LEMMA AnswersTyped ==
  ASSUME WInv
  PROVE  Answers \in Seq(Answer)
<1> DEFINE S == {g \in groups : HasData(AskFiles(g))}
           listed == SetToSeq(S)
           n == Len(listed)
           files == [i \in DOMAIN listed |-> AskFiles(listed[i])]
           first == IF HasData(AskGroups) THEN << AskGroups >> ELSE << >>
<1>1. \A f \in Files : GroupOf[f] \in Groups
  BY ConfigWatcherAssumption DEF ConfigWatcherAssumption, Groups
<1>2. groups \subseteq Groups /\ groupRevision \subseteq Groups
  BY DEF WInv, StreamTyped
<1>3. AskGroups \in GroupsAnswer
  BY <1>1, <1>2 DEF AskGroups, PolarisGroups, GroupsAnswer
<1>4. \A g \in Groups : AskFiles(g) \in FilesAnswer
  <2> SUFFICES ASSUME NEW g \in Groups PROVE AskFiles(g) \in FilesAnswer
    OBVIOUS
  <2>1. \A f \in Files : [tagged |-> file[f].tagged, fromK8s |-> file[f].fromK8s,
                          version |-> file[f].version] \in FileRef
    BY DEF WInv, IInv, FileHops, FileRef
  <2>2. Listed(g) \in [{h \in Files : GroupOf[h] = g /\ file[h].present} -> FileRef]
    BY <2>1 DEF Listed
  <2>3. Listed(g) \in Lists
    BY <2>2 DEF Lists
  <2>4. filesRevisions[g] = NoRef
    BY DEF WInv, StreamTyped
  <2>5. QED
    BY <2>3, <2>4 DEF AskFiles, FilesAnswer
<1>5. IsFiniteSet(S)
  <2>1. GroupOf \in Surjection(Files, Groups)
    BY ConfigWatcherAssumption DEF ConfigWatcherAssumption, Groups, Range, Surjection
  <2>2. IsFiniteSet(Groups)
    BY <2>1, FS_Surjection, ConfigWatcherAssumption DEF ConfigWatcherAssumption
  <2>3. S \subseteq Groups
    BY <1>2
  <2>4. QED
    BY <2>2, <2>3, FS_Subset
<1>6. listed \in Seq(S)
  BY <1>5, ListOfSet
<1>7. n \in Nat /\ DOMAIN listed = 1..n /\ \A i \in 1..n : listed[i] \in Groups
  <2>1. S \subseteq Groups
    BY <1>2
  <2> HIDE DEF S, listed
  <2>2. QED
    BY <1>6, <2>1
<1>8. files \in Seq(Answer)
  <2> HIDE DEF listed, n
  <2>1. files \in [1..n -> Answer]
    BY <1>4, <1>7 DEF Answer
  <2>2. QED
    BY <1>7, <2>1
<1>9. first \in Seq(Answer)
  <2>1. << AskGroups >> \in Seq(Answer) /\ << >> \in Seq(Answer)
    BY <1>3, OneSeq, EmptySeq DEF Answer
  <2>2. QED
    BY <2>1
<1>10. Answers = first \o files
  BY DEF Answers
<1> HIDE DEF first, files
<1>11. QED
  BY <1>8, <1>9, <1>10

LEMMA StreamStep ==
  ASSUME WInv, [Next]_vars
  PROVE  StreamTyped'
<1>1. CASE UNCHANGED streamVars
  BY <1>1 DEF streamVars, WInv, StreamTyped
<1>2. CASE StreamBreaks
  <2>1. responses' \in Seq(Answer)
    BY <1>2, EmptySeq DEF StreamBreaks, WInv, StreamTyped
  <2>2. QED
    BY <1>2, <2>1 DEF StreamBreaks, WInv, StreamTyped
<1>3. CASE FetchResources
  BY <1>3, AnswersTyped DEF FetchResources, WInv, StreamTyped
<1>4. CASE ReceiveGroups
  <2> DEFINE r == Head(responses)
  <2>1. r \in Answer /\ Tail(responses) \in Seq(Answer) /\ r.type = "groups"
    BY <1>4 DEF ReceiveGroups, Receive, WInv, StreamTyped
  <2>2. r.data \subseteq Groups
    BY <2>1 DEF Answer, GroupsAnswer, FilesAnswer
  <2>3. /\ responses' = Tail(responses) /\ groupRevision' = r.data
        /\ groups' = groups \cup r.data /\ UNCHANGED <<streamOpen, filesRevisions>>
    BY <1>4 DEF ReceiveGroups, Receive
  <2>4. QED
    BY <2>1, <2>2, <2>3 DEF WInv, StreamTyped
<1>5. CASE ReceiveConfigFiles
  BY <1>5 DEF ReceiveConfigFiles, Receive, WInv, StreamTyped
<1>6. CASE Users \/ Watcher \/ WatchEnds \/ \E n \in CmNames : SyncConfigMap(n)
  BY <1>1, <1>6 DEF Users, PutFile, RemoveFile, PutCm, RemoveCm, CreateNamespace,
     DeleteNamespace, Watcher, ListNamespaces, OpenWatch, WatchNamespaces, WatchEnds,
     nsUnchanged, SyncConfigMap
<1>7. ASSUME NEW f \in Files, Handle(f) \/ FetchFails(f)
      PROVE  StreamTyped'
  BY <1>1, <1>7 DEF Handle, SyncFile, DropFile, Executor, FetchConfigFile, CreateCm,
     UpdateCm, FetchFails, fetchUnchanged
<1>8. QED
  BY <1>1, <1>2, <1>3, <1>4, <1>5, <1>6, <1>7 DEF Next, vars

-----------------------------------------------------------------------------
(* The executor: a task it is handed is on a queue, and one that ends takes no  *)
(* other with it.                                                               *)
LEMMA ExecuteQueues ==
  ASSUME jobs \in [ExecWorkers -> Seq(Files)], NEW f \in Files, Exec!Execute(f)
  PROVE  /\ jobs' \in [ExecWorkers -> Seq(Files)]
         /\ Queued(f)' /\ \A g \in Files : Queued(g) => Queued(g)'
<1>1. PICK w \in ExecWorkers : jobs' = [jobs EXCEPT ![w] = Append(@, f)]
  BY DEF Exec!Execute
<1>2. jobs[w] \in Seq(Files) /\ Append(jobs[w], f) \in Seq(Files)
  OBVIOUS
<1>3. jobs' \in [ExecWorkers -> Seq(Files)] /\ jobs'[w] = Append(jobs[w], f)
      /\ \A v \in ExecWorkers \ {w} : jobs'[v] = jobs[v]
  BY <1>1, <1>2
<1>4. /\ Len(jobs'[w]) = Len(jobs[w]) + 1 /\ jobs'[w][Len(jobs[w]) + 1] = f
      /\ \A i \in 1..Len(jobs[w]) : jobs'[w][i] = jobs[w][i]
      /\ Len(jobs[w]) \in Nat
  BY <1>2, <1>3
<1>5. Queued(f)'
  <2>1. Len(jobs[w]) + 1 \in 1..Len(jobs'[w])
    BY <1>4
  <2>2. QED
    BY <1>4, <2>1 DEF Queued
<1>6. ASSUME NEW g \in Files, Queued(g)
      PROVE  Queued(g)'
  <2>1. PICK v \in ExecWorkers : \E i \in 1..Len(jobs[v]) : jobs[v][i] = g
    BY <1>6 DEF Queued
  <2>2. PICK i \in 1..Len(jobs[v]) : jobs[v][i] = g
    BY <2>1
  <2>3. CASE v = w
    <3>1. i \in 1..Len(jobs'[w]) /\ jobs'[w][i] = g
      BY <1>4, <2>2, <2>3
    <3>2. QED
      BY <3>1 DEF Queued
  <2>4. CASE v # w
    BY <1>3, <2>2, <2>4 DEF Queued
  <2>5. QED
    BY <2>3, <2>4
<1>7. QED
  BY <1>3, <1>5, <1>6

LEMMA FinishQueues ==
  ASSUME jobs \in [ExecWorkers -> Seq(Files)], NEW f \in Files, Exec!Finish(f)
  PROVE  /\ jobs' \in [ExecWorkers -> Seq(Files)]
         /\ \A g \in Files \ {f} : Queued(g) => Queued(g)'
<1>1. \A w \in ExecWorkers : jobs'[w] = IF jobs[w] # << >> /\ Head(jobs[w]) = f
                                        THEN Tail(jobs[w]) ELSE jobs[w]
  BY DEF Exec!Finish
<1>2. jobs' \in [ExecWorkers -> Seq(Files)]
  BY DEF Exec!Finish
<1>3. ASSUME NEW g \in Files \ {f}, Queued(g)
      PROVE  Queued(g)'
  <2>1. PICK w \in ExecWorkers : \E i \in 1..Len(jobs[w]) : jobs[w][i] = g
    BY <1>3 DEF Queued
  <2>2. PICK i \in 1..Len(jobs[w]) : jobs[w][i] = g
    BY <2>1
  <2>3. CASE jobs[w] # << >> /\ Head(jobs[w]) = f
    <3>1. i # 1 /\ Len(jobs[w]) \in Nat
      BY <2>2, <2>3, <1>3
    <3>2. /\ i - 1 \in 1..Len(Tail(jobs[w])) /\ Tail(jobs[w])[i - 1] = jobs[w][i]
      BY <2>2, <2>3, <3>1
    <3>3. QED
      BY <1>1, <2>2, <2>3, <3>2 DEF Queued
  <2>4. CASE ~(jobs[w] # << >> /\ Head(jobs[w]) = f)
    BY <1>1, <2>2, <2>4 DEF Queued
  <2>5. QED
    BY <2>3, <2>4
<1>4. QED
  BY <1>2, <1>3

LEMMA DoneStep ==
  ASSUME WInv, NEW f \in Files, FetchDone(f), UNCHANGED <<needSyncFiles, listing, batch>>
  PROVE  FetchesTyped'
<1>1. /\ jobs' \in [ExecWorkers -> Seq(Files)]
      /\ \A g \in Files \ {f} : Queued(g) => Queued(g)'
  BY FinishQueues DEF FetchDone, WInv, FetchesTyped
<1>2. \A g \in Files : fetch'[g] = IF g = f THEN NoFetch ELSE fetch[g]
  BY DEF FetchDone, WInv, IInv, FetchHops
<1>3. \A g \in Files : fetch'[g].pc # "idle" =>
         needSyncFiles'[g] # NoRef /\ g \notin batch' /\ Queued(g)'
  <2> SUFFICES ASSUME NEW g \in Files, fetch'[g].pc # "idle"
               PROVE  needSyncFiles'[g] # NoRef /\ g \notin batch' /\ Queued(g)'
    OBVIOUS
  <2>1. g # f /\ fetch[g].pc # "idle"
    BY <1>2 DEF NoFetch
  <2>2. QED
    BY <1>1, <2>1 DEF WInv, FetchesTyped
<1>4. QED
  BY <1>1, <1>3 DEF WInv, FetchesTyped

LEMMA OnStep ==
  ASSUME WInv, NEW f \in Files, NEW next, FetchGoesOn(f, next), fetch[f].pc # "idle",
         UNCHANGED <<needSyncFiles, listing, batch>>
  PROVE  FetchesTyped'
<1>1. \A g \in Files \ {f} : fetch'[g] = fetch[g]
  BY DEF FetchGoesOn, WInv, IInv, FetchHops
<1>2. jobs' = jobs
  BY DEF FetchGoesOn
<1>3. QED
  BY <1>1, <1>2 DEF WInv, FetchesTyped, Queued

LEMMA FetchesStep ==
  ASSUME WInv, [Next]_vars
  PROVE  FetchesTyped'
<1>1. CASE UNCHANGED handlingVars
  BY <1>1 DEF handlingVars, WInv, FetchesTyped, Queued
<1>2. CASE ReceiveConfigFiles
  <2> DEFINE r == Head(responses)
  <2>1. r \in Answer /\ r.type = "files"
    BY <1>2 DEF ReceiveConfigFiles, Receive, WInv, StreamTyped
  <2>2. r.data \in Lists
    BY <2>1 DEF Answer, GroupsAnswer, FilesAnswer
  <2>3. PICK S \in SUBSET Files : r.data \in [S -> FileRef]
    BY <2>2 DEF Lists
  <2>4. \A w \in ExecWorkers : jobs[w] = << >>
    BY <1>2 DEF ReceiveConfigFiles, Receive, Ready, Exec!Idle
  <2>5. \A f \in Files : fetch[f].pc = "idle"
    BY <2>4 DEF WInv, FetchesTyped, Queued
  <2>6. /\ listing' = r.data /\ batch' = DOMAIN r.data
        /\ UNCHANGED <<needSyncFiles, fetch, jobs>>
    BY <1>2 DEF ReceiveConfigFiles
  <2>7. QED
    BY <2>3, <2>5, <2>6 DEF WInv, FetchesTyped
<1>3. ASSUME NEW f \in Files, SyncFile(f)
      PROVE  FetchesTyped'
  <2>1. /\ f \in batch /\ batch' = batch \ {f} /\ listing' = Restrict(listing, batch')
        /\ listing[f].version \in Nat
    BY <1>3 DEF SyncFile, TakeFile, WInv, FetchesTyped, FileRef
  <2>2. CASE UNCHANGED <<needSyncFiles, fetch, jobs>>
    BY <2>1, <2>2 DEF WInv, FetchesTyped, Queued, Restrict
  <2>3. CASE /\ needSyncFiles' = [needSyncFiles EXCEPT ![f] = listing[f].version]
             /\ fetch' = [fetch EXCEPT ![f].pc = "fetch"]
             /\ Exec!Execute(f)
    <3>1. /\ jobs' \in [ExecWorkers -> Seq(Files)]
          /\ Queued(f)' /\ \A g \in Files : Queued(g) => Queued(g)'
      BY <2>3, ExecuteQueues DEF WInv, FetchesTyped
    <3>2. \A g \in Files \ {f} : fetch'[g] = fetch[g] /\ needSyncFiles'[g] = needSyncFiles[g]
      BY <2>3 DEF WInv, IInv, FetchHops, FetchesTyped
    <3>3. needSyncFiles' \in [Files -> Nat \cup {NoRef}] /\ needSyncFiles'[f] # NoRef
      BY <2>1, <2>3, ConfigWatcherAssumption DEF WInv, FetchesTyped, ConfigWatcherAssumption
    <3>4. QED
      BY <2>1, <3>1, <3>2, <3>3 DEF WInv, FetchesTyped, Restrict
  <2>4. QED
    BY <1>3, <2>2, <2>3 DEF SyncFile
<1>4. ASSUME NEW f \in Files, DropFile(f)
      PROVE  FetchesTyped'
  <2>1. /\ f \in batch /\ batch' = batch \ {f} /\ listing' = Restrict(listing, batch')
        /\ UNCHANGED <<fetch, jobs>>
        /\ needSyncFiles' = [needSyncFiles EXCEPT ![f] = NoRef]
    BY <1>4 DEF DropFile, TakeFile
  <2>2. fetch[f].pc = "idle"
    BY <2>1 DEF WInv, FetchesTyped
  <2>3. QED
    BY <2>1, <2>2 DEF WInv, FetchesTyped, Queued, Restrict
<1>5. ASSUME NEW f \in Files, Executor(f) \/ FetchFails(f)
      PROVE  FetchesTyped'
  <2>1. UNCHANGED <<needSyncFiles, listing, batch>>
    BY <1>5 DEF Executor, FetchConfigFile, CreateCm, UpdateCm, FetchFails, fetchUnchanged
  <2>2. FetchDone(f) \/ (fetch[f].pc # "idle" /\ \E next : FetchGoesOn(f, next))
    BY <1>5 DEF Executor, FetchConfigFile, CreateCm, UpdateCm, FetchFails, Fetching
  <2>3. QED
    BY <2>1, <2>2, DoneStep, OnStep
<1>6. CASE Users \/ Watcher \/ WatchEnds \/ StreamBreaks \/ FetchResources
           \/ ReceiveGroups \/ \E n \in CmNames : SyncConfigMap(n)
  BY <1>1, <1>6 DEF Users, PutFile, RemoveFile, PutCm, RemoveCm, CreateNamespace,
     DeleteNamespace, Watcher, ListNamespaces, OpenWatch, WatchNamespaces, WatchEnds,
     StreamBreaks, FetchResources, ReceiveGroups, nsUnchanged, SyncConfigMap
<1>7. QED
  BY <1>1, <1>2, <1>3, <1>4, <1>5, <1>6 DEF Next, Handle, vars

(* receiveConfigFiles waits for the executor before it handles the next list,   *)
(* so a file that is being fetched is always one that is needed; and no         *)
(* ConfigMap is written into a namespace that is gone (fetchConfigFile).        *)
THEOREM WatcherTypeCorrect == Spec => []TypeOK
<1>1. WInv /\ [Next]_vars => WInv'
  BY IInvStep, ClusterStep, NsWatchStep, StreamStep, FetchesStep DEF WInv
<1>2. QED
  BY <1>1, InitWInv, WInvSuffices, PTL DEF Spec

-----------------------------------------------------------------------------
(* The namespaces.  The last event still to come says whether the namespace is *)
(* there; without one, the watcher knows a namespace that is.                  *)
NamespaceKnown == watch = "open" /\ nsEvents = << >> /\ nsExists => known
LastEvent ==
  watch = "open" /\ nsEvents # << >> =>
    nsEvents[Len(nsEvents)] = IF nsExists THEN "added" ELSE "deleted"
NsInv == NsWatchTyped /\ LastEvent /\ NamespaceKnown

LEMMA NsInvStep ==
  ASSUME WInv, WInv', NsInv, [Next]_vars
  PROVE  NsInv'
<1>1. CASE UNCHANGED nsVars
  BY <1>1 DEF NsInv, NsWatchTyped, LastEvent, NamespaceKnown, nsVars
<1>2. CASE CreateNamespace \/ DeleteNamespace
  <2>1. watch' = watch /\ known' = known
    BY <1>2 DEF CreateNamespace, DeleteNamespace
  <2>2. PICK e \in {"added", "deleted"} :
          /\ nsEvents' = IF watch = "open" THEN Append(nsEvents, e) ELSE nsEvents
          /\ e = IF nsExists' THEN "added" ELSE "deleted"
    BY <1>2 DEF CreateNamespace, DeleteNamespace, Notified
  <2>3. CASE watch = "open"
    <3>1. nsEvents \in Seq({"added", "deleted"})
      BY DEF NsInv, NsWatchTyped
    <3>2. /\ nsEvents' = Append(nsEvents, e) /\ nsEvents' # << >>
          /\ nsEvents'[Len(nsEvents')] = e
      BY <2>2, <2>3, <3>1
    <3>3. QED
      BY <2>1, <2>2, <3>2 DEF WInv, ClusterTyped, NsInv, LastEvent, NamespaceKnown
  <2>4. CASE watch # "open"
    BY <2>1, <2>4 DEF WInv, ClusterTyped, NsInv, LastEvent, NamespaceKnown
  <2>5. QED
    BY <2>3, <2>4
<1>3. CASE ListNamespaces \/ WatchEnds
  BY <1>3 DEF ListNamespaces, WatchEnds, WInv, ClusterTyped, NsInv, LastEvent,
     NamespaceKnown
<1>4. CASE OpenWatch
  <2>1. /\ nsEvents' = IF nsExists THEN << "added" >> ELSE << >>
        /\ nsExists' = nsExists
    BY <1>4 DEF OpenWatch, nsUnchanged
  <2>2. << "added" >> # << >> /\ Len(<< "added" >>) = 1 /\ << "added" >>[1] = "added"
    OBVIOUS
  <2>3. QED
    BY <2>1, <2>2 DEF WInv, ClusterTyped, NsInv, LastEvent, NamespaceKnown
<1>5. CASE WatchNamespaces
  <2>1. /\ nsEvents # << >> /\ nsEvents' = Tail(nsEvents)
        /\ known' = (Head(nsEvents) = "added")
        /\ watch' = watch /\ nsExists' = nsExists
    BY <1>5 DEF WatchNamespaces, nsUnchanged
  <2>2. nsEvents \in Seq({"added", "deleted"})
    BY DEF NsInv, NsWatchTyped
  <2>3. CASE nsEvents' = << >>
    <3>1. Head(nsEvents) = nsEvents[Len(nsEvents)]
      <4>1. Len(nsEvents') = 0
        BY <2>3
      <4>2. Len(nsEvents') = Len(nsEvents) - 1 /\ Len(nsEvents) \in Nat
        BY <2>1, <2>2, HeadTailProperties
      <4>3. Len(nsEvents) = 1
        BY <4>1, <4>2
      <4>4. QED
        BY <2>1, <2>2, <4>3
    <3>2. QED
      BY <2>1, <2>3, <3>1 DEF WInv, ClusterTyped, NsInv, LastEvent, NamespaceKnown
  <2>4. CASE nsEvents' # << >>
    <3>1. nsEvents'[Len(nsEvents')] = nsEvents[Len(nsEvents)]
      BY <2>1, <2>2, <2>4
    <3>2. QED
      BY <2>1, <2>4, <3>1 DEF WInv, ClusterTyped, NsInv, LastEvent, NamespaceKnown
  <2>5. QED
    BY <2>3, <2>4
<1>6. CASE Users
  <2>1. CASE ~(CreateNamespace \/ DeleteNamespace)
    BY <1>1, <1>6, <2>1 DEF Users, RemoveFile, PutFile, RemoveCm, PutCm
  <2>2. QED
    BY <1>2, <2>1
<1>7. CASE StreamBreaks \/ FetchResources \/ ReceiveGroups \/ ReceiveConfigFiles
           \/ \E n \in CmNames : SyncConfigMap(n)
  BY <1>1, <1>7 DEF StreamBreaks, FetchResources, ReceiveGroups, ReceiveConfigFiles,
     SyncConfigMap
<1>8. ASSUME NEW f \in Files, Handle(f) \/ FetchFails(f)
      PROVE  NsInv'
  BY <1>1, <1>8 DEF Handle, SyncFile, DropFile, Executor, FetchConfigFile, CreateCm,
     UpdateCm, FetchFails, fetchUnchanged
<1>9. QED
  BY <1>1, <1>3, <1>4, <1>5, <1>6, <1>7, <1>8 DEF Next, Watcher, vars

(* Start and watchNamespaces (configmap.go): whatever is created, deleted or    *)
(* created again between the list of namespaces, the opening of the watch and   *)
(* the handling of its events, a namespace that exists is polled once no event  *)
(* is left, as long as the watch lasts.                                         *)
THEOREM NamespacesKnown == Spec => []NamespaceKnown
<1>1. Init => NsInv
  BY InitWInv DEF Init, NsInv, WInv, ClusterTyped, LastEvent, NamespaceKnown
<1>2. WInv /\ NsInv /\ [Next]_vars => (WInv /\ NsInv)'
  BY IInvStep, ClusterStep, NsWatchStep, StreamStep, FetchesStep, NsInvStep DEF WInv
<1>3. NsInv => NamespaceKnown
  BY DEF NsInv
<1>4. QED
  BY <1>1, <1>2, <1>3, InitWInv, PTL DEF Spec
=============================================================================
