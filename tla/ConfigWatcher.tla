---------------------------- MODULE ConfigWatcher ----------------------------
(***************************************************************************)
(* Synchronisation of Polaris configuration files into ConfigMaps          *)
(* (PolarisConfigWatcher in pkg/controller/configmap.go), in one namespace *)
(* that comes and goes, together with the executor that fetches the files  *)
(* (Executor) and the opposite direction, which is here one step for each  *)
(* ConfigMap that changed (ConfigSync has the detail).                     *)
(*                                                                         *)
(* What either direction writes carries how many times its content has     *)
(* crossed between Kubernetes and Polaris (hops, a history variable).      *)
(***************************************************************************)
EXTENDS Naturals, SequencesExt

CONSTANTS
  Files,         \* names of files, with their group
  GroupOf,       \* the group of a file
  CmNames,       \* names of ConfigMaps
  MirrorName,    \* the ConfigMap a file is written to: "<group>-<file>"
  PushedAs,      \* the file a ConfigMap is written to
  Direction,     \* configSync.syncDirection
  AllowDelete,   \* configSync.allowDelete
  CmTags,        \* whether users' ConfigMaps ask to be synced to Kubernetes
  ExecWorkers,   \* the executor's workers, GOMAXPROCS of them
  QueueSize,     \* the channel of each, 128 in the code
  NoCm, NoRef,
  MaxChanges,    \* bound: changes made by users on either side
  MaxFaults,     \* bound: failing calls, streams and watches that end
  MaxInFlight    \* bound: answers in the stream beyond which no tick happens

ASSUME ConfigWatcherAssumption ==
  /\ GroupOf \in [Files -> Range(GroupOf)]
  /\ MirrorName \in [Files -> CmNames]
  /\ IsInjective(MirrorName)        \* see the README on names that collide
  /\ PushedAs \in [DOMAIN PushedAs -> Files]
  /\ DOMAIN PushedAs \subseteq CmNames
  /\ Direction \in {"kubernetesToPolaris", "polarisToKubernetes", "both"}
  /\ AllowDelete \in BOOLEAN
  /\ QueueSize \in Nat \ {0}
  /\ NoRef \notin Nat
  /\ CmTags \subseteq BOOLEAN
  /\ IsFiniteSet(Files)

Groups == Range(GroupOf)

VARIABLES
  \* Polaris and Kubernetes
  file,           \* Polaris: each file, present or not
  nsExists,       \* Kubernetes: whether the namespace exists
  cms,            \* Kubernetes: each ConfigMap, or NoCm
  \* the watcher
  watch,          \* how far Start is, then whether the namespace watch is open
  nsEvents,       \* events in the namespace watch
  known,          \* whether the namespace is in namespaces
  streamOpen,     \* whether the discover stream works
  responses,      \* answers in the discover stream
  groups,         \* groups known
  groupRevision,  \* the list of groups last received: its revision
  filesRevisions, \* the list of files last received, of each group
  needSyncFiles,  \* the version each file was last fetched for, or NoRef
  listing,        \* the list of files in the answer being handled
  batch,          \* the files of it still to be handled
  fetch,          \* where fetchConfigFile is for each file
  jobs,           \* what the executor's workers have to run
  \* the other direction
  toSync,         \* ConfigMaps that changed since syncConfigMap looked
  cached,         \* ConfigMaps in configFileCache
  used            \* how much of each bound is used up

nsVars == <<nsExists, watch, nsEvents, known>>
streamVars == <<streamOpen, responses, groups, groupRevision, filesRevisions>>
handlingVars == <<needSyncFiles, listing, batch, fetch, jobs>>
vars == <<file, cms, nsVars, streamVars, handlingVars, toSync, cached, used>>

Exec == INSTANCE Executor WITH Workers <- ExecWorkers

NoFile == [present |-> FALSE, tagged |-> FALSE, fromK8s |-> FALSE, hops |-> 0,
           version |-> 0]
NoFetch == [pc |-> "idle", hops |-> 0, version |-> 0]

Init ==
  /\ file = [f \in Files |-> NoFile]
  /\ cms = [n \in CmNames |-> NoCm]
  /\ nsExists \in BOOLEAN
  /\ watch = "unlisted"
  /\ nsEvents = << >>
  /\ known = FALSE
  /\ streamOpen = TRUE
  /\ responses = << >>
  /\ groups = {}
  /\ groupRevision = {}
  /\ filesRevisions = [g \in Groups |-> NoRef]
  /\ needSyncFiles = [f \in Files |-> NoRef]
  /\ listing = << >>
  /\ batch = {}
  /\ fetch = [f \in Files |-> NoFetch]
  /\ Exec!Init
  /\ toSync = {}
  /\ cached = {}
  /\ used = [changes |-> 0, faults |-> 0]

Use(bound, max) ==
  /\ used[bound] < max
  /\ used' = [used EXCEPT ![bound] = @ + 1]

-----------------------------------------------------------------------------
(* Users of Polaris and of Kubernetes. *)
WriteFile(f, tagged, fromK8s, hops) ==
  file' = [file EXCEPT ![f] = [present |-> TRUE, tagged |-> tagged, hops |-> hops,
                               fromK8s |-> fromK8s, version |-> @.version + 1]]

PutFile(f, tagged) ==
  /\ Use("changes", MaxChanges)
  /\ WriteFile(f, tagged, FALSE, 0)
  /\ UNCHANGED <<cms, nsVars, streamVars, handlingVars, toSync, cached>>

RemoveFile(f) ==
  /\ file[f].present
  /\ Use("changes", MaxChanges)
  /\ file' = [file EXCEPT ![f].present = FALSE]
  /\ UNCHANGED <<cms, nsVars, streamVars, handlingVars, toSync, cached>>

\* Mutant: the annotation that says where a ConfigMap came from is not read.
IsPolarisConfigMap_AnySource(cm) == cm # NoCm

(* What came from Polaris is not synced back. *)
IsPolarisConfigMap(cm) == cm # NoCm /\ ~cm.fromPolaris
AllowSyncFromConfigMap == Direction \in {"kubernetesToPolaris", "both"}

(* The handlers of the informer pass on what was to be synced or is now. *)
ToSync(n, cm) ==
  AllowSyncFromConfigMap /\ (IsPolarisConfigMap(cms[n]) \/ IsPolarisConfigMap(cm))
SetCm(n, cm) ==
  /\ cms' = [cms EXCEPT ![n] = cm]
  /\ toSync' = IF ToSync(n, cm) THEN toSync \cup {n} ELSE toSync

(* onConfigMapUpdate caches the old object of two that are to be synced. *)
PutCm(n, tagged) ==
  /\ nsExists
  /\ Use("changes", MaxChanges)
  /\ SetCm(n, [fromPolaris |-> FALSE, tagged |-> tagged, hops |-> 0, version |-> 0])
  /\ cached' = IF AllowSyncFromConfigMap /\ IsPolarisConfigMap(cms[n])
               THEN cached \cup {n} ELSE cached
  /\ UNCHANGED <<file, nsVars, streamVars, handlingVars>>

RemoveCm(n) ==
  /\ cms[n] # NoCm
  /\ Use("changes", MaxChanges)
  /\ SetCm(n, NoCm)
  /\ UNCHANGED <<file, nsVars, streamVars, handlingVars, cached>>

Notified(event) == IF watch = "open" THEN Append(nsEvents, event) ELSE nsEvents

CreateNamespace ==
  /\ ~nsExists
  /\ Use("changes", MaxChanges)
  /\ nsExists' = TRUE
  /\ nsEvents' = Notified("added")
  /\ UNCHANGED <<file, cms, watch, known, streamVars, handlingVars, toSync, cached>>

\* The ConfigMaps of a namespace go with it.
DeleteNamespace ==
  /\ nsExists
  /\ Use("changes", MaxChanges)
  /\ nsExists' = FALSE
  /\ nsEvents' = Notified("deleted")
  /\ cms' = [n \in CmNames |-> NoCm]
  /\ toSync' = toSync \cup {n \in CmNames : ToSync(n, NoCm)}
  /\ UNCHANGED <<file, watch, known, streamVars, handlingVars, cached>>

-----------------------------------------------------------------------------
(* Start lists the namespaces and then opens a watch, which tells first what  *)
(* exists by then: what is created in between is not missed, what is deleted  *)
(* in between stays known.                                                    *)
nsUnchanged == <<file, cms, nsExists, streamVars, handlingVars, toSync, cached>>

ListNamespaces ==
  /\ watch = "unlisted"
  /\ watch' = "listed"
  /\ known' = nsExists
  /\ UNCHANGED <<nsUnchanged, nsEvents, used>>

\* Mutant: the watch tells only of changes made after it was opened.
OpenWatch_FromNow ==
  /\ watch = "listed"
  /\ watch' = "open"
  /\ UNCHANGED <<nsUnchanged, nsEvents, known, used>>

OpenWatch ==
  /\ watch = "listed"
  /\ watch' = "open"
  /\ nsEvents' = IF nsExists THEN << "added" >> ELSE << >>
  /\ UNCHANGED <<nsUnchanged, known, used>>

WatchNamespaces ==
  /\ nsEvents # << >>
  /\ nsEvents' = Tail(nsEvents)
  /\ known' = (Head(nsEvents) = "added")
  /\ UNCHANGED <<nsUnchanged, watch, used>>

(* A watch that ends is not opened again: its channel delivers nothing but  *)
(* empty events, which watchNamespaces skips for ever.                      *)
WatchEnds ==
  /\ watch = "open"
  /\ Use("faults", MaxFaults)
  /\ watch' = "ended"
  /\ UNCHANGED <<nsUnchanged, nsEvents, known>>

(* Nor is a stream that breaks: errors of Send and of Recv are logged. *)
StreamBreaks ==
  /\ streamOpen
  /\ Use("faults", MaxFaults)
  /\ streamOpen' = FALSE
  /\ responses' \in {responses, << >>}
  /\ UNCHANGED <<file, cms, nsVars, groups, groupRevision, filesRevisions,
                 handlingVars, toSync, cached>>

Watcher == ListNamespaces \/ OpenWatch \/ WatchNamespaces

-----------------------------------------------------------------------------
(* syncConfigMap.  The first time, a file that exists keeps its content, but  *)
(* is released again.  The annotations, the tag for the sync to Kubernetes    *)
(* among them, become tags, and so does the source.  A ConfigMap is cached as *)
(* long as it exists, to be synced or not.                                    *)
SyncConfigMap(n) ==
  LET f == PushedAs[n]
      new == n \notin cached
  IN  /\ n \in toSync \cap DOMAIN PushedAs
      /\ toSync' = toSync \ {n}
      /\ \/ /\ IsPolarisConfigMap(cms[n]) /\ ~(new /\ file[f].present)
            /\ WriteFile(f, cms[n].tagged, TRUE, cms[n].hops + 1)
         \/ /\ IsPolarisConfigMap(cms[n]) /\ new /\ file[f].present
            /\ file' = [file EXCEPT ![f].version = @ + 1]
         \/ /\ ~IsPolarisConfigMap(cms[n])
            /\ file' = IF AllowDelete /\ ~new THEN [file EXCEPT ![f].present = FALSE]
                       ELSE file
      /\ cached' = IF cms[n] = NoCm THEN cached \ {n} ELSE cached \cup {n}
      /\ UNCHANGED <<cms, nsVars, streamVars, handlingVars, used>>

-----------------------------------------------------------------------------
(* fetchResources, every two seconds, asks for the groups of each namespace   *)
(* known and for the files of each group known, each with the revision it    *)
(* has.  An answer to the revision that Polaris has carries no data and is    *)
(* dropped by doRecv, an empty list by its handler.                           *)
Listed(g) ==
  [f \in {h \in Files : GroupOf[h] = g /\ file[h].present} |->
     [tagged |-> file[f].tagged, fromK8s |-> file[f].fromK8s,
      version |-> file[f].version]]
PolarisGroups == {GroupOf[f] : f \in {h \in Files : file[h].present}}

AskGroups == [type |-> "groups", revision |-> groupRevision, data |-> PolarisGroups]
AskFiles(g) == [type |-> "files", revision |-> filesRevisions[g], data |-> Listed(g)]
Empty(r) == IF r.type = "groups" THEN r.data = {} ELSE DOMAIN r.data = {}
HasData(r) == r.revision # r.data /\ ~Empty(r)
Answers ==
  LET listed == SetToSeq({g \in groups : HasData(AskFiles(g))})
  IN  (IF HasData(AskGroups) THEN << AskGroups >> ELSE << >>)
        \o [i \in DOMAIN listed |-> AskFiles(listed[i])]

FetchResources ==
  /\ watch \in {"open", "ended"}
  /\ Len(responses) < MaxInFlight
  /\ responses' = IF known /\ streamOpen THEN responses \o Answers ELSE responses
  /\ UNCHANGED <<file, cms, nsVars, streamOpen, groups, groupRevision,
                 filesRevisions, handlingVars, toSync, cached, used>>

(* doRecv handles one answer at a time: receiveConfigFiles waits for the      *)
(* executor.                                                                  *)
Ready == batch = {} /\ Exec!Idle

Receive(type) ==
  /\ Ready
  /\ responses # << >> /\ Head(responses).type = type
  /\ responses' = Tail(responses)

ReceiveGroups ==
  /\ Receive("groups")
  /\ groupRevision' = Head(responses).data
  /\ groups' = groups \cup Head(responses).data
  /\ UNCHANGED <<file, cms, nsVars, streamOpen, filesRevisions, handlingVars,
                 toSync, cached, used>>

\* Mutant: the revision of the list is kept once the list is received.
ReceiveConfigFiles_KeepsRevision ==
  /\ Receive("files")
  /\ listing' = Head(responses).data
  /\ batch' = DOMAIN Head(responses).data
  /\ filesRevisions' = [g \in Groups |->
       IF \E f \in batch' : GroupOf[f] = g THEN listing' ELSE filesRevisions[g]]
  /\ UNCHANGED <<file, cms, nsVars, streamOpen, groups, groupRevision,
                 needSyncFiles, fetch, jobs, toSync, cached, used>>

\* Mutant: the next answer is handled while the executor is still at work.
ReceiveConfigFiles_NoWait ==
  /\ batch = {}
  /\ responses # << >> /\ Head(responses).type = "files"
  /\ responses' = Tail(responses)
  /\ listing' = Head(responses).data
  /\ batch' = DOMAIN Head(responses).data
  /\ UNCHANGED <<file, cms, nsVars, streamOpen, groups, groupRevision,
                 filesRevisions, needSyncFiles, fetch, jobs, toSync, cached, used>>

(* The revision of the list is not kept: the list is sent again every time.   *)
ReceiveConfigFiles ==
  /\ Receive("files")
  /\ listing' = Head(responses).data
  /\ batch' = DOMAIN Head(responses).data
  /\ UNCHANGED <<file, cms, nsVars, streamOpen, groups, groupRevision,
                 filesRevisions, needSyncFiles, fetch, jobs, toSync, cached, used>>

\* Mutant: a file once synced is not asked for again.
AllowSyncToConfigMap_OnceOnly(f) ==
  listing[f].tagged /\ ~listing[f].fromK8s /\ needSyncFiles[f] = NoRef

AllowSyncToConfigMap(f) == listing[f].tagged /\ ~listing[f].fromK8s

(* What was handled of the list is not read again. *)
TakeFile(f) ==
  /\ batch' = batch \ {f}
  /\ listing' = Restrict(listing, batch')

(* A file to be synced is fetched by the executor if it is as new as the one *)
(* fetched last; any other has its ConfigMap deleted.                        *)
SyncFile(f) ==
  /\ f \in batch
  /\ AllowSyncToConfigMap(f)
  /\ TakeFile(f)
  /\ IF needSyncFiles[f] = NoRef \/ needSyncFiles[f] <= listing[f].version
     THEN /\ needSyncFiles' = [needSyncFiles EXCEPT ![f] = listing[f].version]
          /\ fetch' = [fetch EXCEPT ![f].pc = "fetch"]
          /\ Exec!Execute(f)
     ELSE UNCHANGED <<needSyncFiles, fetch, jobs>>
  /\ UNCHANGED <<file, cms, nsVars, streamVars, toSync, cached, used>>

DropFile(f) ==
  LET n == MirrorName[f]
  IN  /\ f \in batch
      /\ ~AllowSyncToConfigMap(f)
      /\ TakeFile(f)
      /\ needSyncFiles' = [needSyncFiles EXCEPT ![f] = NoRef]
      /\ \/ /\ AllowDelete /\ cms[n] # NoCm
            /\ SetCm(n, NoCm)
            /\ UNCHANGED used
         \/ /\ ~AllowDelete \/ cms[n] = NoCm
            /\ UNCHANGED <<cms, toSync, used>>
         \/ /\ AllowDelete
            /\ Use("faults", MaxFaults)
            /\ UNCHANGED <<cms, toSync>>
      /\ UNCHANGED <<file, nsVars, streamVars, fetch, jobs, cached>>

(* The executor runs fetchConfigFile. *)
fetchUnchanged ==
  <<file, nsVars, streamVars, needSyncFiles, listing, batch, cached>>
Fetching(f, pc) == fetch[f].pc = pc /\ Exec!Running(f)
FetchDone(f) == fetch' = [fetch EXCEPT ![f] = NoFetch] /\ Exec!Finish(f)
FetchGoesOn(f, next) == fetch' = [fetch EXCEPT ![f] = next] /\ UNCHANGED jobs

\* The error is logged, and that is all.
FetchFails(f) ==
  /\ Exec!Running(f)
  /\ Use("faults", MaxFaults)
  /\ FetchDone(f)
  /\ UNCHANGED <<fetchUnchanged, cms, toSync>>

FetchConfigFile(f) ==
  /\ Fetching(f, "fetch")
  /\ IF file[f].present
     THEN FetchGoesOn(f, [pc |-> "create", hops |-> file[f].hops,
                          version |-> file[f].version])
     ELSE FetchDone(f)
  /\ UNCHANGED <<fetchUnchanged, cms, toSync, used>>

Mirror(f) == [fromPolaris |-> TRUE, tagged |-> FALSE, hops |-> fetch[f].hops + 1,
              version |-> fetch[f].version]

\* In a namespace that is gone the creation fails.
CreateCm(f) ==
  /\ Fetching(f, "create")
  /\ \/ /\ nsExists /\ cms[MirrorName[f]] = NoCm
        /\ SetCm(MirrorName[f], Mirror(f)) /\ FetchDone(f)
     \/ /\ cms[MirrorName[f]] # NoCm
        /\ FetchGoesOn(f, [fetch[f] EXCEPT !.pc = "update"])
        /\ UNCHANGED <<cms, toSync>>
     \/ /\ ~nsExists /\ FetchDone(f)
        /\ UNCHANGED <<cms, toSync>>
  /\ UNCHANGED <<fetchUnchanged, used>>

(* The update names no resource version: it overwrites whatever there is. *)
UpdateCm(f) ==
  /\ Fetching(f, "update")
  /\ IF cms[MirrorName[f]] = NoCm THEN UNCHANGED <<cms, toSync>>
     ELSE IF cms[MirrorName[f]] = Mirror(f) THEN UNCHANGED <<cms, toSync>>
     ELSE SetCm(MirrorName[f], Mirror(f))
  /\ FetchDone(f)
  /\ UNCHANGED <<fetchUnchanged, used>>

Executor(f) == FetchConfigFile(f) \/ CreateCm(f) \/ UpdateCm(f)

-----------------------------------------------------------------------------
Users ==
  \/ \E f \in Files : RemoveFile(f) \/ \E tagged \in BOOLEAN : PutFile(f, tagged)
  \/ \E n \in DOMAIN PushedAs :
       RemoveCm(n) \/ \E tagged \in CmTags : PutCm(n, tagged)
  \/ CreateNamespace \/ DeleteNamespace

Handle(f) == SyncFile(f) \/ DropFile(f) \/ Executor(f)

Next ==
  \/ Users
  \/ Watcher \/ WatchEnds \/ StreamBreaks
  \/ \E n \in CmNames : SyncConfigMap(n)
  \/ FetchResources \/ ReceiveGroups \/ ReceiveConfigFiles
  \/ \E f \in Files : Handle(f) \/ FetchFails(f)

(* Start runs to its end; the ticker of fetchResources, the loop of doRecv and *)
(* the goroutines of the executor run for ever, and so do the workers of the   *)
(* other direction, as in ConfigSync.                                          *)
Fairness ==
  /\ WF_vars(Watcher)
  /\ WF_vars(FetchResources)
  /\ WF_vars(ReceiveGroups \/ ReceiveConfigFiles)
  /\ \A f \in Files : WF_vars(Handle(f))
  /\ \A n \in CmNames : WF_vars(SyncConfigMap(n))

Spec == Init /\ [][Next]_vars
FairSpec == Spec /\ Fairness

-----------------------------------------------------------------------------
Cms == [fromPolaris : BOOLEAN, tagged : BOOLEAN, hops : Nat, version : Nat]

(* The shape of the state; what the executor fetches is known to be needed, as *)
(* receiveConfigFiles waits for it before it looks at the next list.           *)
TypeOK ==
  /\ file \in [Files -> [present : BOOLEAN, tagged : BOOLEAN, fromK8s : BOOLEAN,
                         hops : Nat, version : Nat]]
  /\ \A n \in CmNames : cms[n] # NoCm => nsExists /\ cms[n] \in Cms
  /\ watch \in {"unlisted", "listed", "open", "ended"}
  /\ nsExists \in BOOLEAN /\ known \in BOOLEAN /\ streamOpen \in BOOLEAN
  /\ nsEvents \in Seq({"added", "deleted"})
  /\ \A i \in DOMAIN responses : responses[i].type \in {"groups", "files"}
  /\ groups \subseteq Groups /\ groupRevision \subseteq groups
  /\ needSyncFiles \in [Files -> Nat \cup {NoRef}]
  /\ batch \subseteq DOMAIN listing
  /\ \A f \in Files :
       /\ fetch[f].pc \in {"idle", "fetch", "create", "update"}
       /\ fetch[f].pc # "idle" => needSyncFiles[f] # NoRef
  /\ jobs \in [ExecWorkers -> Seq(Files)]
  /\ toSync \subseteq CmNames /\ cached \subseteq DOMAIN PushedAs

(* options/polaris.go:52: both directions at once, yet nothing goes round in    *)
(* circles.  The tags of a file are those of the list and the content is        *)
(* fetched later, so what came from Kubernetes may come back once, under        *)
(* another name; but nothing that came from Polaris is ever sent to Polaris     *)
(* again.                                                                       *)
NoCycle ==
  /\ \A f \in Files : file[f].hops <= 1
  /\ \A n \in CmNames : cms[n] # NoCm => cms[n].hops <= 2

(* A namespace that exists is polled in the end, however it was created, gone   *)
(* and created again around the list and the watch that Start makes, as long as *)
(* the watch lasts; nothing brings in a namespace created after it has ended.   *)
NamespacesFollowed == <>[](watch = "open" /\ nsExists => known)

(* Once users are quiet, every file to be synced is in its ConfigMap, with its   *)
(* current content, and any other file of the list has none: whatever failed,   *)
(* was read too early or was overwritten by users is repaired by a later tick.  *)
(* (The ConfigMap of a file that is deleted in Polaris stays.)  This holds as   *)
(* long as the stream and the namespace watch last, whenever the namespace was  *)
(* created, deleted or created again.                                           *)
Mirrored(f) ==
  LET n == MirrorName[f]
  IN  file[f].present =>
        IF file[f].tagged /\ ~file[f].fromK8s
        THEN cms[n] # NoCm /\ cms[n].fromPolaris /\ cms[n].version = file[f].version
        ELSE AllowDelete => cms[n] = NoCm
MirrorConverges ==
  <>[](streamOpen /\ (watch = "open" \/ known) /\ nsExists =>
         \A f \in Files : Mirrored(f))
=============================================================================
