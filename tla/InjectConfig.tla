----------------------------- MODULE InjectConfig -----------------------------
(***************************************************************************)
(* The configuration of the webhook: the loop of Webhook.Run that watches  *)
(* the files, loadConfig, which reads them one by one, and what requests   *)
(* read of it (pkg/inject/pkg/config, webhook.go).                         *)
(*                                                                         *)
(* The files are mounted from three volumes, each of which is replaced as  *)
(* a whole, so a file's content is the version of its volume.              *)
(***************************************************************************)
EXTENDS Naturals, Sequences, FiniteSets

CONSTANTS
  NotLoading,   \* loadConfig is not running
  Breakable,    \* volumes that may hold a file loadConfig rejects
  MaxVersions   \* bound: the versions of each volume

Modes == {"mesh", "dns", "javaAgent"}
Files == <<"mesh", "dns", "javaAgent", "bootstrap", "cert", "key">>
VolumeOf == [mesh |-> "inject", dns |-> "inject", javaAgent |-> "inject",
             bootstrap |-> "bootstrap", cert |-> "certs", key |-> "certs"]
Volumes == {"inject", "bootstrap", "certs"}
ASSUME InjectConfigAssumption ==
  /\ MaxVersions \in [Volumes -> Nat \ {0}]
  /\ NotLoading \notin Seq(Nat)

(* GetWatchList. *)
Watched == {"inject", "certs"}

VARIABLES
  disk,        \* what the volumes hold
  events,      \* the watcher has something to report
  timerC,      \* the debounce timer is running
  loading,     \* the versions loadConfig has read, or NotLoading
  up,          \* the process has its configuration and serves requests
  templates,   \* the version of each mode's template in use
  cert,        \* the version of the certificate in use
  meshConfs    \* every MeshEnvoyConfig there has been; the last is in use

configVars == <<disk, events, timerC, loading, up, templates, cert, meshConfs>>
servedVars == <<templates, cert, meshConfs>>

MeshConf(version) == [version |-> version, openDemand |-> FALSE]

ConfigInit ==
  /\ disk = [v \in Volumes |-> [version |-> 1, ok |-> TRUE]]
  /\ events = FALSE
  /\ timerC = FALSE
  /\ loading = NotLoading
  /\ up = TRUE
  /\ templates = [m \in Modes |-> 1]
  /\ cert = 1
  /\ meshConfs = <<MeshConf(1)>>

-----------------------------------------------------------------------------
(* The content of a volume is replaced. *)
ChangeDisk(v) ==
  /\ disk[v].version < MaxVersions[v]
  /\ \E ok \in BOOLEAN :
       /\ ok \/ v \in Breakable
       /\ disk' = [disk EXCEPT ![v] = [version |-> @.version + 1, ok |-> ok]]
  /\ events' = (events \/ v \in Watched)
  /\ UNCHANGED <<timerC, loading, up, servedVars>>

(* Run's loop.  While it loads, it takes no events. *)
Waiting == up /\ loading = NotLoading

\* Mutant: an event that comes while the files are loaded is dropped.
WatchEvent_NotWhenLoading ==
  /\ events
  /\ events' = FALSE
  /\ timerC' = (timerC \/ Waiting)
  /\ UNCHANGED <<disk, loading, up, servedVars>>

WatchEvent ==
  /\ Waiting
  /\ events
  /\ events' = FALSE
  /\ timerC' = TRUE
  /\ UNCHANGED <<disk, loading, up, servedVars>>

TimerFires ==
  /\ Waiting
  /\ timerC
  /\ timerC' = FALSE
  /\ loading' = << >>
  /\ UNCHANGED <<disk, events, up, servedVars>>

(* loadConfig reads the next file.  A key that does not fit the certificate    *)
(* is an error like a file that cannot be read or parsed: UpdateTemplateConfig *)
(* then changes nothing, and a process that is starting starts again.          *)
ReadFile ==
  /\ loading # NotLoading
  /\ Len(loading) < Len(Files)
  /\ LET file == Files[Len(loading) + 1]
         content == disk[VolumeOf[file]]
         readable == content.ok /\ (file = "key" => content.version = loading[5])
     IN  loading' = IF readable THEN Append(loading, content.version)
                    ELSE IF up THEN NotLoading ELSE << >>
  /\ UNCHANGED <<disk, events, timerC, up, servedVars>>

(* UpdateTemplateConfig, or NewTemplateConfig, with all files read. *)
UpdateTemplateConfig ==
  /\ loading # NotLoading
  /\ Len(loading) = Len(Files)
  /\ templates' = [mesh |-> loading[1], dns |-> loading[2], javaAgent |-> loading[3]]
  /\ meshConfs' = Append(meshConfs, MeshConf(loading[4]))
  /\ cert' = loading[5]
  /\ loading' = NotLoading
  /\ up' = TRUE
  /\ UNCHANGED <<disk, events, timerC>>

(* SetMeshEnvoyConfigWithKV, for the one key that is ever set. *)
SetMeshEnvoyConfigWithKV ==
  /\ meshConfs' = [meshConfs EXCEPT ![Len(meshConfs)].openDemand = TRUE]
  /\ UNCHANGED <<disk, events, timerC, loading, up, templates, cert>>

\* Mutant: the process is not started again.
Crash_NoRestart ==
  /\ up' = FALSE
  /\ loading' = NotLoading
  /\ events' = FALSE
  /\ timerC' = FALSE
  /\ UNCHANGED <<disk, servedVars>>

(* The process dies and is started again. *)
Crash ==
  /\ up' = FALSE
  /\ loading' = << >>
  /\ events' = FALSE
  /\ timerC' = FALSE
  /\ UNCHANGED <<disk, servedVars>>

RunStep == WatchEvent \/ TimerFires \/ ReadFile \/ UpdateTemplateConfig

-----------------------------------------------------------------------------
ConfigTypeOK ==
  /\ \A v \in Volumes : disk[v] \in [version : 1..MaxVersions[v], ok : BOOLEAN]
  /\ {events, timerC, up} \subseteq BOOLEAN
  /\ loading # NotLoading =>
       /\ Len(loading) <= Len(Files)
       /\ \A i \in DOMAIN loading : loading[i] \in 1..disk[VolumeOf[Files[i]]].version
  /\ templates \in [Modes -> 1..disk["inject"].version]
  /\ cert \in 1..disk["certs"].version
  /\ Len(meshConfs) > 0
  /\ \A i \in DOMAIN meshConfs :
       meshConfs[i] \in [version : 1..disk["bootstrap"].version, openDemand : BOOLEAN]
  /\ ~up => loading # NotLoading

UpToDate ==
  (\A v \in Volumes : disk[v].ok) =>
    /\ \A m \in Modes : templates[m] = disk["inject"].version
    /\ cert = disk["certs"].version

(* webhook.go:175: no update is lost.  Once the loop has no event, no timer and *)
(* no loading left, what is in use is what is on the disk, whatever changed     *)
(* between the files that were read, and whatever attempt was given up.  (As    *)
(* long as no bootstrap file is rejected: nothing tells of one that is          *)
(* replaced.)                                                                   *)
NoUpdateLost == ~events /\ ~timerC /\ loading = NotLoading => UpToDate

(* webhook.go:115: the directories of the files are watched so that updates   *)
(* are caught.  A change may fall between the event of an earlier one and the *)
(* end of its loading, between two of the files loadConfig reads, and between *)
(* certificate and key; yet once the volumes are quiet and readable, requests *)
(* get the templates and the certificate that are on the disk.  (Not the mesh *)
(* configuration: its volume is not watched.)                                 *)
ConfigConverges == <>[]UpToDate
=============================================================================
