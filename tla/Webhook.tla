-------------------------------- MODULE Webhook --------------------------------
(***************************************************************************)
(* The injecting webhook (pkg/inject/pkg/kube/inject): requests about pods *)
(* served at once, over the configuration that InjectConfig reloads, with  *)
(* the patches of PatchBuild.                                              *)
(*                                                                         *)
(* A request is a goroutine; a step of it is what runs between two         *)
(* accesses to something shared: the labels of the namespace, the template *)
(* in use, the mesh configuration, the secret of the namespace.  A pod may *)
(* be sent to the webhook more than once: each webhook entry whose         *)
(* selector it matches calls for itself, and an injected pod's manifest    *)
(* may be submitted again.                                                 *)
(***************************************************************************)
EXTENDS InjectConfig, PatchBuild

CONSTANTS
  Pods,
  UserPods,      \* the manifests users submit
  Edits,         \* annotations users change when they submit a manifest again
  Templates,     \* by mode and version: policy, selectors, what is injected
  NsLabels,      \* what the namespace's mode label may be, "unset" if absent
  DefaultMode,   \* defaultSidecarMode
  MaxCalls,      \* bound: calls of the webhook for one pod
  MaxFaults      \* bound: failing calls of the API server

VARIABLES
  pod,       \* the manifest of each pod, or Null
  request,   \* the request about each pod
  rootCert,  \* the namespace has a copy of the root certificate's secret
  faults,    \* how many calls have failed
  own,       \* history: the items of each pod that are its user's
  past       \* history: what was injected into each pod, and what went wrong

(* What the webhook reads of a manifest. *)
ManifestFields ==
  {"lists", "annotations", "status", "labels", "hostNetwork", "clusterFirst"}

ASSUME WebhookAssumption ==
  /\ \A m \in UserPods : DOMAIN m = ManifestFields
  /\ DefaultMode \in Modes
  /\ MaxCalls \in Nat \ {0} /\ MaxFaults \in Nat

podVars == <<pod, request, rootCert, faults, own, past>>
vars == <<configVars, podVars>>

Idle == [pc |-> "none", calls |-> 0, mode |-> "mesh", template |-> 1, conf |-> 1,
         configured |-> TRUE]
Fresh == [injected |-> Null, agent |-> 0, faulty |-> FALSE]

Init ==
  /\ ConfigInit
  /\ pod = [p \in Pods |-> Null]
  /\ request = [p \in Pods |-> Idle]
  /\ rootCert = FALSE
  /\ faults = 0
  /\ own = [p \in Pods |-> Null]
  /\ past = [p \in Pods |-> Fresh]

-----------------------------------------------------------------------------
(* Annotations are a function from the keys that are set, or Null. *)
Annotation(m, key) ==
  IF m.annotations # Null /\ key \in DOMAIN m.annotations
  THEN m.annotations[key] ELSE "unset"

ParseSidecarMode(val) ==
  CASE val = "dns" -> "dns" [] val = "java-agent" -> "javaAgent" [] OTHER -> "mesh"

isJavaAgentMode(m) == Annotation(m, "javaagent") = "true"
isMeshMode(m) == Annotation(m, "openOnDemand") = "true"

(* getNamespaceInjectMode; a namespace that cannot be read has the default mode. *)
NamespaceModes ==
  {IF label = "unset" THEN DefaultMode ELSE ParseSidecarMode(label) : label \in NsLabels}

(* parseInjectionAnnotation: the new annotation hides the old one. *)
RequestedByAnnotation(m) ==
  IF Annotation(m, "inject") # "unset" THEN Annotation(m, "inject")
  ELSE Annotation(m, "sidecar-inject")

(* requireInject: annotation, then selectors, then policy. *)
requireInject(m, mode, t) ==
  /\ ~(m.hostNetwork /\ mode \in {"mesh", "dns"})
  /\ t.policy \in {"enabled", "disabled"}
  /\ \/ RequestedByAnnotation(m) = "yes"
     \/ /\ RequestedByAnnotation(m) # "no"
        /\ m.labels \cap t.never = {}
        /\ m.labels \cap t.always # {} \/ t.policy = "enabled"

(* checkPodData, without the validation of annotations. *)
checkPodData(m, mode) == mode = "mesh" => m.clusterFirst

(* injectionStatus: what the status annotation names, or else names that       *)
(* injectors of old used.                                                      *)
LegacyStatus ==
  [initContainers |-> <<"istio-init", "enable-core-dump">>,
   containers |-> <<"polaris-proxy">>,
   volumes |-> <<"polaris-certs", "polaris-envoy">>,
   imagePullSecrets |-> << >>]
injectionStatus(m) ==
  IF m.status # Null /\ \E l \in Lists : m.status[l] # << >> THEN m.status
  ELSE LegacyStatus

(* What the deployed templates and the pods users submit are.  The names that  *)
(* are injected are the injector's own; only the java agent's template mounts  *)
(* its directory, and it adds no container.  A user's pod would be admitted.   *)
Injects(mode, version) == Templates[mode][version].lists
InjectorNames(l) ==
  Range(LegacyStatus[l])
    \cup UNION {Range(Injects(mode, v)[l]) : mode \in Modes, v \in 1..MaxVersions["inject"]}

ASSUME TemplatesAssumption ==
  \A mode \in Modes, v \in 1..MaxVersions["inject"] :
    /\ Injects(mode, v) \in [Lists -> Seq(STRING)]
    /\ \A l \in Lists : IsInjective(Injects(mode, v)[l])
    /\ mode = "javaAgent" <=> AgentDir \in Range(Injects(mode, v).volumes)
    /\ mode = "javaAgent" => Injects(mode, v).containers = << >>

ASSUME UserPodsAssumption ==
  \A m \in UserPods :
    /\ m.lists \in [Lists -> {Null} \cup Seq([name : STRING, agents : {0}])]
    /\ m.status = Null
    /\ ValidPod(m.lists)
    /\ \A l \in Lists : Range(Names(m.lists[l])) \cap InjectorNames(l) = {}

ASSUME NullAssumption ==
  /\ Null \notin Seq([name : STRING, agents : Nat])
  /\ Null \notin [Lists -> Seq(STRING)]
  /\ Null \notin [Lists -> {Null} \cup Seq([name : STRING, agents : Nat])]
  /\ Null \notin [mode : Modes, version : Nat]

-----------------------------------------------------------------------------
(* The steps of a request. *)
Serving == {"mode", "template", "config", "render", "getCert", "createCert", "patch"}
At(p, pc) == up /\ request[p].pc = pc
Goto(p, pc) == request' = [request EXCEPT ![p].pc = pc]
Fault == faults < MaxFaults /\ faults' = faults + 1
Faulty(p) == past' = [past EXCEPT ![p].faulty = TRUE]
requestOnly == <<configVars, pod, rootCert, faults, own, past>>

(* getInjectMode, but for a pod that asks for loading on demand. *)
GetInjectMode(p) ==
  LET m == pod[p]
      With(mode) == request' = [request EXCEPT ![p].pc = "template", ![p].mode = mode]
  IN  /\ At(p, "mode")
      /\ isJavaAgentMode(m) \/ ~isMeshMode(m)
      /\ \/ /\ isJavaAgentMode(m)
            /\ With("javaAgent")
            /\ UNCHANGED <<faults, past>>
         \/ /\ ~isJavaAgentMode(m) /\ Annotation(m, "sidecar-mode") # "unset"
            /\ With(ParseSidecarMode(Annotation(m, "sidecar-mode")))
            /\ UNCHANGED <<faults, past>>
         \/ /\ ~isJavaAgentMode(m) /\ Annotation(m, "sidecar-mode") = "unset"
            /\ \/ /\ \E mode \in NamespaceModes : With(mode)
                  /\ UNCHANGED <<faults, past>>
               \/ Fault /\ Faulty(p) /\ With(DefaultMode)
      /\ UNCHANGED <<configVars, pod, rootCert, own>>

(* setMeshEnvoyConfig writes into the map of the configuration in use.  The    *)
(* lock is held, but not by a template that is being executed over the map:    *)
(* the runtime may stop the process for that.                                  *)
BeingRead(conf) == \E q \in Pods : At(q, "render") /\ request[q].conf = conf

SetOnDemand(p) ==
  /\ At(p, "mode")
  /\ ~isJavaAgentMode(pod[p]) /\ isMeshMode(pod[p])
  /\ \/ /\ SetMeshEnvoyConfigWithKV
        /\ request' = [request EXCEPT ![p].pc = "template", ![p].mode = "mesh"]
        /\ UNCHANGED past
     \/ /\ BeingRead(Len(meshConfs))
        /\ Crash
        /\ LET cut == {q \in Pods : request[q].pc \in Serving}
           IN  /\ request' = [q \in Pods |-> IF q \in cut THEN [request[q] EXCEPT !.pc = "refused"]
                                             ELSE request[q]]
               /\ past' = [q \in Pods |-> IF q \in cut THEN [past[q] EXCEPT !.faulty = TRUE]
                                          ELSE past[q]]
  /\ UNCHANGED <<pod, rootCert, faults, own>>

(* The template, and with it whether to inject at all. *)
GetTemplate(p) ==
  LET mode == request[p].mode
      t == Templates[mode][templates[mode]]
  IN  /\ At(p, "template")
      /\ request' = [request EXCEPT
           ![p].template = templates[mode],
           ![p].pc = IF checkPodData(pod[p], mode) /\ requireInject(pod[p], mode, t)
                     THEN "config" ELSE "answered"]
      /\ UNCHANGED requestOnly

GetMeshEnvoyConfig(p) ==
  /\ At(p, "config")
  /\ request' = [request EXCEPT ![p].pc = "render", ![p].conf = Len(meshConfs)]
  /\ UNCHANGED requestOnly

(* parseTemplate; then createPatch gets the environment of the init container  *)
(* from the API server, and for a sidecar with mTLS sees to its secret.  An     *)
(* error of these calls is logged, and the container added without.             *)
UsesRootCert(p) ==
  request[p].mode \in {"mesh", "dns"} /\ Annotation(pod[p], "tls-mode") \notin {"unset", "none"}
Render(p) ==
  /\ At(p, "render")
  /\ \E ok \in BOOLEAN :
       /\ \/ ok /\ UNCHANGED <<faults, past>>
          \/ ~ok /\ Fault /\ Faulty(p)
       /\ request' = [request EXCEPT
            ![p].configured = ok,
            ![p].pc = IF UsesRootCert(p) THEN "getCert" ELSE "patch"]
  /\ UNCHANGED <<configVars, pod, rootCert, own>>

WithoutEnv(p) ==
  /\ request' = [request EXCEPT ![p].pc = "patch", ![p].configured = FALSE]
  /\ Faulty(p)


(* ensureRootCertExist looks for the secret, and copies it if it is not there. *)
GetRootCert(p) ==
  /\ At(p, "getCert")
  /\ \/ Goto(p, IF rootCert THEN "patch" ELSE "createCert") /\ UNCHANGED <<faults, past>>
     \/ Fault /\ WithoutEnv(p)
  /\ UNCHANGED <<configVars, pod, rootCert, own>>

\* Mutant: a secret that another request has created meanwhile is an error.
CreateRootCert_AlreadyExists(p) ==
  /\ At(p, "createCert")
  /\ IF rootCert
     THEN /\ request' = [request EXCEPT ![p].pc = "patch", ![p].configured = FALSE]
          /\ UNCHANGED rootCert
     ELSE Goto(p, "patch") /\ rootCert' = TRUE
  /\ UNCHANGED <<configVars, pod, faults, own, past>>

CreateRootCert(p) ==
  /\ At(p, "createCert")
  /\ \/ Goto(p, "patch") /\ rootCert' = TRUE /\ UNCHANGED <<faults, past>>
     \/ Fault /\ WithoutEnv(p) /\ UNCHANGED rootCert
  /\ UNCHANGED <<configVars, pod, own>>

-----------------------------------------------------------------------------
(* The patch and the API server. *)
Status(t) == [l \in Lists |-> t.lists[l]]

(* updateAnnotation writes the status annotation anew. *)
Injected(m, t, lists) ==
  [m EXCEPT !.lists = lists, !.status = Status(t),
            !.annotations = IF @ = Null THEN << >> ELSE @]

(* createPatch and its application.  updateContainer writes into the map of     *)
(* annotations, and panics if the pod came without any: the call then fails, as *)
(* it does if the patch cannot be applied, and the pod is refused.              *)
Patch(p) ==
  LET m == pod[p]
      mode == request[p].mode
      t == Templates[mode][request[p].template]
      lists == ApplyPatch(m.lists, createPatch(mode, m.lists, injectionStatus(m), t.lists))
      fails == lists = Null \/ (mode = "javaAgent" /\ m.annotations = Null)
  IN  /\ At(p, "patch")
      /\ Goto(p, IF fails THEN "refused" ELSE "answered")
      /\ pod' = IF fails THEN pod ELSE [pod EXCEPT ![p] = Injected(m, t, lists)]
      /\ past' = [past EXCEPT
           ![p].injected = IF fails THEN @ ELSE [mode |-> mode, version |-> request[p].template],
           ![p].agent = IF mode = "javaAgent" THEN @ + 1 ELSE @]
      /\ UNCHANGED <<configVars, rootCert, faults, own>>

Submit(p) ==
  /\ At(p, "none")
  /\ \E m \in UserPods : /\ pod' = [pod EXCEPT ![p] = m]
                        /\ own' = [own EXCEPT ![p] = m.lists]
  /\ request' = [request EXCEPT ![p].pc = "mode", ![p].calls = 1]
  /\ UNCHANGED <<configVars, rootCert, faults, past>>

Call(p) == /\ up
           /\ request[p].calls < MaxCalls
           /\ request' = [request EXCEPT ![p].pc = "mode", ![p].calls = @ + 1]

(* Another entry of the webhook configuration matches the pod. *)
CallAgain(p) ==
  /\ request[p].pc = "answered"
  /\ Call(p)
  /\ UNCHANGED requestOnly

(* After the last call the API server validates the pod. *)
Validate(p) ==
  /\ request[p].pc = "answered"
  /\ Goto(p, IF ValidPod(pod[p].lists) THEN "running" ELSE "refused")
  /\ UNCHANGED requestOnly

(* A pod's manifest, as it is, is submitted again, with an annotation changed. *)
Resubmit(p) ==
  /\ request[p].pc = "running"
  /\ Call(p)
  /\ \E e \in Edits :
       pod' = [pod EXCEPT ![p].annotations =
                 LET old == IF @ = Null THEN << >> ELSE @
                 IN  [k \in DOMAIN old \cup {e.key} |-> IF k = e.key THEN e.value ELSE old[k]]]
  /\ UNCHANGED <<configVars, rootCert, faults, own, past>>

-----------------------------------------------------------------------------
Serve(p) ==
  \/ GetInjectMode(p) \/ SetOnDemand(p) \/ GetTemplate(p) \/ GetMeshEnvoyConfig(p)
  \/ Render(p) \/ GetRootCert(p) \/ CreateRootCert(p) \/ Patch(p)

ApiServer(p) == Submit(p) \/ CallAgain(p) \/ Validate(p) \/ Resubmit(p)

Next ==
  \/ \E v \in Volumes : ChangeDisk(v) /\ UNCHANGED podVars
  \/ RunStep /\ UNCHANGED podVars
  \/ \E p \in Pods : Serve(p) \/ ApiServer(p)

(* The goroutine of Run loops for ever, and the process is started again when   *)
(* it dies.  Requests are not needed to be fair: nothing waits for them.        *)
Spec == Init /\ [][Next]_vars
FairSpec == Spec /\ WF_vars(RunStep /\ UNCHANGED podVars)

-----------------------------------------------------------------------------
PCs == Serving \cup {"none", "answered", "running", "refused"}

(* The shape of the state. *)
TypeOK ==
  /\ ConfigTypeOK
  /\ request \in [Pods -> [pc : PCs, calls : 0..MaxCalls, mode : Modes,
                           template : 1..MaxVersions["inject"], conf : DOMAIN meshConfs,
                           configured : BOOLEAN]]
  /\ \A p \in Pods : IF request[p].pc = "none" THEN pod[p] = Null
                     ELSE DOMAIN pod[p] = ManifestFields
  /\ rootCert \in BOOLEAN
  /\ faults \in 0..MaxFaults

(* webhook.go:414: what an earlier injection added is removed, by its names.    *)
(* So however often a pod is called for, in whichever modes and from whichever  *)
(* versions of the templates, a pod that runs has its user's items, in their    *)
(* order, and after them what the template last used injects, each once; and    *)
(* the agent is mounted into every container of its user, or into none.         *)
InjectedAsIntended ==
  \A p \in Pods :
    request[p].pc = "running" /\ past[p].injected # Null =>
      LET i == past[p].injected
      IN  /\ \A l \in Lists :
               Names(pod[p].lists[l]) =
                 Names(own[p][l]) \o Templates[i.mode][i.version].lists[l]
          /\ \A k \in DOMAIN Items(own[p].containers) :
               pod[p].lists.containers[k].agents = IF i.mode = "javaAgent" THEN 1 ELSE 0

(* No pod is refused because of what was injected before: called for again, or  *)
(* submitted again with another mode or version, it is admitted as it was the   *)
(* first time.  The java agent is excepted: a pod is refused if it is to be     *)
(* injected a second time, or came without annotations.                         *)
Refused(p) == request[p].pc = "refused" /\ ~past[p].faulty
RefusedOnlyForAgent ==
  \A p \in Pods :
    Refused(p) => past[p].agent > 0 /\ (pod[p].annotations = Null \/ pod[p].status # Null)

(* mesh/patch.go:130: the namespace's copy of the root certificate is made by   *)
(* the first request that needs it.  Two requests may both find it missing; yet *)
(* every sidecar with mTLS that is injected without a failing call has its      *)
(* environment, and its secret is there.                                        *)
SidecarConfigured ==
  \A p \in Pods :
    At(p, "patch") /\ ~past[p].faulty =>
      request[p].configured /\ (UsesRootCert(p) => rootCert)
=============================================================================
