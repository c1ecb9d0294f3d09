----------------------------- MODULE WebhookProofs -----------------------------
(***************************************************************************)
(* Theorems about Webhook: what a request knows of the secret it asked     *)
(* for, whoever else is served meanwhile; what the loop that reloads the   *)
(* configuration knows of the disk; and the shape of the whole state.      *)
(***************************************************************************)
EXTENDS Webhook, SequenceTheorems, TLAPS

(* Every step assigns to parts of these records. *)
Shaped ==
  /\ DOMAIN request = Pods /\ DOMAIN past = Pods /\ DOMAIN pod = Pods
  /\ \A p \in Pods : DOMAIN request[p] = DOMAIN Idle /\ DOMAIN past[p] = DOMAIN Fresh

(* Only a sidecar with mTLS is on its way through ensureRootCertExist, and it  *)
(* has its environment; past it, the secret is there.                         *)
Served(p) ==
  /\ request[p].pc \in {"getCert", "createCert"} =>
       UsesRootCert(p) /\ (past[p].faulty \/ request[p].configured)
  /\ request[p].pc = "patch" /\ ~past[p].faulty =>
       request[p].configured /\ (UsesRootCert(p) => rootCert)

IInv == Shaped /\ \A p \in Pods : Served(p)

-----------------------------------------------------------------------------
LEMMA InitIInv == Init => IInv
BY DEF Init, IInv, Shaped, Served, Idle, Fresh

LEMMA InvConfigured == IInv => SidecarConfigured
BY DEF IInv, Served, SidecarConfigured, At

(* A request that is neither moved nor given another pod, while the secret, *)
(* once there, stays.                                                       *)
LEMMA Undisturbed ==
  ASSUME IInv, NEW p \in Pods, request'[p] = request[p], pod'[p] = pod[p],
         past[p].faulty => past'[p].faulty, rootCert => rootCert'
  PROVE  Served(p)'
BY DEF IInv, Served, UsesRootCert

(* A step of one request leaves the others as they are. *)
LEMMA OthersLeft ==
  ASSUME IInv, NEW p \in Pods, Serve(p) \/ ApiServer(p), NEW q \in Pods \ {p},
         ~SetOnDemand(p)
  PROVE  request'[q] = request[q] /\ pod'[q] = pod[q] /\ past'[q] = past[q]
<1>1. request'[q] = request[q] /\ pod'[q] = pod[q]
  <2>1. CASE GetInjectMode(p)
    BY <2>1 DEF GetInjectMode, IInv, Shaped
  <2>2. CASE GetTemplate(p) \/ GetMeshEnvoyConfig(p)
    BY <2>2 DEF GetTemplate, GetMeshEnvoyConfig, requestOnly, IInv, Shaped
  <2>3. CASE Render(p)
    BY <2>3 DEF Render, IInv, Shaped
  <2>4. CASE GetRootCert(p) \/ CreateRootCert(p)
    BY <2>4 DEF GetRootCert, CreateRootCert, Goto, WithoutEnv, IInv, Shaped
  <2>5. CASE Patch(p)
    <3>1. \E lists : pod' = pod \/ pod' = [pod EXCEPT ![p] = lists]
      BY <2>5 DEF Patch
    <3>2. request'[q] = request[q]
      BY <2>5 DEF Patch, Goto, IInv, Shaped
    <3>3. QED
      BY <3>1, <3>2 DEF IInv, Shaped
  <2>6. CASE ApiServer(p)
    BY <2>6 DEF ApiServer, Submit, CallAgain, Validate, Resubmit, Call, Goto,
                requestOnly, IInv, Shaped
  <2>7. QED
    BY <2>1, <2>2, <2>3, <2>4, <2>5, <2>6 DEF Serve
<1>2. past'[q] = past[q]
  BY DEF IInv, Shaped, Serve, ApiServer, GetInjectMode, GetTemplate,
         GetMeshEnvoyConfig, Render, GetRootCert, CreateRootCert, Patch, Submit,
         CallAgain, Validate, Resubmit, Faulty, WithoutEnv, requestOnly
<1>3. QED
  BY <1>1, <1>2

LEMMA OthersUndisturbed ==
  ASSUME IInv, NEW p \in Pods, Serve(p) \/ ApiServer(p), NEW q \in Pods \ {p},
         ~SetOnDemand(p)
  PROVE  Served(q)'
<1>1. request'[q] = request[q] /\ pod'[q] = pod[q] /\ past'[q] = past[q]
  BY OthersLeft
<1>2. rootCert => rootCert'
  BY DEF Serve, ApiServer, GetInjectMode, GetTemplate, GetMeshEnvoyConfig, Render,
         GetRootCert, CreateRootCert, Patch, Submit, CallAgain, Validate, Resubmit,
         requestOnly
<1>3. QED
  BY <1>1, <1>2, Undisturbed

LEMMA ShapedStep ==
  ASSUME Shaped, [Next]_vars
  PROVE  Shaped'
<1>1. CASE UNCHANGED podVars
  BY <1>1 DEF Shaped, podVars
<1>2. ASSUME NEW p \in Pods, Serve(p)
      PROVE  Shaped'
  <2>1. CASE GetInjectMode(p)
    BY <2>1 DEF GetInjectMode, Faulty, Shaped
  <2>2. CASE SetOnDemand(p)
    BY <2>2 DEF SetOnDemand, Shaped
  <2>3. CASE GetTemplate(p) \/ GetMeshEnvoyConfig(p)
    BY <2>3 DEF GetTemplate, GetMeshEnvoyConfig, requestOnly, Shaped
  <2>4. CASE Render(p)
    BY <2>4 DEF Render, Faulty, Shaped
  <2>5. CASE GetRootCert(p) \/ CreateRootCert(p)
    BY <2>5 DEF GetRootCert, CreateRootCert, WithoutEnv, Faulty, Goto, Shaped
  <2>6. CASE Patch(p)
    BY <2>6 DEF Patch, Goto, Shaped
  <2>7. QED
    BY <1>2, <2>1, <2>2, <2>3, <2>4, <2>5, <2>6 DEF Serve
<1>3. ASSUME NEW p \in Pods, ApiServer(p)
      PROVE  Shaped'
  BY <1>3 DEF ApiServer, Submit, CallAgain, Validate, Resubmit, Call, Goto,
              requestOnly, Shaped
<1>4. QED
  BY <1>1, <1>2, <1>3 DEF Next, vars

(* The request that takes the step. *)
LEMMA ServeStep ==
  ASSUME IInv, NEW p \in Pods, Serve(p), ~SetOnDemand(p)
  PROVE  Served(p)'
<1>1. CASE GetInjectMode(p)
  <2>1. request'[p].pc = "template"
    BY <1>1 DEF GetInjectMode, IInv, Shaped, Idle
  <2>2. QED
    BY <2>1 DEF Served
<1>2. CASE GetTemplate(p)
  <2>1. request'[p].pc \in {"config", "answered"}
    BY <1>2 DEF GetTemplate, IInv, Shaped, Idle
  <2>2. QED
    BY <2>1 DEF Served
<1>3. CASE GetMeshEnvoyConfig(p)
  <2>1. request'[p].pc = "render"
    BY <1>3 DEF GetMeshEnvoyConfig, IInv, Shaped, Idle
  <2>2. QED
    BY <2>1 DEF Served
<1>4. CASE Render(p)
  <2>1. PICK ok \in BOOLEAN :
          /\ ok \/ past' = [past EXCEPT ![p].faulty = TRUE]
          /\ request' = [request EXCEPT
               ![p].configured = ok,
               ![p].pc = IF UsesRootCert(p) THEN "getCert" ELSE "patch"]
    BY <1>4 DEF Render, Faulty
  <2>2. /\ request'[p].configured = ok /\ request'[p].mode = request[p].mode
        /\ request'[p].pc = IF UsesRootCert(p) THEN "getCert" ELSE "patch"
    BY <2>1 DEF IInv, Shaped, Idle
  <2>3. ok \/ past'[p].faulty
    BY <2>1 DEF IInv, Shaped, Fresh
  <2>4. UsesRootCert(p)' = UsesRootCert(p)
    BY <1>4, <2>2 DEF Render, UsesRootCert
  <2>5. QED
    BY <2>2, <2>3, <2>4 DEF Served
<1>5. CASE GetRootCert(p) \/ CreateRootCert(p)
  <2>1. request[p].pc \in {"getCert", "createCert"}
    BY <1>5 DEF GetRootCert, CreateRootCert, At
  <2>2. UsesRootCert(p)' = UsesRootCert(p)
    BY <1>5 DEF GetRootCert, CreateRootCert, Goto, WithoutEnv, UsesRootCert, IInv,
                Shaped, Idle
  <2>3. CASE WithoutEnv(p)
    <3>1. past'[p].faulty /\ request'[p].pc = "patch"
      BY <2>3 DEF WithoutEnv, Faulty, IInv, Shaped, Idle, Fresh
    <3>2. QED
      BY <3>1 DEF Served
  <2>4. CASE UNCHANGED past /\ ~WithoutEnv(p)
    <3>1. /\ request'[p].configured = request[p].configured
          /\ \/ request'[p].pc = "patch" /\ rootCert'
             \/ request'[p].pc = "createCert"
      BY <1>5, <2>4 DEF GetRootCert, CreateRootCert, Goto, IInv, Shaped, Idle
    <3>2. QED
      BY <2>1, <2>2, <2>4, <3>1 DEF IInv, Served
  <2>5. QED
    BY <1>5, <2>3, <2>4 DEF GetRootCert, CreateRootCert
<1>6. CASE Patch(p)
  <2>1. request'[p].pc \in {"refused", "answered"}
    BY <1>6 DEF Patch, Goto, IInv, Shaped, Idle
  <2>2. QED
    BY <2>1 DEF Served
<1>7. QED
  BY <1>1, <1>2, <1>3, <1>4, <1>5, <1>6 DEF Serve

(* A crash refuses the requests being served, and touches no other. *)
LEMMA CrashStep ==
  ASSUME IInv, NEW p \in Pods, SetOnDemand(p), NEW q \in Pods
  PROVE  Served(q)'
<1>1. UNCHANGED <<pod, rootCert>>
  BY DEF SetOnDemand
<1>2. \/ request'[q].pc \in {"template", "refused"}
      \/ request'[q] = request[q] /\ past'[q] = past[q]
  BY DEF SetOnDemand, IInv, Shaped, Idle
<1>3. QED
  BY <1>1, <1>2, Undisturbed DEF Served

LEMMA ApiServerStep ==
  ASSUME IInv, NEW p \in Pods, ApiServer(p)
  PROVE  Served(p)'
<1>1. request'[p].pc \in {"mode", "running", "refused"}
  BY DEF ApiServer, Submit, CallAgain, Validate, Resubmit, Call, Goto, IInv, Shaped,
         Idle
<1>2. QED
  BY <1>1 DEF Served

LEMMA IInvStep == IInv /\ [Next]_vars => IInv'
<1> SUFFICES ASSUME IInv, [Next]_vars, NEW q \in Pods
             PROVE  Served(q)'
  BY ShapedStep DEF IInv
<1>1. CASE UNCHANGED podVars
  BY <1>1, Undisturbed DEF podVars
<1>2. ASSUME NEW p \in Pods, Serve(p) \/ ApiServer(p)
      PROVE  Served(q)'
  <2>1. CASE SetOnDemand(p)
    BY <2>1, CrashStep
  <2>2. CASE ~SetOnDemand(p) /\ q # p
    BY <1>2, <2>2, OthersUndisturbed
  <2>3. CASE ~SetOnDemand(p) /\ q = p
    BY <1>2, <2>3, ServeStep, ApiServerStep
  <2>4. QED
    BY <2>1, <2>2, <2>3
<1>3. QED
  BY <1>1, <1>2 DEF Next, vars

-----------------------------------------------------------------------------
(* ensureRootCertExist, mesh/patch.go:130, with any number of requests at once: *)
(* what each knows of its secret and of its environment at every step.          *)
THEOREM IInvInvariant == Spec => []IInv
<1>1. IInv /\ [Next]_vars => IInv'
  BY IInvStep
<1>2. QED
  BY <1>1, InitIInv, PTL DEF Spec

(* mesh/patch.go:130: two requests may both find the certificate's copy missing; *)
(* yet every sidecar with mTLS injected without a failing call has its          *)
(* environment, and its secret is there, in every reload, crash and restart.    *)
THEOREM CertificateThere == Spec => []SidecarConfigured
BY IInvInvariant, InvConfigured, PTL

-----------------------------------------------------------------------------
(* The configuration.  What a step of the webhook is to it. *)
ConfigStep ==
  \/ \E v \in Volumes : ChangeDisk(v)
  \/ RunStep
  \/ SetMeshEnvoyConfigWithKV
  \/ Crash
  \/ UNCHANGED configVars

LEMMA NextConfigStep == [Next]_vars => ConfigStep
<1> SUFFICES ASSUME [Next]_vars PROVE ConfigStep
  OBVIOUS
<1>1. ASSUME NEW p \in Pods, Serve(p)
      PROVE  ConfigStep
  BY <1>1 DEF ConfigStep, Serve, GetInjectMode, SetOnDemand, GetTemplate,
     GetMeshEnvoyConfig, Render, GetRootCert, CreateRootCert, Patch, requestOnly
<1>2. ASSUME NEW p \in Pods, ApiServer(p)
      PROVE  ConfigStep
  BY <1>2 DEF ConfigStep, ApiServer, Submit, CallAgain, Validate, Resubmit, requestOnly
<1>3. QED
  BY <1>1, <1>2 DEF Next, vars, ConfigStep

(* The volume of each of the files loadConfig reads, in its order. *)
FileVolume(i) == VolumeOf[Files[i]]

LEMMA FileVolumes ==
  /\ Len(Files) = 6
  /\ \A i \in 1..6 : FileVolume(i) \in Volumes
  /\ FileVolume(1) = "inject" /\ FileVolume(2) = "inject" /\ FileVolume(3) = "inject"
  /\ FileVolume(4) = "bootstrap" /\ FileVolume(5) = "certs" /\ FileVolume(6) = "certs"
  /\ \A i \in 1..6 : Files[i] = "key" => i = 6
<1>1. Len(Files) = 6
  BY DEF Files
<1>2. /\ FileVolume(1) = "inject" /\ FileVolume(2) = "inject" /\ FileVolume(3) = "inject"
      /\ FileVolume(4) = "bootstrap" /\ FileVolume(5) = "certs" /\ FileVolume(6) = "certs"
  BY DEF FileVolume, Files, VolumeOf
<1>3. \A i \in 1..6 : i = 1 \/ i = 2 \/ i = 3 \/ i = 4 \/ i = 5 \/ i = 6
  OBVIOUS
<1>4. \A i \in 1..6 : FileVolume(i) \in Volumes
  BY <1>2, <1>3 DEF Volumes
<1>5. \A i \in 1..6 : Files[i] = "key" => i = 6
  BY <1>3 DEF Files
<1>6. QED
  BY <1>1, <1>2, <1>4, <1>5

(* What loadConfig has read was on the disk at some time. *)
DiskTyped ==
  /\ disk \in [Volumes -> [version : Nat, ok : BOOLEAN]]
  /\ \A v \in Volumes : disk[v].version \in 1..MaxVersions[v]
LoadingTyped ==
  loading # NotLoading =>
    /\ loading \in Seq(Nat) /\ Len(loading) <= 6
    /\ \A i \in 1..Len(loading) : loading[i] \in 1..disk[FileVolume(i)].version
ServedTyped ==
  /\ templates \in [Modes -> Nat]
  /\ \A m \in Modes : templates[m] \in 1..disk["inject"].version
  /\ cert \in 1..disk["certs"].version
  /\ meshConfs \in Seq([version : Nat, openDemand : BOOLEAN]) /\ Len(meshConfs) > 0
  /\ \A i \in 1..Len(meshConfs) : meshConfs[i].version \in 1..disk["bootstrap"].version
CInv ==
  /\ DiskTyped /\ LoadingTyped /\ ServedTyped
  /\ events \in BOOLEAN /\ timerC \in BOOLEAN /\ up \in BOOLEAN
  /\ ~up => loading # NotLoading

LEMMA SeqElements ==
  ASSUME NEW S, NEW s \in Seq(S)
  PROVE  DOMAIN s = 1..Len(s) /\ Len(s) \in Nat /\ \A i \in 1..Len(s) : s[i] \in S
OBVIOUS

LEMMA CInvSuffices == CInv => ConfigTypeOK
<1> SUFFICES ASSUME CInv PROVE ConfigTypeOK
  OBVIOUS
<1>1. \A v \in Volumes : disk[v] \in [version : 1..MaxVersions[v], ok : BOOLEAN]
  <2> SUFFICES ASSUME NEW v \in Volumes
               PROVE  disk[v] \in [version : 1..MaxVersions[v], ok : BOOLEAN]
    OBVIOUS
  <2>1. disk[v] \in [version : Nat, ok : BOOLEAN] /\ disk[v].version \in 1..MaxVersions[v]
    BY DEF CInv, DiskTyped
  <2>2. QED
    BY <2>1
<1>2. loading # NotLoading =>
        /\ Len(loading) <= Len(Files)
        /\ \A i \in DOMAIN loading : loading[i] \in 1..disk[VolumeOf[Files[i]]].version
  BY FileVolumes DEF CInv, LoadingTyped, FileVolume
<1>3. templates \in [Modes -> 1..disk["inject"].version]
  BY DEF CInv, ServedTyped
<1>4. ASSUME NEW i \in DOMAIN meshConfs
      PROVE  meshConfs[i] \in [version : 1..disk["bootstrap"].version, openDemand : BOOLEAN]
  <2>1. i \in 1..Len(meshConfs) /\ meshConfs[i] \in [version : Nat, openDemand : BOOLEAN]
    BY SeqElements DEF CInv, ServedTyped
  <2>2. meshConfs[i].version \in 1..disk["bootstrap"].version
    BY <2>1 DEF CInv, ServedTyped
  <2>3. QED
    BY <2>1, <2>2
<1>5. QED
  BY <1>1, <1>2, <1>3, <1>4 DEF CInv, ServedTyped, ConfigTypeOK

(* Facts of sequences and numbers. *)
LEMMA OneElement ==
  ASSUME NEW S, NEW x \in S
  PROVE  << x >> \in Seq(S) /\ Len(<< x >>) = 1 /\ << x >>[1] = x
OBVIOUS

LEMMA InitCInv == Init => CInv
<1> SUFFICES ASSUME Init PROVE CInv
  OBVIOUS
<1>1. DiskTyped /\ \A v \in Volumes : disk[v].version = 1
  BY InjectConfigAssumption DEF InjectConfigAssumption, Init, ConfigInit, DiskTyped
<1>2. MeshConf(1) \in [version : Nat, openDemand : BOOLEAN] /\ MeshConf(1).version = 1
  BY DEF MeshConf
<1>3. /\ meshConfs \in Seq([version : Nat, openDemand : BOOLEAN])
      /\ Len(meshConfs) = 1 /\ meshConfs[1] = MeshConf(1)
  BY <1>2, OneElement DEF Init, ConfigInit
<1>4. {"inject", "certs", "bootstrap"} \subseteq Volumes
  BY DEF Volumes
<1>5. ServedTyped
  BY <1>1, <1>2, <1>3, <1>4 DEF Init, ConfigInit, ServedTyped
<1>6. QED
  BY <1>1, <1>5 DEF Init, ConfigInit, CInv, LoadingTyped

LEMMA NotLoadingIsNone == NotLoading \notin Seq(Nat) /\ << >> # NotLoading
BY EmptySeq, InjectConfigAssumption DEF InjectConfigAssumption

(* A volume is only ever replaced by a newer version. *)
LEMMA DiskStep ==
  ASSUME CInv, NEW v \in Volumes, ChangeDisk(v)
  PROVE  CInv'
<1>1. PICK ok \in BOOLEAN :
        disk' = [disk EXCEPT ![v] = [version |-> @.version + 1, ok |-> ok]]
  BY DEF ChangeDisk
<1>2. UNCHANGED <<timerC, loading, up, templates, cert, meshConfs>> /\ events' \in BOOLEAN
  BY DEF ChangeDisk, servedVars, CInv
<1>3. disk[v].version \in Nat /\ disk[v].version < MaxVersions[v] /\ MaxVersions[v] \in Nat
  BY InjectConfigAssumption DEF InjectConfigAssumption, ChangeDisk, CInv, DiskTyped
<1>4. /\ disk' \in [Volumes -> [version : Nat, ok : BOOLEAN]]
      /\ \A u \in Volumes : /\ disk[u].version \in Nat /\ disk'[u].version \in Nat
                            /\ disk[u].version <= disk'[u].version
                            /\ u # v => disk'[u].version = disk[u].version
      /\ disk'[v].version = disk[v].version + 1
  <2>1. [version |-> disk[v].version + 1, ok |-> ok] \in [version : Nat, ok : BOOLEAN]
    BY <1>3
  <2>2. QED
    BY <1>1, <1>3, <2>1 DEF CInv, DiskTyped
<1>5. DiskTyped'
  BY <1>3, <1>4 DEF CInv, DiskTyped
<1>6. LoadingTyped'
  <2> SUFFICES ASSUME loading # NotLoading, NEW i \in 1..Len(loading)
               PROVE  loading[i] \in 1..disk'[FileVolume(i)].version
    BY <1>2 DEF CInv, LoadingTyped
  <2>1. i \in 1..6 /\ loading[i] \in 1..disk[FileVolume(i)].version
    BY DEF CInv, LoadingTyped
  <2>2. FileVolume(i) \in Volumes
    BY <2>1, FileVolumes
  <2>3. QED
    BY <1>4, <2>1, <2>2
<1>7. ServedTyped'
  <2>1. {"inject", "certs", "bootstrap"} \subseteq Volumes
    BY DEF Volumes
  <2>2. /\ 1..disk["inject"].version \subseteq 1..disk'["inject"].version
        /\ 1..disk["certs"].version \subseteq 1..disk'["certs"].version
        /\ 1..disk["bootstrap"].version \subseteq 1..disk'["bootstrap"].version
    BY <1>4, <2>1
  <2>3. QED
    BY <1>2, <2>2 DEF CInv, ServedTyped
<1>8. QED
  BY <1>2, <1>5, <1>6, <1>7 DEF CInv

LEMMA StartToLoad ==
  ASSUME loading' = << >>
  PROVE  LoadingTyped' /\ loading' # NotLoading
<1>1. << >> \in Seq(Nat) /\ Len(<< >>) = 0
  BY EmptySeq
<1>2. LoadingTyped'
  BY <1>1 DEF LoadingTyped
<1>3. QED
  BY <1>2, NotLoadingIsNone

LEMMA FilesLeft ==
  ASSUME NEW n \in Nat, n < 6
  PROVE  n + 1 \in 1..6
OBVIOUS

(* loadConfig appends a version that is on the disk. *)
LEMMA ReadStep ==
  ASSUME CInv, ReadFile
  PROVE  CInv'
<1>1. UNCHANGED <<disk, events, timerC, up, templates, cert, meshConfs>>
  BY DEF ReadFile, servedVars
<1>2. loading \in Seq(Nat) /\ Len(loading) \in Nat /\ Len(loading) < 6
  <2>1. loading \in Seq(Nat) /\ Len(loading) < 6
    BY FileVolumes DEF ReadFile, CInv, LoadingTyped
  <2>2. Len(loading) \in Nat
    BY <2>1, SeqElements
  <2>3. QED
    BY <2>1, <2>2
<1> DEFINE n == Len(loading) + 1
           version == disk[FileVolume(n)].version
<1>3. n \in 1..6 /\ FileVolume(n) \in Volumes
  <2>1. n \in 1..6
    BY <1>2, FilesLeft
  <2>2. QED
    BY <2>1, FileVolumes
<1>4. version \in Nat /\ version \in 1..version
  BY <1>3 DEF CInv, DiskTyped
<1>5. \/ loading' = Append(loading, version)
      \/ loading' = << >>
      \/ up /\ loading' = NotLoading
  BY DEF ReadFile, FileVolume
<1> HIDE DEF version
<1>6. CASE loading' = Append(loading, version)
  <2>1. /\ loading' \in Seq(Nat) /\ Len(loading') = n /\ loading'[n] = version
        /\ \A i \in 1..Len(loading) : loading'[i] = loading[i]
    BY <1>2, <1>4, <1>6
  <2>2. \A i \in 1..n : i \in 1..Len(loading) \/ i = n
    BY <1>2
  <2>3. loading # NotLoading
    BY DEF ReadFile
  <2>4. ASSUME NEW i \in 1..n
        PROVE  loading'[i] \in 1..disk[FileVolume(i)].version
    <3>1. CASE i \in 1..Len(loading)
      BY <2>1, <2>3, <3>1 DEF CInv, LoadingTyped
    <3>2. CASE i = n
      BY <1>4, <2>1, <3>2 DEF version
    <3>3. QED
      BY <2>2, <3>1, <3>2
  <2>5. LoadingTyped'
    <3>1. n <= 6
      BY <1>3
    <3>2. QED
      BY <1>1, <2>1, <2>4, <3>1 DEF LoadingTyped
  <2>6. loading' # NotLoading
    BY <2>1, NotLoadingIsNone
  <2>7. QED
    BY <1>1, <2>5, <2>6 DEF CInv, DiskTyped, ServedTyped
<1>7. CASE loading' = << >>
  BY <1>1, <1>7, StartToLoad DEF CInv, DiskTyped, ServedTyped
<1>8. CASE up /\ loading' = NotLoading
  BY <1>1, <1>8 DEF CInv, DiskTyped, ServedTyped, LoadingTyped
<1>9. QED
  BY <1>5, <1>6, <1>7, <1>8

(* What is installed was read. *)
LEMMA UpdateStep ==
  ASSUME CInv, UpdateTemplateConfig
  PROVE  CInv'
<1>1. UNCHANGED <<disk, events, timerC>> /\ loading' = NotLoading /\ up' = TRUE
  BY DEF UpdateTemplateConfig
<1>2. \A i \in 1..6 : loading[i] \in Nat /\ loading[i] \in 1..disk[FileVolume(i)].version
  BY FileVolumes DEF UpdateTemplateConfig, CInv, LoadingTyped
<1>3. templates' \in [Modes -> Nat]
      /\ \A m \in Modes : templates'[m] \in 1..disk["inject"].version
  <2>1. templates' = [mesh |-> loading[1], dns |-> loading[2], javaAgent |-> loading[3]]
    BY DEF UpdateTemplateConfig
  <2>2. {loading[1], loading[2], loading[3]} \subseteq Nat \cap (1..disk["inject"].version)
    BY <1>2, FileVolumes
  <2>3. QED
    BY <2>1, <2>2 DEF Modes
<1>4. cert' \in 1..disk["certs"].version
  BY <1>2, FileVolumes DEF UpdateTemplateConfig
<1> DEFINE conf == MeshConf(loading[4])
<1>5. conf \in [version : Nat, openDemand : BOOLEAN]
      /\ conf.version \in 1..disk["bootstrap"].version
  BY <1>2, FileVolumes DEF MeshConf
<1>6. meshConfs' = Append(meshConfs, conf)
  BY DEF UpdateTemplateConfig
<1> HIDE DEF conf
<1>7. /\ meshConfs' \in Seq([version : Nat, openDemand : BOOLEAN]) /\ Len(meshConfs') > 0
      /\ \A i \in 1..Len(meshConfs') : meshConfs'[i].version \in 1..disk["bootstrap"].version
  BY <1>5, <1>6 DEF CInv, ServedTyped
<1>8. ServedTyped'
  BY <1>1, <1>3, <1>4, <1>7 DEF ServedTyped
<1>9. QED
  BY <1>1, <1>8 DEF CInv, DiskTyped, LoadingTyped

LEMMA CInvStep ==
  ASSUME CInv, [Next]_vars
  PROVE  CInv'
<1>1. ConfigStep
  BY NextConfigStep
<1>2. CASE RunStep
  <2>1. CASE WatchEvent
    BY <2>1 DEF WatchEvent, servedVars, CInv, DiskTyped, LoadingTyped, ServedTyped
  <2>2. CASE TimerFires
    BY <2>2, StartToLoad DEF TimerFires, servedVars, CInv, DiskTyped, ServedTyped
  <2>3. QED
    BY <1>2, <2>1, <2>2, ReadStep, UpdateStep DEF RunStep
<1>3. CASE SetMeshEnvoyConfigWithKV
  <2>1. UNCHANGED <<disk, events, timerC, loading, up, templates, cert>>
    BY <1>3 DEF SetMeshEnvoyConfigWithKV
  <2> DEFINE n == Len(meshConfs)
             conf == [meshConfs[n] EXCEPT !.openDemand = TRUE]
  <2>2. n \in 1..n /\ n \in Nat
    BY DEF CInv, ServedTyped
  <2>3. conf \in [version : Nat, openDemand : BOOLEAN] /\ conf.version = meshConfs[n].version
    <3>1. meshConfs[n] \in [version : Nat, openDemand : BOOLEAN]
      BY <2>2, SeqElements DEF CInv, ServedTyped
    <3>2. QED
      BY <3>1
  <2>4. meshConfs' = [meshConfs EXCEPT ![n] = conf]
    BY <1>3 DEF SetMeshEnvoyConfigWithKV
  <2> HIDE DEF conf
  <2>5. /\ meshConfs' \in Seq([version : Nat, openDemand : BOOLEAN]) /\ Len(meshConfs') = n
        /\ \A i \in 1..n : meshConfs'[i].version = meshConfs[i].version
    BY <2>2, <2>3, <2>4 DEF CInv, ServedTyped
  <2>6. QED
    BY <2>1, <2>5 DEF CInv, DiskTyped, LoadingTyped, ServedTyped
<1>4. CASE Crash
  BY <1>4, StartToLoad DEF Crash, servedVars, CInv, DiskTyped, ServedTyped
<1>5. CASE UNCHANGED configVars
  BY <1>5 DEF configVars, CInv, DiskTyped, LoadingTyped, ServedTyped
<1>6. QED
  BY <1>1, <1>2, <1>3, <1>4, <1>5, DiskStep DEF ConfigStep

-----------------------------------------------------------------------------
(* No update is lost: what the loop knows of the disk at every step.  Between   *)
(* events, what loadConfig has read so far of a watched volume is what is there. *)
UpdateInv ==
  /\ disk["bootstrap"].ok
  /\ loading # NotLoading => ~timerC
  /\ ~events /\ loading # NotLoading =>
       \A i \in 1..Len(loading) :
         FileVolume(i) \in Watched => loading[i] = disk[FileVolume(i)].version
  /\ NoUpdateLost

LEMMA InitUpdateInv == Init => UpdateInv
<1> SUFFICES ASSUME Init PROVE UpdateInv
  OBVIOUS
<1>1. \A v \in Volumes : disk[v] = [version |-> 1, ok |-> TRUE]
  BY DEF Init, ConfigInit
<1>2. {"inject", "certs", "bootstrap"} \subseteq Volumes
  BY DEF Volumes
<1>3. \A m \in Modes : templates[m] = 1
  BY DEF Init, ConfigInit
<1>4. UpToDate
  BY <1>1, <1>2, <1>3 DEF UpToDate, Init, ConfigInit
<1>5. QED
  BY <1>1, <1>2, <1>4 DEF UpdateInv, NoUpdateLost, Init, ConfigInit

LEMMA DiskKeepsUpdates ==
  ASSUME CInv, UpdateInv, "bootstrap" \notin Breakable, NEW v \in Volumes, ChangeDisk(v)
  PROVE  UpdateInv'
<1>1. PICK ok \in BOOLEAN :
        /\ ok \/ v \in Breakable
        /\ disk' = [disk EXCEPT ![v] = [version |-> @.version + 1, ok |-> ok]]
  BY DEF ChangeDisk
<1>2. UNCHANGED <<timerC, loading, up, templates, cert>>
      /\ events' = (events \/ v \in Watched)
  BY DEF ChangeDisk, servedVars
<1>3. \A u \in Volumes : u # v => disk'[u] = disk[u]
  BY <1>1 DEF CInv, DiskTyped
<1>4. "bootstrap" \in Volumes /\ "inject" \in Volumes /\ "certs" \in Volumes
  BY DEF Volumes
<1>5. disk'["bootstrap"].ok
  <2>1. CASE v = "bootstrap"
    <3>1. ok
      BY <1>1, <2>1
    <3>2. disk'[v].ok = ok
      BY <1>1 DEF CInv, DiskTyped
    <3>3. QED
      BY <2>1, <3>1, <3>2
  <2>2. CASE v # "bootstrap"
    BY <1>3, <1>4, <2>2 DEF UpdateInv
  <2>3. QED
    BY <2>1, <2>2
<1>6. CASE v \in Watched
  BY <1>2, <1>5, <1>6 DEF UpdateInv, NoUpdateLost
<1>7. CASE v \notin Watched
  <2>1. v = "bootstrap" /\ disk'["inject"] = disk["inject"] /\ disk'["certs"] = disk["certs"]
    BY <1>3, <1>4, <1>7 DEF Volumes, Watched
  <2>2. \A w \in Watched : disk'[w] = disk[w]
    BY <2>1 DEF Watched
  <2>3. UpToDate => UpToDate'
    BY <1>2, <1>4, <2>1 DEF UpToDate, Volumes, UpdateInv
  <2>4. events' = events
    BY <1>2, <1>7 DEF CInv
  <2>5. QED
    BY <1>2, <1>5, <2>2, <2>3, <2>4 DEF UpdateInv, NoUpdateLost
<1>8. QED
  BY <1>6, <1>7

(* An attempt that is given up found a volume that cannot be read, or one of *)
(* which an event is still to come.                                          *)
LEMMA ReadKeepsUpdates ==
  ASSUME CInv, UpdateInv, ReadFile
  PROVE  UpdateInv'
<1>1. UNCHANGED <<disk, events, timerC, up, templates, cert>>
  BY DEF ReadFile, servedVars
<1>2. loading # NotLoading /\ loading \in Seq(Nat) /\ Len(loading) \in Nat /\ Len(loading) < 6
  BY FileVolumes, SeqElements DEF ReadFile, CInv, LoadingTyped
<1> DEFINE n == Len(loading) + 1
           content == disk[FileVolume(n)]
           readable == content.ok /\ (Files[n] = "key" => content.version = loading[5])
<1>3. loading' = IF readable THEN Append(loading, content.version)
                 ELSE IF up THEN NotLoading ELSE << >>
  BY DEF ReadFile, FileVolume
<1>4. n \in 1..6
  BY <1>2, FilesLeft
<1>5. FileVolume(n) \in Volumes
  BY <1>4, FileVolumes
<1>6. CASE readable
  <2>1. content.version \in Nat
    BY <1>5 DEF CInv, DiskTyped
  <2> HIDE DEF content, readable
  <2>2. /\ Len(loading') = n /\ loading'[n] = content.version /\ loading' \in Seq(Nat)
        /\ \A i \in 1..Len(loading) : loading'[i] = loading[i]
    BY <1>2, <1>3, <1>6, <2>1
  <2>3. loading' # NotLoading
    BY <2>2, NotLoadingIsNone
  <2>4. ASSUME ~events', NEW i \in 1..n, FileVolume(i) \in Watched
        PROVE  loading'[i] = disk[FileVolume(i)].version
    <3>1. CASE i \in 1..Len(loading)
      BY <1>1, <1>2, <2>2, <2>4, <3>1 DEF UpdateInv
    <3>2. CASE i = n
      BY <2>2, <3>2 DEF content
    <3>3. i \in 1..Len(loading) \/ i = n
      BY <1>2
    <3>4. QED
      BY <3>1, <3>2, <3>3
  <2>5. QED
    BY <1>1, <1>2, <2>2, <2>3, <2>4 DEF UpdateInv, NoUpdateLost
<1>7. CASE ~readable /\ loading' = << >>
  <2>1. loading' # NotLoading /\ Len(loading') = 0
    BY <1>7, NotLoadingIsNone
  <2>2. QED
    BY <1>1, <1>2, <2>1 DEF UpdateInv, NoUpdateLost
<1>8. CASE ~readable /\ loading' = NotLoading
  <2>1. ASSUME ~events, \A v \in Volumes : disk[v].ok
        PROVE  FALSE
    <3>1. Files[n] = "key" /\ content.version # loading[5]
      BY <1>5, <1>8, <2>1
    <3>2. n = 6 /\ FileVolume(5) = "certs" /\ FileVolume(6) = "certs"
      BY <1>4, <3>1, FileVolumes
    <3>3. 5 \in 1..Len(loading) /\ FileVolume(5) \in Watched
      BY <1>2, <3>2 DEF Watched
    <3>4. loading[5] = disk["certs"].version
      BY <1>2, <2>1, <3>2, <3>3 DEF UpdateInv
    <3>5. QED
      BY <3>1, <3>2, <3>4
  <2>2. (~events /\ ~timerC) => UpToDate'
    BY <1>1, <2>1 DEF UpToDate
  <2>3. QED
    BY <1>1, <1>8, <2>2 DEF UpdateInv, NoUpdateLost
<1>9. QED
  BY <1>3, <1>6, <1>7, <1>8

LEMMA UpdateKeepsUpdates ==
  ASSUME CInv, UpdateInv, UpdateTemplateConfig
  PROVE  UpdateInv'
<1>1. UNCHANGED <<disk, events, timerC>> /\ loading' = NotLoading
  BY DEF UpdateTemplateConfig
<1>2. templates' = [mesh |-> loading[1], dns |-> loading[2], javaAgent |-> loading[3]]
      /\ cert' = loading[5]
  BY DEF UpdateTemplateConfig
<1>3. ASSUME ~events
      PROVE  UpToDate'
  <2>1. \A i \in 1..6 : FileVolume(i) \in Watched => loading[i] = disk[FileVolume(i)].version
    BY <1>3, FileVolumes DEF UpdateTemplateConfig, UpdateInv
  <2>2. loading[1] = disk["inject"].version /\ loading[2] = disk["inject"].version
        /\ loading[3] = disk["inject"].version /\ loading[5] = disk["certs"].version
    BY <2>1, FileVolumes DEF Watched
  <2>3. QED
    BY <1>1, <1>2, <2>2 DEF UpToDate, Modes
<1>4. QED
  BY <1>1, <1>3 DEF UpdateInv, NoUpdateLost

LEMMA UpdateInvStep ==
  ASSUME CInv, UpdateInv, "bootstrap" \notin Breakable, [Next]_vars
  PROVE  UpdateInv'
<1>1. ConfigStep
  BY NextConfigStep
<1>2. CASE WatchEvent
  BY <1>2 DEF WatchEvent, Waiting, servedVars, UpdateInv, NoUpdateLost
<1>3. CASE TimerFires \/ Crash
  <2>1. loading' # NotLoading /\ Len(loading') = 0 /\ ~timerC' /\ UNCHANGED disk
    BY <1>3, NotLoadingIsNone DEF TimerFires, Crash
  <2>2. QED
    BY <2>1 DEF UpdateInv, NoUpdateLost
<1>4. CASE SetMeshEnvoyConfigWithKV \/ UNCHANGED configVars
  BY <1>4 DEF SetMeshEnvoyConfigWithKV, configVars, UpdateInv, NoUpdateLost, UpToDate
<1>5. QED
  BY <1>1, <1>2, <1>3, <1>4, DiskKeepsUpdates, ReadKeepsUpdates, UpdateKeepsUpdates
     DEF ConfigStep, RunStep

(* webhook.go:175: no update of the templates or of the certificate is lost.    *)
(* Changes may fall between an event, the debounce timer and any two files of a *)
(* loading, attempts may be given up, and the process may die; yet with no      *)
(* event, timer or loading left, readable volumes are what is in use.  It is    *)
(* assumed that the bootstrap file is readable: its volume is not watched, so   *)
(* an attempt given up for it leaves what it had read of the others unused.     *)
THEOREM UpdatesNotLost ==
  ASSUME "bootstrap" \notin Breakable
  PROVE  Spec => []NoUpdateLost
<1>1. CInv /\ UpdateInv /\ [Next]_vars => (CInv /\ UpdateInv)'
  BY CInvStep, UpdateInvStep
<1>2. Init => CInv /\ UpdateInv
  BY InitCInv, InitUpdateInv
<1>3. CInv /\ UpdateInv => NoUpdateLost
  BY DEF UpdateInv
<1>4. QED
  BY <1>1, <1>2, <1>3, PTL DEF Spec

-----------------------------------------------------------------------------
(* The requests.  Their records, and the manifests of the pods they are about. *)
Request == [pc : PCs, calls : 0..MaxCalls, mode : Modes,
            template : 1..MaxVersions["inject"], conf : Nat \ {0}, configured : BOOLEAN]
PodTyped(p) == IF request[p].pc = "none" THEN pod[p] = Null
               ELSE DOMAIN pod[p] = ManifestFields
RInv ==
  /\ request \in [Pods -> Request]
  /\ \A p \in Pods : request[p].conf <= Len(meshConfs) /\ PodTyped(p)
  /\ rootCert \in BOOLEAN /\ faults \in 0..MaxFaults
  /\ DOMAIN pod = Pods

LEMMA RInvSuffices == CInv /\ RInv => TypeOK
<1> SUFFICES ASSUME CInv, RInv PROVE TypeOK
  OBVIOUS
<1>1. DOMAIN meshConfs = 1..Len(meshConfs) /\ Len(meshConfs) \in Nat
  BY SeqElements DEF CInv, ServedTyped
<1>2. ASSUME NEW p \in Pods
      PROVE  request[p] \in [pc : PCs, calls : 0..MaxCalls, mode : Modes,
                             template : 1..MaxVersions["inject"], conf : DOMAIN meshConfs,
                             configured : BOOLEAN]
  <2>1. request[p] \in Request /\ request[p].conf <= Len(meshConfs)
    BY DEF RInv
  <2>2. request[p].conf \in DOMAIN meshConfs
    BY <1>1, <2>1 DEF Request
  <2>3. QED
    BY <2>1, <2>2 DEF Request
<1>3. QED
  BY <1>2, CInvSuffices DEF RInv, PodTyped, TypeOK

LEMMA InitRInv == Init => RInv
<1> SUFFICES ASSUME Init PROVE RInv
  OBVIOUS
<1>1. Idle \in Request /\ Idle.conf = 1 /\ Idle.pc = "none"
  <2>1. "none" \in PCs /\ "mesh" \in Modes
    BY DEF PCs, Modes
  <2>2. 0 \in 0..MaxCalls /\ 1 \in 1..MaxVersions["inject"]
    BY WebhookAssumption, InjectConfigAssumption
       DEF WebhookAssumption, InjectConfigAssumption, Volumes
  <2>3. QED
    BY <2>1, <2>2 DEF Idle, Request
<1>2. \A p \in Pods : request[p] = Idle /\ pod[p] = Null
  BY DEF Init
<1>3. Len(meshConfs) = 1
  BY DEF Init, ConfigInit
<1>4. request \in [Pods -> Request]
  BY <1>1 DEF Init
<1>5. \A p \in Pods : request[p].conf <= Len(meshConfs) /\ PodTyped(p)
  BY <1>1, <1>2, <1>3 DEF PodTyped
<1>6. faults \in 0..MaxFaults
  BY WebhookAssumption DEF WebhookAssumption, Init
<1>7. QED
  BY <1>4, <1>5, <1>6 DEF Init, RInv

LEMMA ModesParsed ==
  /\ \A val : ParseSidecarMode(val) \in Modes
  /\ NamespaceModes \subseteq Modes
<1>1. \A val : ParseSidecarMode(val) \in Modes
  BY DEF ParseSidecarMode, Modes
<1>2. QED
  BY <1>1, WebhookAssumption DEF WebhookAssumption, NamespaceModes

(* No configuration that requests still use is dropped. *)
LEMMA ConfsGrow ==
  ASSUME CInv, [Next]_vars
  PROVE  Len(meshConfs') \in Nat /\ Len(meshConfs) <= Len(meshConfs')
<1>1. ConfigStep
  BY NextConfigStep
<1>2. meshConfs \in Seq([version : Nat, openDemand : BOOLEAN]) /\ Len(meshConfs) \in Nat
  BY SeqElements DEF CInv, ServedTyped
<1>3. \/ meshConfs' = meshConfs
      \/ \E conf : meshConfs' = [meshConfs EXCEPT ![Len(meshConfs)] = conf]
      \/ \E conf : meshConfs' = Append(meshConfs, MeshConf(conf))
  BY <1>1 DEF ConfigStep, ChangeDisk, RunStep, WatchEvent, TimerFires, ReadFile,
     UpdateTemplateConfig, SetMeshEnvoyConfigWithKV, Crash, servedVars, configVars
<1>4. \A conf : Len([meshConfs EXCEPT ![Len(meshConfs)] = conf]) = Len(meshConfs)
  BY <1>2
<1>5. \A conf : Len(Append(meshConfs, MeshConf(conf))) = Len(meshConfs) + 1
  BY <1>2
<1>6. QED
  BY <1>2, <1>3, <1>4, <1>5

(* A request's record is replaced by another. *)
LEMMA RequestReplaced ==
  ASSUME CInv, RInv, [Next]_vars, NEW p \in Pods, NEW r \in Request,
         request' = [request EXCEPT ![p] = r],
         r.conf <= Len(meshConfs),
         r.pc # "none",
         \A q \in Pods : q # p => pod'[q] = pod[q],
         DOMAIN pod'[p] = ManifestFields, DOMAIN pod' = Pods,
         rootCert' \in BOOLEAN, faults' \in 0..MaxFaults
  PROVE  RInv'
<1>1. request' \in [Pods -> Request]
  BY DEF RInv
<1>2. ASSUME NEW q \in Pods
      PROVE  request'[q].conf <= Len(meshConfs') /\ PodTyped(q)'
  <2>1. CASE q = p
    <3>1. request'[q] = r
      BY <2>1 DEF RInv
    <3>2. r.conf <= Len(meshConfs')
      BY ConfsGrow, SeqElements DEF Request, CInv, ServedTyped
    <3>3. QED
      BY <2>1, <3>1, <3>2 DEF PodTyped
  <2>2. CASE q # p
    <3>1. request'[q] = request[q] /\ request[q] \in Request
      BY <2>2 DEF RInv
    <3>2. request[q].conf <= Len(meshConfs')
      BY <3>1, ConfsGrow, SeqElements DEF Request, RInv, CInv, ServedTyped
    <3>3. QED
      BY <2>2, <3>1, <3>2 DEF PodTyped, RInv
  <2>3. QED
    BY <2>1, <2>2
<1>3. QED
  BY <1>1, <1>2 DEF RInv

LEMMA FaultCounted == ASSUME RInv, Fault PROVE faults' \in 0..MaxFaults
BY WebhookAssumption DEF WebhookAssumption, RInv, Fault

(* Steps of a request that leave its pod alone. *)
LEMMA RequestMoved ==
  ASSUME CInv, RInv, [Next]_vars, NEW p \in Pods, NEW r \in Request,
         request' = [request EXCEPT ![p] = r],
         r.conf <= Len(meshConfs), r.pc # "none", request[p].pc # "none",
         pod' = pod, rootCert' \in BOOLEAN, faults' \in 0..MaxFaults
  PROVE  RInv'
BY RequestReplaced DEF RInv, PodTyped

LEMMA ServeTyped ==
  ASSUME CInv, RInv, [Next]_vars, NEW p \in Pods, Serve(p), ~SetOnDemand(p)
  PROVE  RInv'
<1>1. request[p] \in Request /\ request[p].conf <= Len(meshConfs) /\ request[p].pc # "none"
  BY DEF RInv, Serve, GetInjectMode, GetTemplate, GetMeshEnvoyConfig, Render, GetRootCert,
         CreateRootCert, Patch, At
<1>2. rootCert \in BOOLEAN /\ faults \in 0..MaxFaults
  BY DEF RInv
<1>3. {"template", "config", "answered", "render", "getCert", "createCert", "patch", "refused"}
      \subseteq PCs \ {"none"}
  BY DEF PCs, Serving
<1>4. CASE GetInjectMode(p)
  <2>1. PICK mode \in Modes :
          request' = [request EXCEPT ![p].pc = "template", ![p].mode = mode]
    BY <1>4, ModesParsed, WebhookAssumption DEF WebhookAssumption, GetInjectMode, Modes
  <2> DEFINE r == [request[p] EXCEPT !.pc = "template", !.mode = mode]
  <2>2. r \in Request /\ r.conf = request[p].conf /\ r.pc = "template"
    BY <1>1, <1>3 DEF Request
  <2>3. request' = [request EXCEPT ![p] = r]
    BY <2>1 DEF RInv
  <2>4. pod' = pod /\ rootCert' = rootCert /\ faults' \in 0..MaxFaults
    BY <1>2, <1>4, FaultCounted DEF GetInjectMode
  <2> HIDE DEF r
  <2>5. QED
    BY <1>1, <1>2, <2>2, <2>3, <2>4, RequestMoved
<1>5. CASE GetTemplate(p)
  <2>1. PICK pc \in {"config", "answered"} :
          request' = [request EXCEPT ![p].template = templates[request[p].mode], ![p].pc = pc]
    BY <1>5 DEF GetTemplate
  <2> DEFINE r == [request[p] EXCEPT !.template = templates[request[p].mode], !.pc = pc]
  <2>2. templates[request[p].mode] \in 1..MaxVersions["inject"]
    <3>1. disk["inject"].version \in 1..MaxVersions["inject"]
          /\ MaxVersions["inject"] \in Nat
      BY InjectConfigAssumption DEF InjectConfigAssumption, CInv, DiskTyped, Volumes
    <3>2. templates[request[p].mode] \in 1..disk["inject"].version
      BY <1>1 DEF Request, CInv, ServedTyped
    <3>3. QED
      BY <3>1, <3>2
  <2>3. r \in Request /\ r.conf = request[p].conf /\ r.pc # "none"
    BY <1>1, <1>3, <2>2 DEF Request
  <2>4. request' = [request EXCEPT ![p] = r]
    BY <2>1 DEF RInv
  <2>5. pod' = pod /\ rootCert' = rootCert /\ faults' = faults
    BY <1>5 DEF GetTemplate, requestOnly
  <2> HIDE DEF r
  <2>6. QED
    BY <1>1, <1>2, <2>3, <2>4, <2>5, RequestMoved
<1>6. CASE GetMeshEnvoyConfig(p)
  <2>1. PICK last \in Nat \ {0} : last = Len(meshConfs)
    BY SeqElements DEF CInv, ServedTyped
  <2> DEFINE r == [request[p] EXCEPT !.pc = "render", !.conf = last]
  <2>2. r \in Request /\ r.conf = last /\ r.pc # "none"
    <3>1. r \in Request
      BY <1>1, <1>3 DEF Request
    <3>2. r.conf = last /\ r.pc = "render"
      BY <1>1 DEF Request
    <3>3. QED
      BY <3>1, <3>2
  <2>3. request' = [request EXCEPT ![p] = r]
    BY <1>6, <2>1 DEF GetMeshEnvoyConfig, RInv
  <2>4. pod' = pod /\ rootCert' = rootCert /\ faults' = faults
    BY <1>6 DEF GetMeshEnvoyConfig, requestOnly
  <2> HIDE DEF r
  <2>5. QED
    <3>1. last <= Len(meshConfs)
      BY <2>1
    <3>2. QED
      BY <1>1, <1>2, <2>2, <2>3, <2>4, <3>1, RequestMoved
<1>7. CASE Render(p) \/ GetRootCert(p) \/ CreateRootCert(p)
  <2>1. PICK pc \in {"getCert", "createCert", "patch"}, ok \in BOOLEAN :
          request' = [request EXCEPT ![p].configured = ok, ![p].pc = pc]
    <3>1. CASE Render(p) \/ WithoutEnv(p)
      BY <3>1 DEF Render, WithoutEnv, RInv
    <3>2. CASE Goto(p, "patch") \/ Goto(p, "createCert")
      <4> DEFINE To(pc) ==
            [request EXCEPT ![p].configured = request[p].configured, ![p].pc = pc]
      <4>1. request' = To("patch") \/ request' = To("createCert")
        BY <1>1, <3>2 DEF Goto, RInv, Request
      <4>2. QED
        BY <1>1, <4>1 DEF Request
    <3>3. QED
      BY <1>7, <3>1, <3>2 DEF GetRootCert, CreateRootCert
  <2> DEFINE r == [request[p] EXCEPT !.configured = ok, !.pc = pc]
  <2>2. r \in Request /\ r.conf = request[p].conf /\ r.pc # "none"
    BY <1>1, <1>3 DEF Request
  <2>3. request' = [request EXCEPT ![p] = r]
    BY <2>1 DEF RInv
  <2>4. pod' = pod /\ rootCert' \in BOOLEAN /\ faults' \in 0..MaxFaults
    BY <1>2, <1>7, FaultCounted DEF Render, GetRootCert, CreateRootCert
  <2> HIDE DEF r
  <2>5. QED
    BY <1>1, <2>2, <2>3, <2>4, RequestMoved
<1>8. CASE Patch(p)
  <2>1. PICK pc \in {"refused", "answered"} : request' = [request EXCEPT ![p].pc = pc]
    BY <1>8 DEF Patch, Goto
  <2>2. \/ pod' = pod
        \/ \E t, lists : pod' = [pod EXCEPT ![p] = Injected(pod[p], t, lists)]
    BY <1>8 DEF Patch
  <2>3. \A t, lists : DOMAIN Injected(pod[p], t, lists) = DOMAIN pod[p]
    BY DEF Injected
  <2>4. DOMAIN pod[p] = ManifestFields
    BY <1>1 DEF RInv, PodTyped
  <2>5. /\ DOMAIN pod' = Pods /\ DOMAIN pod'[p] = ManifestFields
        /\ \A q \in Pods : q # p => pod'[q] = pod[q]
    BY <2>2, <2>3, <2>4 DEF RInv
  <2> DEFINE r == [request[p] EXCEPT !.pc = pc]
  <2>6. r \in Request /\ r.conf = request[p].conf /\ r.pc # "none"
    BY <1>1, <1>3 DEF Request
  <2>7. request' = [request EXCEPT ![p] = r]
    BY <2>1 DEF RInv
  <2>8. rootCert' = rootCert /\ faults' = faults
    BY <1>8 DEF Patch
  <2> HIDE DEF r
  <2>9. QED
    BY <1>1, <1>2, <2>5, <2>6, <2>7, <2>8, RequestReplaced
<1>9. QED
  BY <1>4, <1>5, <1>6, <1>7, <1>8 DEF Serve

(* A request in service when the process dies is refused. *)
LEMMA OnDemandTyped ==
  ASSUME CInv, RInv, [Next]_vars, NEW p \in Pods, SetOnDemand(p)
  PROVE  RInv'
<1>1. UNCHANGED <<pod, rootCert, faults>>
  BY DEF SetOnDemand
<1>2. {"template", "refused"} \subseteq PCs \ {"none"} /\ "mesh" \in Modes
      /\ "none" \notin Serving
  BY DEF PCs, Serving, Modes
<1>3. ASSUME NEW q \in Pods
      PROVE  request'[q] \in Request /\ request'[q].conf = request[q].conf
             /\ (request'[q].pc = "none" <=> request[q].pc = "none")
  <2>1. request[q] \in Request
    BY DEF RInv
  <2>2. \/ request'[q] = request[q]
        \/ request[q].pc # "none" /\ request'[q] = [request[q] EXCEPT !.pc = "refused"]
        \/ request[q].pc # "none"
           /\ request'[q] = [request[q] EXCEPT !.pc = "template", !.mode = "mesh"]
    BY <1>2 DEF SetOnDemand, RInv, At
  <2>3. [request[q] EXCEPT !.pc = "refused"] \in Request
        /\ [request[q] EXCEPT !.pc = "template", !.mode = "mesh"] \in Request
    BY <1>2, <2>1 DEF Request
  <2>4. QED
    BY <2>1, <2>2, <2>3 DEF Request
<1>4. \E f : request' = [q \in Pods |-> f[q]]
  BY DEF SetOnDemand, RInv
<1>5. request' \in [Pods -> Request]
  BY <1>3, <1>4
<1>6. \A q \in Pods : request'[q].conf <= Len(meshConfs')
  BY <1>3, ConfsGrow, SeqElements DEF RInv, Request, CInv, ServedTyped
<1>7. QED
  BY <1>1, <1>3, <1>5, <1>6 DEF RInv, PodTyped

LEMMA ApiServerTyped ==
  ASSUME CInv, RInv, [Next]_vars, NEW p \in Pods, ApiServer(p)
  PROVE  RInv'
<1>1. request[p] \in Request /\ request[p].conf <= Len(meshConfs) /\ MaxCalls \in Nat \ {0}
  BY WebhookAssumption DEF WebhookAssumption, RInv
<1>2. {"mode", "running", "refused"} \subseteq PCs \ {"none"}
  BY DEF PCs, Serving
<1>3. rootCert' \in BOOLEAN /\ faults' \in 0..MaxFaults
  BY DEF RInv, ApiServer, Submit, CallAgain, Validate, Resubmit, requestOnly
<1>4. CASE Submit(p)
  <2> DEFINE r == [request[p] EXCEPT !.pc = "mode", !.calls = 1]
  <2>1. r \in Request /\ r.conf = request[p].conf /\ r.pc # "none"
    <3>1. 1 \in 0..MaxCalls
      BY <1>1
    <3>2. QED
      BY <1>1, <1>2, <3>1 DEF Request
  <2>2. request' = [request EXCEPT ![p] = r]
    BY <1>4 DEF Submit, RInv
  <2>3. PICK m \in UserPods : pod' = [pod EXCEPT ![p] = m]
    BY <1>4 DEF Submit
  <2>4. /\ DOMAIN pod' = Pods /\ DOMAIN pod'[p] = ManifestFields
        /\ \A q \in Pods : q # p => pod'[q] = pod[q]
    BY <2>3, WebhookAssumption DEF WebhookAssumption, RInv
  <2> HIDE DEF r
  <2>5. QED
    BY <1>1, <1>3, <2>1, <2>2, <2>4, RequestReplaced
<1>5. CASE CallAgain(p) \/ Resubmit(p)
  <2> DEFINE r == [request[p] EXCEPT !.pc = "mode", !.calls = @ + 1]
  <2>1. Call(p) /\ request[p].pc # "none"
    BY <1>5 DEF CallAgain, Resubmit
  <2>2. request[p].calls + 1 \in 0..MaxCalls
    BY <1>1, <2>1 DEF Call, Request
  <2>3. r \in Request /\ r.conf = request[p].conf /\ r.pc # "none"
    BY <1>1, <1>2, <2>2 DEF Request
  <2>4. request' = [request EXCEPT ![p] = r]
    BY <2>1 DEF Call, RInv
  <2>5. pod' = pod \/ \E a : pod' = [pod EXCEPT ![p].annotations = a]
    BY <1>5 DEF CallAgain, Resubmit, requestOnly
  <2>6. DOMAIN pod[p] = ManifestFields
    BY <2>1 DEF RInv, PodTyped
  <2>7. /\ DOMAIN pod' = Pods /\ DOMAIN pod'[p] = ManifestFields
        /\ \A q \in Pods : q # p => pod'[q] = pod[q]
    BY <2>5, <2>6 DEF RInv
  <2> HIDE DEF r
  <2>8. QED
    BY <1>1, <1>3, <2>3, <2>4, <2>7, RequestReplaced
<1>6. CASE Validate(p)
  <2>1. PICK pc \in {"running", "refused"} : request' = [request EXCEPT ![p].pc = pc]
    BY <1>6 DEF Validate, Goto
  <2> DEFINE r == [request[p] EXCEPT !.pc = pc]
  <2>2. r \in Request /\ r.conf = request[p].conf /\ r.pc # "none"
    BY <1>1, <1>2 DEF Request
  <2>3. request' = [request EXCEPT ![p] = r]
    BY <2>1 DEF RInv
  <2>4. pod' = pod /\ request[p].pc # "none"
    BY <1>6 DEF Validate, requestOnly
  <2> HIDE DEF r
  <2>5. QED
    BY <1>1, <1>3, <2>2, <2>3, <2>4, RequestMoved
<1>7. QED
  BY <1>4, <1>5, <1>6 DEF ApiServer

LEMMA RInvStep ==
  ASSUME CInv, RInv, [Next]_vars
  PROVE  RInv'
<1>1. CASE UNCHANGED podVars
  <2>1. UNCHANGED <<request, pod, rootCert, faults>>
    BY <1>1 DEF podVars
  <2>2. \A p \in Pods : request[p].conf <= Len(meshConfs')
    BY ConfsGrow, SeqElements DEF RInv, Request, CInv, ServedTyped
  <2>3. QED
    BY <2>1, <2>2 DEF RInv, PodTyped
<1>2. QED
  BY <1>1, ServeTyped, OnDemandTyped, ApiServerTyped DEF Next, vars

(* template_file.go:40, webhook.go:153: templates, certificate and mesh conf.   *)
(* in use, and the versions read so far, are ones the volumes have held; the    *)
(* process serves or loads; a request's mesh configuration is still there; and  *)
(* a pod in service has its manifest, whatever has been done to it.             *)
THEOREM WebhookTypeCorrect == Spec => []TypeOK
<1>1. CInv /\ RInv /\ [Next]_vars => (CInv /\ RInv)'
  BY CInvStep, RInvStep
<1>2. Init => CInv /\ RInv
  BY InitCInv, InitRInv
<1>3. QED
  BY <1>1, <1>2, RInvSuffices, PTL DEF Spec
=============================================================================
