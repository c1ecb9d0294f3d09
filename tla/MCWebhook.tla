------------------------------- MODULE MCWebhook -------------------------------
(* Two versions of each mode's template, with the names of the deployed ones,  *)
(* and the pods that users submit.                                             *)
EXTENDS Webhook, TLC

Inject(init, containers, volumes) ==
  [initContainers |-> init, containers |-> containers, volumes |-> volumes,
   imagePullSecrets |-> << >>]
Template(always, lists) ==
  [policy |-> "enabled", never |-> {"disabled"}, always |-> always, lists |-> lists]

TwoVersions == [
  mesh |-> <<
    Template({}, Inject(<<"polaris-bootstrap-writer", "polaris-sidecar-init">>,
                        <<"envoy", "polaris-sidecar">>, <<"envoy-logs", "polaris-log">>)),
    Template({}, Inject(<<"polaris-bootstrap-writer">>,
                        <<"polaris-sidecar", "envoy">>, <<"polaris-log", "polaris-socket">>)) >>,
  dns |-> <<
    Template({}, Inject(<<"polaris-sidecar-init">>, <<"polaris-sidecar">>, <<"polaris-log">>)),
    Template({}, Inject(<< >>, <<"polaris-sidecar">>, <<"polaris-dir", "polaris-log">>)) >>,
  javaAgent |-> <<
    Template({}, Inject(<<"polaris-javaagent-init">>, << >>, <<AgentDir>>)),
    Template({}, Inject(<<"polaris-javaagent-init">>, << >>, <<AgentDir>>)) >> ]

\* The third version takes the second back.
MCTemplates == [m \in Modes |-> Append(TwoVersions[m], TwoVersions[m][1])]

Manifest(annotations, init, containers, volumes) ==
  [lists |-> [initContainers |-> init, containers |-> containers, volumes |-> volumes,
              imagePullSecrets |-> Null],
   annotations |-> annotations, status |-> Null, labels |-> {},
   hostNetwork |-> FALSE, clusterFirst |-> TRUE]

Bare == Manifest(Null, Null, <<Item("app")>>, Null)
OnDemand == Manifest("openOnDemand" :> "true", Null, <<Item("app")>>, Null)
Tls == Manifest("tls-mode" :> "strict", <<Item("setup")>>,
                <<Item("app"), Item("log")>>, <<Item("data")>>)

MCUserPods == {Bare, OnDemand, Tls}
MCOnDemandPods == {OnDemand}
MCSymmetry == Permutations(Pods)

MCTemplatesChange == [inject |-> 2, bootstrap |-> 1, certs |-> 1]
MCFilesChange == [inject |-> 3, bootstrap |-> 1, certs |-> 2]
MCEdits == {[key |-> "sidecar-mode", value |-> "mesh"], [key |-> "inject", value |-> "no"],
            [key |-> "javaagent", value |-> "true"]}
=============================================================================
