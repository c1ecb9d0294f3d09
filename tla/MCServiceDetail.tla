--------------------------- MODULE MCServiceDetail ---------------------------
(* Four states of a service: plain; with a health check, a weight and custom *)
(* metadata; a stateful one with values out of range, weights by index and   *)
(* another alias; and one whose metadata parse in part only.  The labels of  *)
(* the pods: none; one Polaris keeps anyway; some that make for more keys    *)
(* and contradict the annotation; and one that hides whose the instance is.  *)
EXTENDS ServiceDetail

MCObjects == {
  [ttl |-> 0, weight |-> Null, stateful |-> FALSE, custom |-> NoMap, meta |-> Null,
   broken |-> FALSE, labels |-> [app |-> "x"], alias |-> Null],
  [ttl |-> 60, weight |-> 50, stateful |-> FALSE, custom |-> NoMap,
   meta |-> [zone |-> "z1"], broken |-> FALSE, labels |-> [app |-> "y"], alias |-> "a"],
  [ttl |-> 61, weight |-> 50, stateful |-> TRUE, custom |-> [i \in {"0"} |-> 200],
   meta |-> [zone |-> "z2", source |-> "mine"], broken |-> FALSE, labels |-> NoMap, alias |-> "b"],
  [ttl |-> 0, weight |-> 0, stateful |-> FALSE, custom |-> NoMap,
   meta |-> [zone |-> "z3"], broken |-> TRUE, labels |-> [app |-> "y"], alias |-> "a"] }

Pod(labels, protocol, ready) ==
  [ready |-> ready, index |-> "0", protocol |-> protocol, labels |-> labels]

MCEndpoints == {
  Pod(NoMap, "http", TRUE), Pod([version |-> "v"], "http", FALSE), Pod(NoMap, "grpc", TRUE),
  Pod([zone |-> "pod", app |-> "x"], "http", TRUE),
  Pod([source |-> "git"], "http", TRUE) }
=============================================================================
