------------------------------ MODULE PatchBuild ------------------------------
(***************************************************************************)
(* The JSON patches of the injection (pkg/inject/pkg/kube/inject/apply,    *)
(* createPatch of webhook.go) and what applying them does to a pod.        *)
(*                                                                         *)
(* The containers, volumes and secrets of a pod are lists of items, in the *)
(* document under the paths that ListNames names; a list may be absent.    *)
(* Of an item count its name and, for a container, how often the directory *)
(* of the java agent is mounted into it.                                   *)
(***************************************************************************)
EXTENDS Naturals, SequencesExt

CONSTANTS Null     \* what is absent

ListNames == <<"initContainers", "containers", "volumes", "imagePullSecrets">>
Lists == Range(ListNames)
Item(name) == [name |-> name, agents |-> 0]
AgentDir == "java-agent-dir"

Items(list) == IF list = Null THEN << >> ELSE list
Names(list) == [i \in DOMAIN Items(list) |-> Items(list)[i].name]

-----------------------------------------------------------------------------
(* The operations of a patch.  All of them are made from the pod as it came *)
(* in, and applied one after the other.                                     *)

Hits(list, names) == {i \in DOMAIN Items(list) : Items(list)[i].name \in names}

(* The k-th of a set of indices, counted from its first and from its last. *)
FromFirst(S, k) == CHOOSE i \in S : Cardinality({j \in S : j <= i}) = k
FromLast(S, k) == CHOOSE i \in S : Cardinality({j \in S : j >= i}) = k

\* Mutant: indices are removed in ascending order.
RemoveOps_Ascending(l, list, names) ==
  LET hits == Hits(list, names)
  IN  [k \in 1..Cardinality(hits) |->
         [op |-> "remove", list |-> l, index |-> FromFirst(hits, k)]]

(* Removals go backwards, so that they renumber nothing still to be removed. *)
RemoveOps(l, list, names) ==
  LET hits == Hits(list, names)
  IN  [k \in 1..Cardinality(hits) |->
         [op |-> "remove", list |-> l, index |-> FromLast(hits, k)]]

(* The first item makes the list if the pod came without, the others are     *)
(* appended.                                                                 *)
AddOps(l, list, names) ==
  [k \in DOMAIN names |->
     [op |-> IF k = 1 /\ Items(list) = << >> THEN "set" ELSE "append",
      list |-> l, item |-> Item(names[k])]]

(* updateContainer: every container of the pod as it came in is replaced, at  *)
(* its place there, by itself with the agent's directory mounted.             *)
UpdateOps(containers) ==
  [i \in DOMAIN Items(containers) |->
     [op |-> "replace", list |-> "containers", index |-> i,
      item |-> [containers[i] EXCEPT !.agents = @ + 1]]]

\* Mutant: what was injected before is not removed.
createPatch_KeepsPrevious(mode, lists, prevStatus, sic) ==
  LET added == [i \in 1..4 |-> AddOps(ListNames[i], lists[ListNames[i]], sic[ListNames[i]])]
  IN  added[1] \o added[2]
      \o (IF mode = "javaAgent" THEN UpdateOps(lists.containers) ELSE << >>)
      \o added[3] \o added[4]

createPatch(mode, lists, prevStatus, sic) ==
  LET removed == [i \in 1..4 |-> RemoveOps(ListNames[i], lists[ListNames[i]],
                                           Range(prevStatus[ListNames[i]]))]
      added == [i \in 1..4 |-> AddOps(ListNames[i], lists[ListNames[i]], sic[ListNames[i]])]
  IN  removed[1] \o removed[2] \o removed[3] \o removed[4] \o added[1] \o added[2]
      \o (IF mode = "javaAgent" THEN UpdateOps(lists.containers) ELSE << >>)
      \o added[3] \o added[4]

-----------------------------------------------------------------------------
(* The API server.  An operation whose place is not there fails the patch.   *)
ApplyOp(lists, o) ==
  IF lists = Null THEN Null
  ELSE LET list == lists[o.list]
           With(new) == [lists EXCEPT ![o.list] = new]
       IN  CASE o.op = "set" -> With(<<o.item>>)
             [] o.op = "append" -> IF list = Null THEN Null ELSE With(Append(list, o.item))
             [] o.op = "remove" -> IF o.index \in DOMAIN Items(list)
                                   THEN With(RemoveAt(list, o.index)) ELSE Null
             [] o.op = "replace" -> IF o.index \in DOMAIN Items(list)
                                    THEN With(ReplaceAt(list, o.index, o.item)) ELSE Null

ApplyPatch(lists, patch) ==
  LET after[k \in 0..Len(patch)] == IF k = 0 THEN lists ELSE ApplyOp(after[k - 1], patch[k])
  IN  after[Len(patch)]

(* What a pod must be to be admitted: names are unique, nothing is mounted     *)
(* twice at one path, and what is mounted exists.                              *)
ValidPod(lists) ==
  /\ \A l \in Lists : IsInjective(Names(lists[l]))
  /\ \A i \in DOMAIN Items(lists.containers) :
       /\ lists.containers[i].agents <= 1
       /\ lists.containers[i].agents = 1 => AgentDir \in Range(Names(lists.volumes))
=============================================================================
