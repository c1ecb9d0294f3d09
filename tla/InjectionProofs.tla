---------------------------- MODULE InjectionProofs ----------------------------
(***************************************************************************)
(* Theorems about what the webhook injects: what applying a patch of       *)
(* createPatch leaves of a pod's lists, and with it what a pod holds after *)
(* any number of calls, in any modes and versions of the templates.        *)
(***************************************************************************)
EXTENDS WebhookProofs, FiniteSetTheorems, WellFoundedInduction

(* The lists of a pod, in any state between its user's and an injected one. *)
PodItem == [name : STRING, agents : Nat]
PodList == {Null} \cup Seq(PodItem)
PodLists == [Lists -> PodList]
PatchOp == [op : {"remove"}, list : Lists, index : Nat]
             \cup [op : {"set", "append"}, list : Lists, item : PodItem]
             \cup [op : {"replace"}, list : Lists, index : Nat, item : PodItem]

-----------------------------------------------------------------------------
(* Induction over the natural numbers, for a set instead of a predicate. *)
LEMMA NatSetInduction ==
  ASSUME NEW S, 0 \in S, \A n \in Nat : n \in S => n + 1 \in S
  PROVE  Nat \subseteq S
<1> DEFINE T == Nat \ S
<1>1. SUFFICES ASSUME T # {} PROVE FALSE
  OBVIOUS
<1>2. PICK x \in T : \A y \in T : ~(<<y, x>> \in OpToRel(<, Nat))
  BY <1>1, NatLessThanWellFounded, WFMin
<1>3. x # 0 /\ x - 1 \in Nat /\ x - 1 < x
  OBVIOUS
<1>4. <<x - 1, x>> \in OpToRel(<, Nat)
  BY <1>3 DEF OpToRel
<1>5. x - 1 \notin T
  BY <1>2, <1>4
<1>6. QED
  BY <1>3, <1>5

(* The states between the operations of a patch. *)
IsAfter(f, n, lists, patch) ==
  f = [k \in 0..n |-> IF k = 0 THEN lists ELSE ApplyOp(f[k - 1], patch[k])]

LEMMA AfterExists ==
  ASSUME NEW lists, NEW patch
  PROVE  \A n \in Nat : \E f : IsAfter(f, n, lists, patch)
<1> DEFINE S == {n \in Nat : \E f : IsAfter(f, n, lists, patch)}
<1>1. 0 \in S
  <2> DEFINE f == [k \in 0..0 |-> lists]
  <2>1. IsAfter(f, 0, lists, patch)
    BY DEF IsAfter
  <2>2. QED
    BY <2>1
<1>2. ASSUME NEW n \in Nat, n \in S
      PROVE  n + 1 \in S
  <2>1. PICK f : IsAfter(f, n, lists, patch)
    BY <1>2
  <2> DEFINE g == [k \in 0..(n + 1) |->
                     IF k = n + 1 THEN ApplyOp(f[n], patch[n + 1]) ELSE f[k]]
  <2>2. IsAfter(g, n + 1, lists, patch)
    BY <2>1 DEF IsAfter
  <2>3. QED
    BY <2>2
<1>3. QED
  BY <1>1, <1>2, NatSetInduction

(* A patch is applied if its operations are, one after the other: it is enough *)
(* to name the states between them.                                            *)
LEMMA PatchApplied ==
  ASSUME NEW lists, NEW patch, Len(patch) \in Nat, NEW G, G[0] = lists,
         \A k \in 1..Len(patch) : G[k] = ApplyOp(G[k - 1], patch[k])
  PROVE  ApplyPatch(lists, patch) = G[Len(patch)]
<1> DEFINE n == Len(patch)
<1>1. PICK f : IsAfter(f, n, lists, patch) /\ ApplyPatch(lists, patch) = f[n]
  <2>1. \E f : IsAfter(f, n, lists, patch)
    BY AfterExists
  <2>2. QED
    BY <2>1 DEF ApplyPatch, IsAfter
<1> DEFINE S == {k \in Nat : k <= n => f[k] = G[k]}
<1>2. 0 \in S
  BY <1>1 DEF IsAfter
<1>3. ASSUME NEW k \in Nat, k \in S
      PROVE  k + 1 \in S
  <2>1. CASE k + 1 <= n
    <3>1. f[k] = G[k] /\ k + 1 \in 1..n /\ k + 1 \in 0..n /\ (k + 1) - 1 = k
      BY <1>3, <2>1
    <3>2. f[k + 1] = ApplyOp(f[k], patch[k + 1])
      BY <1>1, <3>1 DEF IsAfter
    <3>3. G[k + 1] = ApplyOp(G[k], patch[k + 1])
      BY <3>1
    <3>4. QED
      BY <3>1, <3>2, <3>3
  <2>2. QED
    BY <2>1
<1>4. n \in S
  BY <1>2, <1>3, NatSetInduction
<1>5. QED
  BY <1>1, <1>4

LEMMA PatchHasStates ==
  ASSUME NEW lists, NEW patch, Len(patch) \in Nat
  PROVE  \E G : /\ G[0] = lists
                /\ \A k \in 1..Len(patch) : G[k] = ApplyOp(G[k - 1], patch[k])
                /\ ApplyPatch(lists, patch) = G[Len(patch)]
<1>1. PICK f : IsAfter(f, Len(patch), lists, patch)
  BY AfterExists
<1>2. f[0] = lists /\ \A k \in 1..Len(patch) : f[k] = ApplyOp(f[k - 1], patch[k])
  BY <1>1 DEF IsAfter
<1>3. QED
  BY <1>2, PatchApplied

LEMMA PatchesFollow ==
  ASSUME NEW lists, NEW T, NEW a \in Seq(T), NEW b \in Seq(T)
  PROVE  ApplyPatch(lists, a \o b) = ApplyPatch(ApplyPatch(lists, a), b)
<1> DEFINE m == Len(a)
           n == Len(b)
<1>1. PICK F : /\ F[0] = lists
               /\ \A k \in 1..m : F[k] = ApplyOp(F[k - 1], a[k])
               /\ ApplyPatch(lists, a) = F[m]
  BY PatchHasStates, LenProperties
<1>2. PICK G : /\ G[0] = F[m]
               /\ \A k \in 1..n : G[k] = ApplyOp(G[k - 1], b[k])
               /\ ApplyPatch(F[m], b) = G[n]
  BY PatchHasStates, LenProperties
<1> DEFINE H == [k \in 0..(m + n) |-> IF k <= m THEN F[k] ELSE G[k - m]]
<1>3. /\ m \in Nat /\ n \in Nat /\ Len(a \o b) = m + n
      /\ \A k \in 1..(m + n) : (a \o b)[k] = IF k <= m THEN a[k] ELSE b[k - m]
  BY LenProperties, ConcatProperties
<1>4. H[0] = lists
  BY <1>1, <1>3
<1>5. ASSUME NEW k \in 1..(m + n)
      PROVE  H[k] = ApplyOp(H[k - 1], (a \o b)[k])
  <2>1. CASE k <= m
    <3>1. H[k] = F[k] /\ H[k - 1] = F[k - 1] /\ (a \o b)[k] = a[k] /\ k \in 1..m
      BY <1>3, <2>1
    <3>2. QED
      BY <1>1, <3>1
  <2>2. CASE k > m
    <3>1. /\ k - m \in 1..n /\ H[k] = G[k - m] /\ (a \o b)[k] = b[k - m]
          /\ H[k - 1] = G[(k - m) - 1]
      <4>1. k - m \in 1..n /\ H[k] = G[k - m] /\ (a \o b)[k] = b[k - m]
        BY <1>3, <2>2
      <4>2. CASE k = m + 1
        BY <1>2, <1>3, <4>1, <4>2
      <4>3. CASE k # m + 1
        BY <1>3, <2>2, <4>1, <4>3
      <4>4. QED
        BY <4>1, <4>2, <4>3
    <3>2. QED
      BY <1>2, <3>1
  <2>3. QED
    BY <1>3, <2>1, <2>2
<1>6. ApplyPatch(lists, a \o b) = H[m + n]
  <2> DEFINE patch == a \o b
  <2>1. Len(patch) = m + n /\ Len(patch) \in Nat
    BY <1>3
  <2>2. \A k \in 1..Len(patch) : H[k] = ApplyOp(H[k - 1], patch[k])
    BY <1>5, <2>1
  <2> HIDE DEF H, patch
  <2>3. ApplyPatch(lists, patch) = H[Len(patch)]
    BY <1>4, <2>1, <2>2, PatchApplied
  <2>4. QED
    BY <2>1, <2>3 DEF patch
<1>7. H[m + n] = G[n]
  <2>1. CASE n = 0
    BY <1>2, <1>3, <2>1
  <2>2. CASE n # 0
    BY <1>3, <2>2
  <2>3. QED
    BY <2>1, <2>2
<1>8. QED
  BY <1>1, <1>2, <1>6, <1>7

LEMMA NothingAfterFailure ==
  ASSUME NEW patch, Len(patch) \in Nat
  PROVE  ApplyPatch(Null, patch) = Null
<1> DEFINE G == [k \in 0..Len(patch) |-> Null]
<1>1. G[0] = Null /\ \A k \in 1..Len(patch) : G[k] = ApplyOp(G[k - 1], patch[k])
  BY DEF ApplyOp
<1>2. QED
  BY <1>1, PatchApplied

-----------------------------------------------------------------------------
(* The operations on one list. *)
LEMMA ListsNamed ==
  /\ Lists = {"initContainers", "containers", "volumes", "imagePullSecrets"}
  /\ \A i \in 1..4 : ListNames[i] \in Lists
  /\ ListNames[1] = "initContainers" /\ ListNames[2] = "containers"
  /\ ListNames[3] = "volumes" /\ ListNames[4] = "imagePullSecrets"
<1>1. ListNames = <<"initContainers", "containers", "volumes", "imagePullSecrets">>
  BY DEF ListNames
<1>2. DOMAIN ListNames = 1..4
  BY <1>1
<1>3. Lists = {ListNames[i] : i \in 1..4}
  BY <1>2 DEF Lists, Range
<1>4. /\ ListNames[1] = "initContainers" /\ ListNames[2] = "containers"
      /\ ListNames[3] = "volumes" /\ ListNames[4] = "imagePullSecrets"
  BY <1>1
<1>5. 1..4 = {1, 2, 3, 4}
  OBVIOUS
<1>6. QED
  BY <1>3, <1>4, <1>5

LEMMA ItemsTyped ==
  ASSUME NEW list \in PodList
  PROVE  /\ Items(list) \in Seq(PodItem) /\ Len(Items(list)) \in Nat
         /\ DOMAIN Items(list) = 1..Len(Items(list))
         /\ list # Null => Items(list) = list
         /\ \A i \in 1..Len(Items(list)) : Items(list)[i] \in PodItem
<1>1. Items(list) \in Seq(PodItem)
  BY DEF PodList, Items
<1>2. QED
  BY <1>1, SeqElements, LenProperties DEF Items

LEMMA PodListsNotNull ==
  ASSUME NEW lists \in PodLists
  PROVE  lists # Null
BY NullAssumption DEF PodLists, PodList, PodItem

LEMMA SequencesNotNull ==
  ASSUME NEW s \in Seq(PodItem)
  PROVE  s # Null /\ s \in PodList /\ Items(s) = s
BY NullAssumption DEF PodList, PodItem, Items

LEMMA LastOfInterval ==
  ASSUME NEW m \in Nat, NEW n \in 0..m, NEW k \in 1..(m - n)
  PROVE  FromLast((n + 1)..m, k) = m - k + 1
<1> DEFINE S == (n + 1)..m
<1>1. \A i \in S : Cardinality({j \in S : j >= i}) = m - i + 1
  <2> SUFFICES ASSUME NEW i \in S
               PROVE  Cardinality({j \in S : j >= i}) = m - i + 1
    OBVIOUS
  <2>1. {j \in S : j >= i} = i..m
    OBVIOUS
  <2>2. Cardinality(i..m) = m - i + 1
    BY FS_Interval
  <2>3. QED
    BY <2>1, <2>2
<1>2. m - k + 1 \in S
  OBVIOUS
<1>3. \A i \in S : Cardinality({j \in S : j >= i}) = k <=> i = m - k + 1
  BY <1>1
<1>4. QED
  BY <1>2, <1>3 DEF FromLast

(* Items at the end of a list are removed, the last first. *)
LEMMA Removed ==
  ASSUME NEW lists \in PodLists, NEW l \in Lists, NEW names,
         NEW n \in 0..Len(Items(lists[l])),
         Hits(lists[l], names) = (n + 1)..Len(Items(lists[l]))
  PROVE  LET ops == RemoveOps(l, lists[l], names)
             after == ApplyPatch(lists, ops)
         IN  /\ ops \in Seq(PatchOp)
             /\ after \in PodLists
             /\ \A k \in Lists \ {l} : after[k] = lists[k]
             /\ Items(after[l]) = SubSeq(Items(lists[l]), 1, n)
             /\ n = Len(Items(lists[l])) => after[l] = lists[l]
             /\ lists[l] # Null => after[l] # Null
<1> DEFINE items == Items(lists[l])
           m == Len(items)
           ops == RemoveOps(l, lists[l], names)
           after == ApplyPatch(lists, ops)
<1>1. lists[l] \in PodList /\ items \in Seq(PodItem) /\ m \in Nat
  BY ItemsTyped DEF PodLists
<1>2. Cardinality((n + 1)..m) = m - n /\ Hits(lists[l], names) = (n + 1)..m
  <2>1. n + 1 \in Int /\ m \in Int
    BY <1>1
  <2>2. Cardinality((n + 1)..m) = IF n + 1 > m THEN 0 ELSE m - (n + 1) + 1
    BY <2>1, FS_Interval
  <2>3. QED
    BY <1>1, <2>2
<1>3. ops = [k \in 1..(m - n) |-> [op |-> "remove", list |-> l, index |-> m - k + 1]]
  BY <1>1, <1>2, LastOfInterval DEF RemoveOps
<1>4. ops \in Seq(PatchOp) /\ Len(ops) = m - n
  <2>1. \A k \in 1..(m - n) : [op |-> "remove", list |-> l, index |-> m - k + 1] \in PatchOp
    BY <1>1 DEF PatchOp
  <2>2. m - n \in Nat
    BY <1>1
  <2> HIDE DEF m, ops
  <2>3. QED
    BY <1>3, <2>1, <2>2
<1>5. CASE n = m
  <2> DEFINE G == [k \in {0} |-> lists]
  <2>1. Len(ops) = 0 /\ \A k \in 1..Len(ops) : G[k] = ApplyOp(G[k - 1], ops[k])
    BY <1>1, <1>4, <1>5
  <2>2. after = lists
    <3>1. G[0] = lists
      OBVIOUS
    <3> HIDE DEF ops, G
    <3>2. ApplyPatch(lists, ops) = G[Len(ops)]
      BY <2>1, <3>1, PatchApplied
    <3>3. QED
      BY <2>1, <3>1, <3>2
  <2>3. SubSeq(items, 1, n) = items
    BY <1>1, <1>5
  <2>4. QED
    BY <1>4, <2>2, <2>3
<1>6. CASE n < m
  <2> DEFINE G == [k \in 0..(m - n) |-> [lists EXCEPT ![l] = SubSeq(items, 1, m - k)]]
  <2>1. lists[l] = items
    BY <1>1, <1>6 DEF Items
  <2>2. \A k \in 0..(m - n) : SubSeq(items, 1, m - k) \in Seq(PodItem)
                              /\ Len(SubSeq(items, 1, m - k)) = m - k
    BY <1>1
  <2>3. \A k \in 0..(m - n) : G[k] \in PodLists
    BY <2>2, SequencesNotNull DEF PodLists
  <2>4. G[0] = lists
    BY <1>1, <2>1 DEF PodLists
  <2>5. ASSUME NEW k \in 1..(m - n)
        PROVE  G[k] = ApplyOp(G[k - 1], ops[k])
    <3> DEFINE s == SubSeq(items, 1, m - (k - 1))
               i == m - k + 1
    <3>1. s \in Seq(PodItem) /\ Len(s) = i /\ i \in 1..Len(s) /\ k - 1 \in 0..(m - n)
      BY <1>1, <2>2
    <3>2. G[k - 1] \in PodLists /\ G[k - 1][l] = s /\ G[k - 1] = [lists EXCEPT ![l] = s]
      BY <2>3, <3>1 DEF PodLists
    <3>3. RemoveAt(s, i) = SubSeq(items, 1, m - k)
      <4>1. SubSeq(s, 1, i - 1) = SubSeq(items, 1, m - k)
        BY <1>1, <3>1
      <4>2. SubSeq(s, i + 1, Len(s)) = << >>
        BY <3>1
      <4>3. SubSeq(items, 1, m - k) \o << >> = SubSeq(items, 1, m - k)
        BY <2>2, ConcatEmptySeq
      <4>4. QED
        BY <4>1, <4>2, <4>3 DEF RemoveAt
    <3>4. ops[k] = [op |-> "remove", list |-> l, index |-> i]
      BY <1>3
    <3> HIDE DEF s, i
    <3>5. Items(s) = s /\ i \in DOMAIN s
      BY <3>1, SequencesNotNull, LenProperties
    <3> HIDE DEF G, ops
    <3>6. ApplyOp(G[k - 1], ops[k]) = [G[k - 1] EXCEPT ![l] = RemoveAt(s, i)]
      <4>1. G[k - 1] # Null
        BY <3>2, PodListsNotNull
      <4>2. ops[k].op = "remove" /\ ops[k].list = l /\ ops[k].index = i
        BY <3>4
      <4>3. QED
        BY <3>2, <3>5, <4>1, <4>2 DEF ApplyOp
    <3>7. [G[k - 1] EXCEPT ![l] = RemoveAt(s, i)] = [lists EXCEPT ![l] = RemoveAt(s, i)]
      BY <3>2
    <3>8. G[k] = [lists EXCEPT ![l] = SubSeq(items, 1, m - k)]
      BY DEF G
    <3>9. QED
      BY <3>3, <3>6, <3>7, <3>8
  <2>6. after = G[m - n]
    <3> HIDE DEF ops, G
    <3>1. QED
      BY <1>4, <2>4, <2>5, PatchApplied
  <2>7. after = [lists EXCEPT ![l] = SubSeq(items, 1, n)]
    <3>1. m - n \in 0..(m - n) /\ m - (m - n) = n
      BY <1>1
    <3> HIDE DEF m, items, after
    <3>2. QED
      BY <2>6, <3>1
  <2> DEFINE s == SubSeq(items, 1, n)
  <2>8. s \in Seq(PodItem)
    BY <1>1
  <2> HIDE DEF s, ops, after, items, m
  <2>9. s # Null /\ s \in PodList /\ Items(s) = s
    BY <2>8, SequencesNotNull
  <2>10. /\ after \in PodLists /\ after[l] = s
         /\ \A k \in Lists \ {l} : after[k] = lists[k]
    BY <2>7, <2>9 DEF PodLists, s
  <2>11. n # m
    BY <1>1, <1>6
  <2>12. QED
    BY <1>4, <2>9, <2>10, <2>11 DEF s, m, items, ops, after
<1>7. QED
  BY <1>1, <1>5, <1>6

(* What is injected is added after the items of the list. *)
NewItems(names) == [k \in 1..Len(names) |-> Item(names[k])]

LEMMA NewItemsTyped ==
  ASSUME NEW names \in Seq(STRING)
  PROVE  /\ Len(names) \in Nat /\ DOMAIN names = 1..Len(names)
         /\ \A k \in 1..Len(names) : Item(names[k]) \in PodItem
         /\ \A k \in 0..Len(names) : /\ [i \in 1..k |-> Item(names[i])] \in Seq(PodItem)
                                      /\ Len([i \in 1..k |-> Item(names[i])]) = k
<1>1. Len(names) \in Nat /\ DOMAIN names = 1..Len(names)
      /\ \A k \in 1..Len(names) : names[k] \in STRING
  BY LenProperties, SeqElements
<1>2. \A k \in 1..Len(names) : Item(names[k]) \in PodItem
  BY <1>1 DEF Item, PodItem
<1>3. ASSUME NEW k \in 0..Len(names)
      PROVE  /\ [i \in 1..k |-> Item(names[i])] \in Seq(PodItem)
             /\ Len([i \in 1..k |-> Item(names[i])]) = k
  <2>1. k \in Nat /\ \A i \in 1..k : Item(names[i]) \in PodItem
    BY <1>1, <1>2
  <2>2. QED
    BY <2>1
<1>4. QED
  BY <1>1, <1>2, <1>3

LEMMA Added ==
  ASSUME NEW lists \in PodLists, NEW l \in Lists, NEW old \in PodList,
         NEW names \in Seq(STRING),
         IF Items(old) = << >> THEN Items(lists[l]) = << >> ELSE lists[l] # Null
  PROVE  LET ops == AddOps(l, old, names)
             after == ApplyPatch(lists, ops)
         IN  /\ ops \in Seq(PatchOp)
             /\ after \in PodLists
             /\ \A k \in Lists \ {l} : after[k] = lists[k]
             /\ Items(after[l]) = Items(lists[l]) \o NewItems(names)
             /\ names = << >> => after[l] = lists[l]
<1> DEFINE items == Items(lists[l])
           n == Len(names)
           New(k) == [i \in 1..k |-> Item(names[i])]
           ops == AddOps(l, old, names)
           after == ApplyPatch(lists, ops)
<1>1. lists[l] \in PodList /\ items \in Seq(PodItem)
  BY ItemsTyped DEF PodLists
<1>2. /\ n \in Nat /\ DOMAIN names = 1..n
      /\ \A k \in 1..n : Item(names[k]) \in PodItem
      /\ \A k \in 0..n : New(k) \in Seq(PodItem) /\ Len(New(k)) = k
  BY NewItemsTyped
<1>3. \A k \in 1..n :
        ops[k] = [op |-> IF k = 1 /\ Items(old) = << >> THEN "set" ELSE "append",
                  list |-> l, item |-> Item(names[k])]
  BY <1>2 DEF AddOps
<1>4. ops \in Seq(PatchOp) /\ Len(ops) = n
  <2> DEFINE Op(k) == [op |-> IF k = 1 /\ Items(old) = << >> THEN "set" ELSE "append",
                       list |-> l, item |-> Item(names[k])]
  <2>1. \A k \in 1..n : Op(k) \in PatchOp
    BY <1>2 DEF PatchOp
  <2>2. ops = [k \in 1..n |-> Op(k)]
    BY <1>2 DEF AddOps
  <2> HIDE DEF n, Op, ops
  <2>3. QED
    BY <1>2, <2>1, <2>2
<1>5. CASE names = << >>
  <2> DEFINE G == [k \in {0} |-> lists]
  <2>1. n = 0 /\ Len(ops) = 0
    BY <1>4, <1>5
  <2>2. G[0] = lists /\ \A k \in 1..Len(ops) : G[k] = ApplyOp(G[k - 1], ops[k])
    BY <2>1
  <2>3. after = lists
    <3> HIDE DEF ops, G
    <3>1. ApplyPatch(lists, ops) = G[Len(ops)]
      BY <2>1, <2>2, PatchApplied
    <3>2. QED
      BY <2>1, <2>2, <3>1
  <2>4. items \o NewItems(names) = items
    <3>1. NewItems(names) = << >>
      BY <2>1 DEF NewItems
    <3> HIDE DEF items
    <3>2. QED
      BY <1>1, <3>1, ConcatEmptySeq
  <2>5. QED
    BY <1>4, <2>3, <2>4
<1>6. CASE names # << >>
  <2> DEFINE G == [k \in 0..n |-> IF k = 0 THEN lists ELSE [lists EXCEPT ![l] = items \o New(k)]]
  <2>1. n > 0
    BY <1>2, <1>6, EmptySeq
  <2>2. ASSUME NEW k \in 0..n
        PROVE  items \o New(k) \in Seq(PodItem)
    <3>1. New(k) \in Seq(PodItem)
      BY <1>2
    <3> HIDE DEF items, New
    <3>2. QED
      BY <1>1, <3>1
  <2>3. \A k \in 0..n : G[k] \in PodLists
    BY <2>2, SequencesNotNull DEF PodLists
  <2>4. G[0] = lists
    BY <1>2
  <2>5. ASSUME NEW k \in 1..n
        PROVE  G[k] = ApplyOp(G[k - 1], ops[k])
    <3> DEFINE x == Item(names[k])
               s == items \o New(k - 1)
    <3>1. k - 1 \in 0..n /\ k \in 0..n /\ k # 0
      BY <1>2
    <3>2. Append(New(k - 1), x) = New(k) /\ New(k - 1) \in Seq(PodItem) /\ x \in PodItem
      <4>1. New(k - 1) \in Seq(PodItem) /\ Len(New(k - 1)) = k - 1 /\ x \in PodItem
        BY <1>2, <3>1
      <4>2. \A i \in 1..(k - 1) : New(k - 1)[i] = Item(names[i])
        OBVIOUS
      <4>3. Append(New(k - 1), x) = [i \in 1..k |-> IF i = k THEN x ELSE New(k - 1)[i]]
        <5> HIDE DEF New, x
        <5>1. QED
          BY <3>1, <4>1
      <4>4. QED
        BY <3>1, <4>1, <4>2, <4>3
    <3>3. Append(s, x) = items \o New(k)
      <4> HIDE DEF items, New, x
      <4>1. items \o Append(New(k - 1), x) = Append(items \o New(k - 1), x)
        BY <1>1, <3>2
      <4>2. QED
        BY <3>2, <4>1
    <3>4. s \in Seq(PodItem) /\ s # Null /\ Items(s) = s
      <4> HIDE DEF New, items
      <4>1. QED
        BY <2>2, <3>1, SequencesNotNull
    <3>5. ops[k].list = l /\ ops[k].item = x
          /\ ops[k].op = IF k = 1 /\ Items(old) = << >> THEN "set" ELSE "append"
      <4>1. ops[k] = [op |-> IF k = 1 /\ Items(old) = << >> THEN "set" ELSE "append",
                      list |-> l, item |-> x]
        BY <1>3
      <4> HIDE DEF ops, x
      <4>2. QED
        BY <4>1
    <3>6. G[k] = [lists EXCEPT ![l] = items \o New(k)]
      BY <3>1
    <3>7. G[k - 1] \in PodLists /\ G[k - 1] # Null
      BY <2>3, <3>1, PodListsNotNull
    <3>8. CASE ops[k].op = "set"
      <4>1. k = 1 /\ Items(old) = << >>
        BY <3>5, <3>8
      <4>2. items = << >> /\ G[k - 1] = lists
        BY <2>4, <4>1
      <4>3. items \o New(k) = <<x>>
        <5>1. s = << >>
          <6>1. New(k - 1) = << >>
            BY <4>1
          <6>2. QED
            BY <4>2, <6>1
        <5>2. Append(s, x) = <<x>>
          <6> HIDE DEF s, x
          <6>1. QED
            BY <5>1
        <5> HIDE DEF s, New, items, x
        <5>3. QED
          BY <3>3, <5>2
      <4> HIDE DEF G, ops, items, New, x
      <4>4. ApplyOp(G[k - 1], ops[k]) = [lists EXCEPT ![l] = <<x>>]
        BY <3>5, <3>7, <3>8, <4>2 DEF ApplyOp
      <4>5. QED
        BY <3>6, <4>3, <4>4
    <3>9. CASE ops[k].op = "append"
      <4>1. G[k - 1][l] = s /\ [G[k - 1] EXCEPT ![l] = Append(s, x)] = [lists EXCEPT ![l] = Append(s, x)]
        <5>1. CASE k = 1
          <6>1. Items(old) # << >> /\ lists[l] # Null /\ G[k - 1] = lists
            BY <2>4, <3>5, <3>9, <5>1
          <6>2. lists[l] = items
            BY <6>1 DEF Items
          <6>3. s = items
            <7>1. New(k - 1) = << >>
              BY <5>1
            <7> HIDE DEF items, New
            <7>2. QED
              BY <1>1, <7>1, ConcatEmptySeq
          <6> HIDE DEF G, s, items, New, x
          <6>4. QED
            BY <6>1, <6>2, <6>3
        <5>2. CASE k # 1
          <6>1. k - 1 # 0
            BY <5>2
          <6>2. G[k - 1] = [lists EXCEPT ![l] = s]
            BY <3>1, <6>1
          <6> HIDE DEF G, s, items, New, x
          <6>3. QED
            BY <6>2 DEF PodLists
        <5>3. QED
          BY <5>1, <5>2
      <4> HIDE DEF G, ops, items, New, x, s
      <4>2. ApplyOp(G[k - 1], ops[k]) = [G[k - 1] EXCEPT ![l] = Append(s, x)]
        BY <3>4, <3>5, <3>7, <3>9, <4>1 DEF ApplyOp
      <4>3. QED
        BY <3>3, <3>6, <4>1, <4>2
    <3>10. QED
      BY <3>5, <3>8, <3>9
  <2>6. after = G[n]
    <3> HIDE DEF ops, G
    <3>1. QED
      BY <1>2, <1>4, <2>4, <2>5, PatchApplied
  <2>7. after = [lists EXCEPT ![l] = items \o New(n)]
    <3>1. n \in 0..n /\ n # 0
      BY <1>2, <2>1
    <3> HIDE DEF n, items, after, New
    <3>2. QED
      BY <2>6, <3>1
  <2> DEFINE s == items \o New(n)
  <2>8. s \in Seq(PodItem)
    <3>1. n \in 0..n
      BY <1>2
    <3> HIDE DEF items, n, New
    <3>2. QED
      BY <2>2, <3>1
  <2>9. s = items \o NewItems(names)
    BY DEF NewItems
  <2> HIDE DEF s, ops, after, items, n, New
  <2>10. s # Null /\ s \in PodList /\ Items(s) = s
    BY <2>8, SequencesNotNull
  <2>11. /\ after \in PodLists /\ after[l] = s
         /\ \A k \in Lists \ {l} : after[k] = lists[k]
    BY <2>7, <2>10 DEF PodLists, s
  <2>12. QED
    BY <1>4, <1>6, <2>9, <2>10, <2>11 DEF items, ops, after
<1>7. QED
  BY <1>5, <1>6

(* The agent is mounted into the containers the pod came with; if some of them *)
(* have been removed before, a place is missing and the patch fails.           *)
Mounted(items) == [i \in 1..Len(items) |-> [items[i] EXCEPT !.agents = @ + 1]]

LEMMA Updated ==
  ASSUME NEW lists \in PodLists, NEW old \in PodList,
         lists["containers"] = old \/ Len(Items(lists["containers"])) < Len(Items(old))
  PROVE  LET ops == UpdateOps(old)
             after == ApplyPatch(lists, ops)
         IN  /\ ops \in Seq(PatchOp)
             /\ lists["containers"] = old =>
                  /\ after \in PodLists
                  /\ \A k \in Lists \ {"containers"} : after[k] = lists[k]
                  /\ Items(after["containers"]) = Mounted(Items(old))
             /\ lists["containers"] # old => after = Null
<1> DEFINE l == "containers"
           items == Items(old)
           m == Len(items)
           now == Items(lists[l])
           New(i) == [items[i] EXCEPT !.agents = @ + 1]
           ops == UpdateOps(old)
           after == ApplyPatch(lists, ops)
<1>1. l \in Lists
  BY ListsNamed
<1>2. /\ items \in Seq(PodItem) /\ m \in Nat /\ DOMAIN items = 1..m
      /\ lists[l] \in PodList /\ now \in Seq(PodItem) /\ Len(now) \in Nat
      /\ \A i \in 1..m : items[i] \in PodItem
  BY <1>1, ItemsTyped DEF PodLists
<1>3. \A i \in 1..m : New(i) \in PodItem
  BY <1>2 DEF PodItem
<1>4. m > 0 => old = items
  BY DEF Items
<1> DEFINE Op(i) == [op |-> "replace", list |-> l, index |-> i, item |-> New(i)]
<1>5. ops = [i \in 1..m |-> Op(i)]
  <2>1. ops = [i \in 1..m |-> [op |-> "replace", list |-> "containers", index |-> i,
                              item |-> [old[i] EXCEPT !.agents = @ + 1]]]
    BY <1>2 DEF UpdateOps
  <2>2. \A i \in 1..m : old[i] = items[i]
    BY <1>2, <1>4
  <2>3. QED
    BY <2>1, <2>2
<1>6. ops \in Seq(PatchOp) /\ Len(ops) = m
  <2>1. \A i \in 1..m : Op(i) \in PatchOp
    <3> SUFFICES ASSUME NEW i \in 1..m PROVE Op(i) \in PatchOp
      OBVIOUS
    <3>1. New(i) \in PodItem /\ i \in Nat
      BY <1>2, <1>3
    <3> HIDE DEF New
    <3>2. QED
      BY <1>1, <3>1 DEF PatchOp
  <2> HIDE DEF m, Op, ops
  <2>2. QED
    BY <1>2, <1>5, <2>1
<1> DEFINE Part(k) == [i \in 1..Len(now) |-> IF i <= k THEN New(i) ELSE now[i]]
           G == [k \in 0..m |-> IF k = 0 THEN lists
                                ELSE IF k <= Len(now) THEN [lists EXCEPT ![l] = Part(k)]
                                ELSE Null]
<1>7. Len(now) <= m
  BY <1>2
<1>8. ASSUME NEW k \in 1..m, k <= Len(now)
      PROVE  Part(k) \in Seq(PodItem) /\ Len(Part(k)) = Len(now)
  <2>1. \A i \in 1..Len(now) : (IF i <= k THEN New(i) ELSE now[i]) \in PodItem
    <3>1. \A i \in 1..Len(now) : now[i] \in PodItem
      BY <1>2, SeqElements
    <3> HIDE DEF New, now
    <3>2. QED
      BY <1>2, <1>3, <1>7, <3>1
  <2> HIDE DEF New, now
  <2>2. QED
    BY <1>2, <2>1
<1>9. ASSUME NEW k \in 1..m
      PROVE  G[k] = ApplyOp(G[k - 1], ops[k])
  <2>1. /\ ops[k].op = "replace" /\ ops[k].list = l /\ ops[k].index = k
        /\ ops[k].item = New(k)
    <3> HIDE DEF New, ops, m
    <3>1. QED
      BY <1>5
  <2>2. k - 1 \in 0..m /\ k # 0 /\ k \in 0..m
    BY <1>2
  <2>3. CASE k > Len(now) + 1
    <3>1. G[k] = Null /\ G[k - 1] = Null
      BY <1>2, <2>2, <2>3
    <3> HIDE DEF G, ops, m
    <3>2. QED
      BY <3>1 DEF ApplyOp
  <2>4. CASE k <= Len(now) + 1
    <3> DEFINE s == IF k = 1 THEN now ELSE Part(k - 1)
    <3>1. s \in Seq(PodItem) /\ Len(s) = Len(now) /\ s # Null /\ Items(s) = s
      <4>1. k # 1 => k - 1 \in 1..m /\ k - 1 <= Len(now)
        BY <1>2, <2>4
      <4> HIDE DEF Part, now, m
      <4>2. QED
        BY <1>2, <1>8, <4>1, SequencesNotNull
    <3>2. G[k - 1] \in PodLists /\ Items(G[k - 1][l]) = s
          /\ \A e : [G[k - 1] EXCEPT ![l] = e] = [lists EXCEPT ![l] = e]
      <4>1. CASE k = 1
        <5>1. G[k - 1] = lists /\ s = now
          BY <1>2, <4>1
        <5> HIDE DEF G, s
        <5>2. QED
          BY <5>1
      <4>2. CASE k # 1
        <5>1. G[k - 1] = [lists EXCEPT ![l] = s]
          BY <1>2, <2>2, <2>4, <4>2
        <5> HIDE DEF G, s
        <5>2. QED
          BY <1>1, <3>1, <5>1, SequencesNotNull DEF PodLists
      <4>3. QED
        BY <4>1, <4>2
    <3>3. G[k - 1] # Null
      <4> HIDE DEF G
      <4>1. QED
        BY <3>2, PodListsNotNull
    <3>4. CASE k <= Len(now)
      <4>1. k \in 1..Len(s) /\ k \in DOMAIN s
        BY <1>2, <3>1, <3>4, LenProperties
      <4>2. G[k - 1][l] = s
        <5> HIDE DEF G, s, now
        <5>1. QED
          BY <3>2, <4>1 DEF Items
      <4>3. ReplaceAt(s, k, New(k)) = Part(k)
        <5>1. \A i \in 1..Len(now) : i # k => s[i] = (IF i <= k THEN New(i) ELSE now[i])
          BY <1>2, <3>4
        <5>2. s = [i \in 1..Len(now) |-> s[i]]
          <6> HIDE DEF s, now
          <6>1. QED
            BY <3>1
        <5> HIDE DEF New, now, s
        <5>3. QED
          BY <3>4, <4>1, <5>1, <5>2 DEF ReplaceAt
      <4>4. ApplyOp(G[k - 1], ops[k]) = [G[k - 1] EXCEPT ![l] = ReplaceAt(s, k, New(k))]
        <5> HIDE DEF G, ops, s, New
        <5>1. QED
          BY <2>1, <3>1, <3>3, <4>1, <4>2 DEF ApplyOp
      <4>5. G[k] = [lists EXCEPT ![l] = Part(k)]
        BY <2>2, <3>4
      <4> HIDE DEF G, ops, s, New, Part
      <4>6. QED
        BY <3>2, <4>3, <4>4, <4>5
    <3>5. CASE k = Len(now) + 1
      <4>1. k \notin DOMAIN s /\ G[k] = Null
        <5>1. k \notin DOMAIN s
          <6> HIDE DEF s, now
          <6>1. QED
            BY <1>2, <3>1, <3>5, LenProperties
        <5>2. G[k] = Null
          BY <1>2, <2>2, <3>5
        <5>3. QED
          BY <5>1, <5>2
      <4> HIDE DEF G, ops, s, New
      <4>2. QED
        BY <2>1, <3>2, <3>3, <4>1 DEF ApplyOp
    <3>6. QED
      BY <1>2, <2>4, <3>4, <3>5
  <2>5. QED
    BY <1>2, <2>3, <2>4
<1>10. after = G[m]
  <2>1. G[0] = lists
    BY <1>2
  <2> HIDE DEF ops, G
  <2>2. QED
    BY <1>2, <1>6, <1>9, <2>1, PatchApplied
<1>11. CASE lists[l] # old
  <2>1. m # 0 /\ ~(m <= Len(now)) /\ m \in 0..m
    BY <1>2, <1>11
  <2>2. G[m] = Null
    BY <2>1
  <2> HIDE DEF G, ops, after
  <2>3. QED
    BY <1>6, <1>10, <1>11, <2>2 DEF ops, after
<1>12. CASE lists[l] = old
  <2>1. now = items
    BY <1>12
  <2>2. CASE m = 0
    <3>1. after = lists /\ Mounted(items) = << >> /\ items = << >>
      <4>1. G[m] = lists
        BY <2>2
      <4>2. Mounted(items) = << >>
        BY <2>2 DEF Mounted
      <4>3. items = << >>
        <5> HIDE DEF items
        <5>1. QED
          BY <1>2, <2>2, EmptySeq
      <4> HIDE DEF G, items, after
      <4>4. QED
        BY <1>10, <4>1, <4>2, <4>3
    <3>2. QED
      BY <1>6, <1>12, <3>1
  <2>3. CASE m # 0
    <3>1. m \in 1..m /\ m \in 0..m /\ m <= Len(now)
      BY <1>2, <2>1, <2>3
    <3>2. G[m] = [lists EXCEPT ![l] = Part(m)]
      BY <2>3, <3>1
    <3>3. Part(m) = Mounted(items)
      BY <1>2, <2>1 DEF Mounted
    <3>4. Part(m) \in Seq(PodItem)
      <4> HIDE DEF Part
      <4>1. QED
        BY <1>8, <3>1
    <3> DEFINE s == Part(m)
    <3> HIDE DEF s, G, ops, after, items
    <3>5. s # Null /\ s \in PodList /\ Items(s) = s
      BY <3>4, SequencesNotNull DEF s
    <3>6. /\ after \in PodLists /\ after[l] = s
          /\ \A k \in Lists \ {l} : after[k] = lists[k]
      BY <1>1, <1>10, <3>2, <3>5 DEF PodLists, s
    <3>7. QED
      BY <1>6, <1>12, <3>3, <3>5, <3>6 DEF s, items, ops, after
  <2>4. QED
    BY <2>2, <2>3
<1>13. QED
  BY <1>11, <1>12

-----------------------------------------------------------------------------
(* The patch as a whole. *)

(* The removals of all four lists: what they leave is what stands before the   *)
(* first item to be removed.                                                   *)
LEMMA AllRemoved ==
  ASSUME NEW lists \in PodLists, NEW names, NEW n,
         \A l \in Lists :
           /\ n[l] \in 0..Len(Items(lists[l]))
           /\ Hits(lists[l], names[l]) = (n[l] + 1)..Len(Items(lists[l]))
  PROVE  LET ops(i) == RemoveOps(ListNames[i], lists[ListNames[i]], names[ListNames[i]])
             after == ApplyPatch(lists, ops(1) \o ops(2) \o ops(3) \o ops(4))
         IN  /\ \A i \in 1..4 : ops(i) \in Seq(PatchOp)
             /\ after \in PodLists
             /\ \A l \in Lists :
                  /\ Items(after[l]) = SubSeq(Items(lists[l]), 1, n[l])
                  /\ n[l] = Len(Items(lists[l])) => after[l] = lists[l]
                  /\ lists[l] # Null => after[l] # Null
<1> DEFINE ops(i) == RemoveOps(ListNames[i], lists[ListNames[i]], names[ListNames[i]])
           Done(now, l) == /\ Items(now[l]) = SubSeq(Items(lists[l]), 1, n[l])
                           /\ n[l] = Len(Items(lists[l])) => now[l] = lists[l]
                           /\ lists[l] # Null => now[l] # Null
<1>1. ASSUME NEW now \in PodLists, NEW i \in 1..4,
             now[ListNames[i]] = lists[ListNames[i]]
      PROVE  LET after == ApplyPatch(now, ops(i))
             IN  /\ ops(i) \in Seq(PatchOp) /\ after \in PodLists
                 /\ Done(after, ListNames[i])
                 /\ \A k \in Lists \ {ListNames[i]} : after[k] = now[k]
  <2> DEFINE l == ListNames[i]
  <2>1. l \in Lists
    BY ListsNamed
  <2> HIDE DEF l
  <2>2. n[l] \in 0..Len(Items(now[l])) /\ Hits(now[l], names[l]) = (n[l] + 1)..Len(Items(now[l]))
    BY <1>1, <2>1 DEF l
  <2>3. LET after == ApplyPatch(now, RemoveOps(l, now[l], names[l]))
        IN  /\ RemoveOps(l, now[l], names[l]) \in Seq(PatchOp)
            /\ after \in PodLists
            /\ \A k \in Lists \ {l} : after[k] = now[k]
            /\ Items(after[l]) = SubSeq(Items(now[l]), 1, n[l])
            /\ n[l] = Len(Items(now[l])) => after[l] = now[l]
            /\ now[l] # Null => after[l] # Null
    BY <2>1, <2>2, Removed
  <2>4. RemoveOps(l, now[l], names[l]) = ops(i) /\ now[l] = lists[l]
    BY <1>1 DEF l
  <2> HIDE DEF ops
  <2>5. QED
    BY <2>3, <2>4 DEF l
<1> DEFINE L1 == ApplyPatch(lists, ops(1))
           L2 == ApplyPatch(L1, ops(2))
           L3 == ApplyPatch(L2, ops(3))
           L4 == ApplyPatch(L3, ops(4))
<1> HIDE DEF ops
<1>2. /\ ops(1) \in Seq(PatchOp) /\ L1 \in PodLists /\ Done(L1, ListNames[1])
      /\ \A k \in Lists \ {ListNames[1]} : L1[k] = lists[k]
  BY <1>1
<1>3. /\ ops(2) \in Seq(PatchOp) /\ L2 \in PodLists /\ Done(L2, ListNames[2])
      /\ \A k \in Lists \ {ListNames[2]} : L2[k] = L1[k]
  <2>1. L1[ListNames[2]] = lists[ListNames[2]]
    BY <1>2, ListsNamed
  <2> HIDE DEF L1, Done
  <2>2. QED
    BY <1>1, <1>2, <2>1
<1>4. /\ ops(3) \in Seq(PatchOp) /\ L3 \in PodLists /\ Done(L3, ListNames[3])
      /\ \A k \in Lists \ {ListNames[3]} : L3[k] = L2[k]
  <2> HIDE DEF L1, L2, Done
  <2>1. L2[ListNames[3]] = lists[ListNames[3]]
    BY <1>2, <1>3, ListsNamed
  <2>2. QED
    BY <1>1, <1>3, <2>1
<1>5. /\ ops(4) \in Seq(PatchOp) /\ L4 \in PodLists /\ Done(L4, ListNames[4])
      /\ \A k \in Lists \ {ListNames[4]} : L4[k] = L3[k]
  <2> HIDE DEF L1, L2, L3, Done
  <2>1. L3[ListNames[4]] = lists[ListNames[4]]
    BY <1>2, <1>3, <1>4, ListsNamed
  <2>2. QED
    BY <1>1, <1>4, <2>1
<1>6. ApplyPatch(lists, ops(1) \o ops(2) \o ops(3) \o ops(4)) = L4
  <2> DEFINE two == ops(1) \o ops(2)
             three == two \o ops(3)
  <2>1. two \in Seq(PatchOp) /\ ApplyPatch(lists, two) = L2
    BY <1>2, <1>3, PatchesFollow
  <2> HIDE DEF two, L2
  <2>2. three \in Seq(PatchOp) /\ ApplyPatch(lists, three) = L3
    BY <1>4, <2>1, PatchesFollow
  <2> HIDE DEF three, L3
  <2>3. ApplyPatch(lists, three \o ops(4)) = L4
    BY <1>5, <2>2, PatchesFollow
  <2>4. QED
    BY <2>3 DEF two, three
<1> HIDE DEF L1, L2, L3, L4
<1>7. \A l \in Lists : Done(L4, l)
  <2>1. \A l \in Lists : l \in {ListNames[1], ListNames[2], ListNames[3], ListNames[4]}
    BY ListsNamed
  <2>2. Done(L4, ListNames[1])
    <3>1. L4[ListNames[1]] = L1[ListNames[1]]
      <4> HIDE DEF Done
      <4>1. QED
        BY <1>3, <1>4, <1>5, ListsNamed
    <3>2. QED
      BY <1>2, <3>1
  <2>3. Done(L4, ListNames[2])
    <3>1. L4[ListNames[2]] = L2[ListNames[2]]
      <4> HIDE DEF Done
      <4>1. QED
        BY <1>4, <1>5, ListsNamed
    <3>2. QED
      BY <1>3, <3>1
  <2>4. Done(L4, ListNames[3])
    <3>1. L4[ListNames[3]] = L3[ListNames[3]]
      <4> HIDE DEF Done
      <4>1. QED
        BY <1>5, ListsNamed
    <3>2. QED
      BY <1>4, <3>1
  <2> HIDE DEF Done
  <2>5. QED
    BY <1>5, <2>1, <2>2, <2>3, <2>4
<1>8. \A i \in 1..4 : ops(i) \in Seq(PatchOp)
  <2>1. \A i \in 1..4 : i = 1 \/ i = 2 \/ i = 3 \/ i = 4
    OBVIOUS
  <2>2. QED
    BY <1>2, <1>3, <1>4, <1>5, <2>1
<1>9. QED
  BY <1>5, <1>6, <1>7, <1>8 DEF ops, Done

(* What applying the whole patch leaves of each list: what stands before the   *)
(* items to be removed, with the agent mounted if it is to be, and what is     *)
(* injected.  Only mounting the agent may fail.                                *)
LEMMA PatchMade ==
  ASSUME NEW lists \in PodLists, NEW mode, NEW prev, NEW n,
         NEW sic \in [Lists -> Seq(STRING)],
         \A l \in Lists :
           /\ n[l] \in 0..Len(Items(lists[l]))
           /\ Hits(lists[l], Range(prev[l])) = (n[l] + 1)..Len(Items(lists[l])),
         mode = "javaAgent" => sic["containers"] = << >>
  PROVE  LET after == ApplyPatch(lists, createPatch(mode, lists, prev, sic))
             whole == n["containers"] = Len(Items(lists["containers"]))
             Kept(l) == IF mode = "javaAgent" /\ l = "containers"
                        THEN Mounted(Items(lists[l])) ELSE SubSeq(Items(lists[l]), 1, n[l])
         IN  /\ mode # "javaAgent" \/ whole =>
                  /\ after \in PodLists
                  /\ \A l \in Lists : Items(after[l]) = Kept(l) \o NewItems(sic[l])
             /\ mode = "javaAgent" /\ ~whole => after = Null
<1> DEFINE after == ApplyPatch(lists, createPatch(mode, lists, prev, sic))
           whole == n["containers"] = Len(Items(lists["containers"]))
           names == [l \in Lists |-> Range(prev[l])]
           rem(i) == RemoveOps(ListNames[i], lists[ListNames[i]], names[ListNames[i]])
           add(i) == AddOps(ListNames[i], lists[ListNames[i]], sic[ListNames[i]])
           upd == IF mode = "javaAgent" THEN UpdateOps(lists["containers"]) ELSE << >>
           part1 == rem(1) \o rem(2) \o rem(3) \o rem(4)
           L1 == ApplyPatch(lists, part1)
           L2 == ApplyPatch(L1, add(1))
           L3 == ApplyPatch(L2, add(2))
           L4 == ApplyPatch(L3, upd)
           L5 == ApplyPatch(L4, add(3))
           L6 == ApplyPatch(L5, add(4))
<1>1. createPatch(mode, lists, prev, sic)
        = part1 \o add(1) \o add(2) \o upd \o add(3) \o add(4)
  <2> DEFINE R == [i \in 1..4 |-> RemoveOps(ListNames[i], lists[ListNames[i]],
                                            Range(prev[ListNames[i]]))]
             A == [i \in 1..4 |-> AddOps(ListNames[i], lists[ListNames[i]], sic[ListNames[i]])]
             U == IF mode = "javaAgent" THEN UpdateOps(lists.containers) ELSE << >>
  <2>1. createPatch(mode, lists, prev, sic)
          = R[1] \o R[2] \o R[3] \o R[4] \o A[1] \o A[2] \o U \o A[3] \o A[4]
    BY DEF createPatch
  <2>2. \A i \in 1..4 : names[ListNames[i]] = Range(prev[ListNames[i]])
    BY ListsNamed
  <2>3. \A i \in 1..4 : R[i] = rem(i) /\ A[i] = add(i)
    <3> HIDE DEF names
    <3>1. QED
      BY <2>2
  <2>4. 1 \in 1..4 /\ 2 \in 1..4 /\ 3 \in 1..4 /\ 4 \in 1..4
    OBVIOUS
  <2>5. U = upd
    OBVIOUS
  <2> HIDE DEF R, A, U, rem, add, upd
  <2>6. QED
    BY <2>1, <2>3, <2>4, <2>5
<1>2. /\ \A i \in 1..4 : rem(i) \in Seq(PatchOp)
      /\ L1 \in PodLists
      /\ \A l \in Lists :
           /\ Items(L1[l]) = SubSeq(Items(lists[l]), 1, n[l])
           /\ n[l] = Len(Items(lists[l])) => L1[l] = lists[l]
           /\ lists[l] # Null => L1[l] # Null
  <2>1. \A l \in Lists :
          /\ n[l] \in 0..Len(Items(lists[l]))
          /\ Hits(lists[l], names[l]) = (n[l] + 1)..Len(Items(lists[l]))
    OBVIOUS
  <2> HIDE DEF names
  <2>2. QED
    BY <2>1, AllRemoved
<1>3. part1 \in Seq(PatchOp)
  <2>1. rem(1) \in Seq(PatchOp) /\ rem(2) \in Seq(PatchOp) /\ rem(3) \in Seq(PatchOp)
        /\ rem(4) \in Seq(PatchOp)
    BY <1>2
  <2> HIDE DEF rem
  <2>2. QED
    BY <2>1
<1>4. \A l \in Lists : lists[l] \in PodList /\ sic[l] \in Seq(STRING)
                       /\ Items(lists[l]) \in Seq(PodItem)
                       /\ (Items(lists[l]) # << >> => lists[l] # Null)
                       /\ (Items(lists[l]) = << >> => SubSeq(Items(lists[l]), 1, n[l]) = << >>)
  <2> SUFFICES ASSUME NEW l \in Lists
               PROVE  /\ lists[l] \in PodList /\ sic[l] \in Seq(STRING)
                      /\ Items(lists[l]) \in Seq(PodItem)
                      /\ (Items(lists[l]) # << >> => lists[l] # Null)
                      /\ (Items(lists[l]) = << >> => SubSeq(Items(lists[l]), 1, n[l]) = << >>)
    OBVIOUS
  <2>1. lists[l] \in PodList /\ sic[l] \in Seq(STRING)
    BY DEF PodLists
  <2>2. Items(lists[l]) \in Seq(PodItem)
    BY <2>1, ItemsTyped
  <2>3. Items(lists[l]) # << >> => lists[l] # Null
    BY DEF Items
  <2>4. ASSUME Items(lists[l]) = << >>
        PROVE  SubSeq(Items(lists[l]), 1, n[l]) = << >>
    <3>1. n[l] = 0
      BY <2>4
    <3>2. QED
      BY <2>4, <3>1
  <2>5. QED
    BY <2>1, <2>2, <2>3, <2>4
<1> DEFINE Ready(now, l) == IF Items(lists[l]) = << >> THEN Items(now[l]) = << >>
                            ELSE now[l] # Null
<1>5. \A l \in Lists : Ready(L1, l)
  <2> HIDE DEF L1
  <2>1. QED
    BY <1>2, <1>4
<1>6. ASSUME NEW now \in PodLists, NEW i \in 1..4, Ready(now, ListNames[i])
      PROVE  LET next == ApplyPatch(now, add(i))
             IN  /\ add(i) \in Seq(PatchOp) /\ next \in PodLists
                 /\ \A k \in Lists \ {ListNames[i]} : next[k] = now[k]
                 /\ Items(next[ListNames[i]])
                      = Items(now[ListNames[i]]) \o NewItems(sic[ListNames[i]])
                 /\ sic[ListNames[i]] = << >> => next[ListNames[i]] = now[ListNames[i]]
  <2> DEFINE l == ListNames[i]
  <2>1. l \in Lists
    BY ListsNamed
  <2> HIDE DEF l
  <2>2. lists[l] \in PodList /\ sic[l] \in Seq(STRING)
    BY <1>4, <2>1
  <2>3. IF Items(lists[l]) = << >> THEN Items(now[l]) = << >> ELSE now[l] # Null
    BY <1>6 DEF l
  <2>4. LET ops == AddOps(l, lists[l], sic[l])
            next == ApplyPatch(now, ops)
        IN  /\ ops \in Seq(PatchOp)
            /\ next \in PodLists
            /\ \A k \in Lists \ {l} : next[k] = now[k]
            /\ Items(next[l]) = Items(now[l]) \o NewItems(sic[l])
            /\ sic[l] = << >> => next[l] = now[l]
    BY <2>1, <2>2, <2>3, Added
  <2>5. QED
    BY <2>4 DEF l
<1>7. \A i \in 1..4 : add(i) \in Seq(PatchOp)
  <2> SUFFICES ASSUME NEW i \in 1..4 PROVE add(i) \in Seq(PatchOp)
    OBVIOUS
  <2>1. ListNames[i] \in Lists
    BY ListsNamed
  <2> HIDE DEF add, Ready, L1
  <2>2. QED
    BY <1>2, <1>5, <1>6, <2>1
<1>8. upd \in Seq(PatchOp) /\ (mode # "javaAgent" => upd = << >>)
  <2>1. "containers" \in Lists
    BY ListsNamed
  <2>2. UpdateOps(lists["containers"]) \in Seq(PatchOp)
    BY <1>4, <2>1, Updated
  <2>3. << >> \in Seq(PatchOp)
    OBVIOUS
  <2>4. QED
    BY <2>2, <2>3
<1>9. after = L6
  <2> DEFINE two == part1 \o add(1)
             three == two \o add(2)
             four == three \o upd
             five == four \o add(3)
  <2>1. add(1) \in Seq(PatchOp) /\ add(2) \in Seq(PatchOp) /\ add(3) \in Seq(PatchOp)
        /\ add(4) \in Seq(PatchOp)
    BY <1>7
  <2>2. createPatch(mode, lists, prev, sic) = five \o add(4)
    BY <1>1
  <2> HIDE DEF add, rem, upd, part1
  <2>3. two \in Seq(PatchOp) /\ ApplyPatch(lists, two) = L2
    BY <1>3, <2>1, PatchesFollow
  <2> HIDE DEF two, L2
  <2>4. three \in Seq(PatchOp) /\ ApplyPatch(lists, three) = L3
    BY <2>1, <2>3, PatchesFollow
  <2> HIDE DEF three, L3
  <2>5. four \in Seq(PatchOp) /\ ApplyPatch(lists, four) = L4
    BY <1>8, <2>4, PatchesFollow
  <2> HIDE DEF four, L4
  <2>6. five \in Seq(PatchOp) /\ ApplyPatch(lists, five) = L5
    BY <2>1, <2>5, PatchesFollow
  <2> HIDE DEF five, L5
  <2>7. ApplyPatch(lists, five \o add(4)) = L6
    BY <2>1, <2>6, PatchesFollow
  <2> HIDE DEF L6
  <2>8. QED
    BY <2>2, <2>7
<1> HIDE DEF add, rem, part1, upd
<1>10. /\ L2 \in PodLists
       /\ \A k \in Lists \ {ListNames[1]} : L2[k] = L1[k]
       /\ Items(L2[ListNames[1]]) = Items(L1[ListNames[1]]) \o NewItems(sic[ListNames[1]])
  <2> HIDE DEF L1
  <2>1. ListNames[1] \in Lists
    BY ListsNamed
  <2>2. Ready(L1, ListNames[1])
    BY <1>5, <2>1
  <2> HIDE DEF Ready
  <2>3. QED
    BY <1>2, <1>6, <2>2
<1> HIDE DEF L1
<1>11. /\ L3 \in PodLists
       /\ \A k \in Lists \ {ListNames[2]} : L3[k] = L2[k]
       /\ Items(L3[ListNames[2]]) = Items(L2[ListNames[2]]) \o NewItems(sic[ListNames[2]])
       /\ sic[ListNames[2]] = << >> => L3[ListNames[2]] = L2[ListNames[2]]
  <2> HIDE DEF L2
  <2>1. ListNames[2] \in Lists \ {ListNames[1]}
    BY ListsNamed
  <2>2. Ready(L2, ListNames[2])
    BY <1>5, <1>10, <2>1
  <2> HIDE DEF Ready
  <2>3. QED
    BY <1>6, <1>10, <2>2
<1> HIDE DEF L2
<1>12. L3["containers"] = L1["containers"] \/ mode # "javaAgent"
  <2> HIDE DEF L3
  <2>1. QED
    BY <1>10, <1>11, ListsNamed
<1>13. CASE mode = "javaAgent" /\ ~whole
  <2>1. Len(Items(L3["containers"])) < Len(Items(lists["containers"]))
    <3>1. "containers" \in Lists
      BY ListsNamed
    <3>2. Items(L3["containers"]) = SubSeq(Items(lists["containers"]), 1, n["containers"])
      BY <1>2, <1>12, <1>13, <3>1
    <3> DEFINE items == Items(lists["containers"])
               c == n["containers"]
    <3>3. items \in Seq(PodItem) /\ c \in 0..Len(items) /\ c # Len(items)
      BY <1>4, <1>13, <3>1
    <3> HIDE DEF items, c
    <3>4. Len(SubSeq(items, 1, c)) = c /\ c < Len(items)
      BY <3>3
    <3>5. QED
      BY <3>2, <3>4 DEF items, c
  <2> HIDE DEF L3
  <2>2. L3["containers"] # lists["containers"]
    <3>1. Len(Items(lists["containers"])) \in Nat
      BY <1>4, ListsNamed, LenProperties
    <3>2. QED
      BY <2>1, <3>1
  <2>3. L4 = Null
    <3>1. upd = UpdateOps(lists["containers"])
      BY <1>13 DEF upd
    <3>2. lists["containers"] \in PodList
      BY <1>4, ListsNamed
    <3>3. QED
      BY <1>11, <2>1, <2>2, <3>1, <3>2, Updated
  <2> HIDE DEF L4
  <2>4. L5 = Null
    BY <1>7, <2>3, NothingAfterFailure, LenProperties
  <2> HIDE DEF L5
  <2>5. L6 = Null
    BY <1>7, <2>4, NothingAfterFailure, LenProperties
  <2>6. QED
    BY <1>9, <1>13, <2>5
<1>14. CASE mode # "javaAgent" \/ whole
  <2> DEFINE c == "containers"
  <2>1. /\ L4 \in PodLists
        /\ \A k \in Lists \ {c} : L4[k] = L3[k]
        /\ Items(L4[c]) = IF mode = "javaAgent" THEN Mounted(Items(lists[c])) ELSE Items(L3[c])
    <3> HIDE DEF L3
    <3>1. CASE mode # "javaAgent"
      <4>1. upd = << >> /\ Len(upd) = 0
        BY <1>8, <3>1
      <4> DEFINE G == [k \in {0} |-> L3]
      <4>2. G[0] = L3 /\ \A k \in 1..Len(upd) : G[k] = ApplyOp(G[k - 1], upd[k])
        BY <4>1
      <4> HIDE DEF G
      <4>3. L4 = G[Len(upd)]
        BY <4>1, <4>2, PatchApplied
      <4>4. L4 = L3
        BY <4>1, <4>2, <4>3
      <4>5. QED
        BY <1>11, <3>1, <4>4
    <3>2. CASE mode = "javaAgent"
      <4>1. upd = UpdateOps(lists[c])
        BY <3>2 DEF upd
      <4>2. lists[c] \in PodList /\ L3[c] = lists[c]
        BY <1>2, <1>4, <1>12, <1>14, <3>2, ListsNamed
      <4>3. QED
        BY <1>11, <3>2, <4>1, <4>2, Updated
    <3>3. QED
      BY <3>1, <3>2
  <2> HIDE DEF L3, L4
  <2>2. /\ L5 \in PodLists
        /\ \A k \in Lists \ {ListNames[3]} : L5[k] = L4[k]
        /\ Items(L5[ListNames[3]]) = Items(L4[ListNames[3]]) \o NewItems(sic[ListNames[3]])
    <3>1. L4[ListNames[3]] = L1[ListNames[3]] /\ ListNames[3] \in Lists
      BY <1>10, <1>11, <2>1, ListsNamed
    <3>2. Ready(L4, ListNames[3])
      BY <1>5, <3>1
    <3> HIDE DEF Ready
    <3>3. QED
      BY <1>6, <2>1, <3>2
  <2> HIDE DEF L5
  <2>3. /\ L6 \in PodLists
        /\ \A k \in Lists \ {ListNames[4]} : L6[k] = L5[k]
        /\ Items(L6[ListNames[4]]) = Items(L5[ListNames[4]]) \o NewItems(sic[ListNames[4]])
    <3>1. L5[ListNames[4]] = L1[ListNames[4]] /\ ListNames[4] \in Lists
      BY <1>10, <1>11, <2>1, <2>2, ListsNamed
    <3>2. Ready(L5, ListNames[4])
      BY <1>5, <3>1
    <3> HIDE DEF Ready
    <3>3. QED
      BY <1>6, <2>2, <3>2
  <2> HIDE DEF L6
  <2> DEFINE Kept(l) == IF mode = "javaAgent" /\ l = "containers"
                        THEN Mounted(Items(lists[l])) ELSE SubSeq(Items(lists[l]), 1, n[l])
             Right(l) == Items(L6[l]) = Kept(l) \o NewItems(sic[l])
  <2>4. Right("initContainers")
    <3> DEFINE l == "initContainers"
    <3>1. L6[l] = L2[l]
      BY <1>11, <2>1, <2>2, <2>3, ListsNamed
    <3>2. Items(L6[l]) = Items(L1[l]) \o NewItems(sic[l])
      BY <1>10, <3>1, ListsNamed
    <3>3. QED
      BY <1>2, <3>2, ListsNamed
  <2>5. Right("containers")
    <3>1. L6[c] = L4[c]
      BY <2>2, <2>3, ListsNamed
    <3>2. CASE mode = "javaAgent"
      <4>1. Items(L6[c]) = Mounted(Items(lists[c]))
        BY <2>1, <3>1, <3>2
      <4>2. NewItems(sic[c]) = << >>
        <5>1. Len(sic[c]) = 0
          BY <3>2
        <5>2. QED
          BY <5>1 DEF NewItems
      <4>3. Items(L6[c]) \in Seq(PodItem)
        BY <2>3, ItemsTyped, ListsNamed DEF PodLists
      <4>4. Mounted(Items(lists[c])) \o << >> = Mounted(Items(lists[c]))
        BY <4>1, <4>3, ConcatEmptySeq
      <4>5. QED
        BY <3>2, <4>1, <4>2, <4>4
    <3>3. CASE mode # "javaAgent"
      <4>1. Items(L6[c]) = Items(L3[c])
        BY <2>1, <3>1, <3>3
      <4>2. Items(L3[c]) = Items(L2[c]) \o NewItems(sic[c])
        BY <1>11, ListsNamed
      <4>3. L2[c] = L1[c]
        BY <1>10, ListsNamed
      <4>4. Items(L1[c]) = SubSeq(Items(lists[c]), 1, n[c])
        BY <1>2, ListsNamed
      <4>5. QED
        BY <3>3, <4>1, <4>2, <4>3, <4>4
    <3>4. QED
      BY <3>2, <3>3
  <2>6. Right("volumes")
    <3> DEFINE l == "volumes"
    <3>1. L6[l] = L5[l] /\ L4[l] = L1[l]
      BY <1>10, <1>11, <2>1, <2>3, ListsNamed
    <3>2. Items(L6[l]) = Items(L1[l]) \o NewItems(sic[l])
      BY <2>2, <3>1, ListsNamed
    <3>3. QED
      BY <1>2, <3>2, ListsNamed
  <2>7. Right("imagePullSecrets")
    <3> DEFINE l == "imagePullSecrets"
    <3>1. L5[l] = L1[l]
      BY <1>10, <1>11, <2>1, <2>2, ListsNamed
    <3>2. Items(L6[l]) = Items(L1[l]) \o NewItems(sic[l])
      BY <2>3, <3>1, ListsNamed
    <3>3. QED
      BY <1>2, <3>2, ListsNamed
  <2>8. \A l \in Lists : Right(l)
    <3> HIDE DEF Right
    <3>1. QED
      BY <2>4, <2>5, <2>6, <2>7, ListsNamed
  <2> HIDE DEF after
  <2>9. QED
    BY <1>9, <1>14, <2>3, <2>8 DEF after
<1>15. QED
  BY <1>13, <1>14

-----------------------------------------------------------------------------
(* What is known of a pod: the items of its user, in their order, and after     *)
(* them what was injected last; its status names the latter; and the agent is   *)
(* nowhere if no request for it was ever served, and everywhere if it was last. *)
Versions == [mode : Modes, version : 1..MaxVersions["inject"]]
LastAdded(injected, l) ==
  IF injected = Null THEN << >> ELSE Injects(injected.mode, injected.version)[l]
Held(lists, status, mine, injected, agent) ==
  /\ \E m \in UserPods : mine = m.lists
  /\ lists \in PodLists /\ agent \in Nat
  /\ \A l \in Lists : Names(lists[l]) = Names(mine[l]) \o LastAdded(injected, l)
  /\ injected = Null => lists = mine /\ status = Null
  /\ injected # Null =>
       injected \in Versions /\ status = Injects(injected.mode, injected.version)
  /\ agent = 0 =>
       \A i \in 1..Len(Items(lists["containers"])) : Items(lists["containers"])[i].agents = 0
  /\ injected # Null /\ injected.mode = "javaAgent" =>
       \A i \in 1..Len(Items(lists["containers"])) : Items(lists["containers"])[i].agents >= 1

LEMMA VersionsInject ==
  ASSUME NEW v \in Versions
  PROVE  /\ v # Null
         /\ Injects(v.mode, v.version) \in [Lists -> Seq(STRING)]
         /\ Injects(v.mode, v.version) # Null
         /\ \A l \in Lists : /\ Range(Injects(v.mode, v.version)[l]) \subseteq InjectorNames(l)
                             /\ IsInjective(Injects(v.mode, v.version)[l])
         /\ v.mode = "javaAgent" <=> AgentDir \in Range(Injects(v.mode, v.version)["volumes"])
         /\ v.mode = "javaAgent" => Injects(v.mode, v.version)["containers"] = << >>
<1>1. /\ v.mode \in Modes /\ v.version \in 1..MaxVersions["inject"]
      /\ v \in [mode : Modes, version : Nat]
  BY DEF Versions
<1>2. QED
  BY <1>1, TemplatesAssumption, NullAssumption DEF InjectorNames

LEMMA UserLists ==
  ASSUME NEW m \in UserPods
  PROVE  /\ m.lists \in PodLists /\ ValidPod(m.lists)
         /\ \A i \in 1..Len(Items(m.lists["containers"])) :
              Items(m.lists["containers"])[i].agents = 0
         /\ \A l \in Lists : Range(Names(m.lists[l])) \cap InjectorNames(l) = {}
<1> DEFINE Mine == [name : STRING, agents : {0}]
<1>1. m.lists \in [Lists -> {Null} \cup Seq(Mine)]
  BY UserPodsAssumption
<1>2. Seq(Mine) \subseteq Seq(PodItem)
  <2>1. Mine \subseteq PodItem
    BY DEF PodItem
  <2> HIDE DEF Mine
  <2>2. QED
    BY <2>1
<1>3. m.lists \in PodLists
  <2> HIDE DEF Mine
  <2>1. QED
    BY <1>1, <1>2 DEF PodLists, PodList
<1>4. ASSUME NEW i \in 1..Len(Items(m.lists["containers"]))
      PROVE  Items(m.lists["containers"])[i].agents = 0
  <2> DEFINE s == Items(m.lists["containers"])
  <2>1. s \in Seq(Mine)
    <3>1. m.lists["containers"] \in {Null} \cup Seq(Mine)
      BY <1>1, ListsNamed
    <3> HIDE DEF Mine
    <3>2. QED
      BY <3>1 DEF Items
  <2>2. s[i] \in Mine
    <3> HIDE DEF Mine, s
    <3>1. i \in 1..Len(s)
      BY DEF s
    <3>2. QED
      BY <2>1, <3>1, SeqElements
  <2>3. QED
    BY <2>2
<1>5. QED
  BY <1>3, <1>4, UserPodsAssumption

LEMMA NamesTyped ==
  ASSUME NEW list \in PodList
  PROVE  /\ Names(list) \in Seq(STRING) /\ Len(Names(list)) = Len(Items(list))
         /\ \A i \in 1..Len(Items(list)) : Names(list)[i] = Items(list)[i].name
<1> DEFINE n == Len(Items(list))
<1>1. n \in Nat /\ DOMAIN Items(list) = 1..n /\ \A i \in 1..n : Items(list)[i].name \in STRING
  BY ItemsTyped DEF PodItem
<1>2. Names(list) = [i \in 1..n |-> Items(list)[i].name]
  BY <1>1 DEF Names
<1> HIDE DEF n
<1>3. QED
  BY <1>1, <1>2 DEF n

(* What createPatch removes is what was injected: all that stands after the    *)
(* items of the pod's user.                                                    *)
LEMMA InjectedIsRemoved ==
  ASSUME NEW m, NEW mine, NEW injected, NEW agent,
         Held(m.lists, m.status, mine, injected, agent), NEW l \in Lists
  PROVE  LET n == Len(Items(mine[l]))
             k == Len(Items(m.lists[l]))
         IN  n \in 0..k /\ Hits(m.lists[l], Range(injectionStatus(m)[l])) = (n + 1)..k
<1> DEFINE list == m.lists[l]
           n == Len(Items(mine[l]))
           k == Len(Items(list))
           added == LastAdded(injected, l)
           removed == Range(injectionStatus(m)[l])
<1>1. PICK u \in UserPods : mine = u.lists
  BY DEF Held
<1>2. mine[l] \in PodList /\ list \in PodList
  BY <1>1, UserLists DEF Held, PodLists
<1>3. added \in Seq(STRING)
  <2>1. CASE injected = Null
    BY <2>1 DEF LastAdded
  <2>2. CASE injected # Null
    <3>1. injected \in Versions /\ added = Injects(injected.mode, injected.version)[l]
      BY <2>2 DEF LastAdded, Held
    <3>2. Injects(injected.mode, injected.version) \in [Lists -> Seq(STRING)]
      BY <3>1, VersionsInject
    <3> HIDE DEF added
    <3>3. QED
      BY <3>1, <3>2
  <2>3. QED
    BY <2>1, <2>2
<1>4. Names(list) = Names(mine[l]) \o added
  BY DEF Held
<1>5. Range(added) \subseteq removed /\ removed \subseteq InjectorNames(l)
  <2>1. CASE injected = Null
    <3>1. injectionStatus(m) = LegacyStatus /\ added = << >>
      BY <2>1 DEF Held, injectionStatus, LastAdded
    <3>2. Range(added) = {}
      BY <3>1 DEF Range
    <3>3. QED
      BY <3>1, <3>2 DEF InjectorNames
  <2>2. CASE injected # Null
    <3>1. /\ injected \in Versions /\ m.status = Injects(injected.mode, injected.version)
          /\ added = m.status[l] /\ m.status # Null
      BY <2>2, VersionsInject DEF Held, LastAdded
    <3>2. CASE injectionStatus(m) = m.status
      BY <3>1, <3>2, VersionsInject
    <3>3. CASE injectionStatus(m) # m.status
      <4>1. injectionStatus(m) = LegacyStatus /\ m.status[l] = << >>
        BY <3>1, <3>3 DEF injectionStatus
      <4>2. Range(added) = {}
        BY <3>1, <4>1 DEF Range
      <4>3. QED
        BY <4>1, <4>2 DEF InjectorNames
    <3>4. QED
      BY <3>2, <3>3
  <2>3. QED
    BY <2>1, <2>2
<1>6. Range(Names(mine[l])) \cap InjectorNames(l) = {}
  BY <1>1, UserLists
<1> DEFINE old == Names(mine[l])
<1>7. /\ old \in Seq(STRING) /\ Len(old) = n /\ n \in Nat
      /\ k \in Nat /\ Len(Names(list)) = k
      /\ DOMAIN Items(list) = 1..k
      /\ \A i \in 1..k : Items(list)[i].name = Names(list)[i]
  BY <1>2, NamesTyped, ItemsTyped
<1> HIDE DEF old, added, removed, list, n, k
<1>8. /\ k = n + Len(added) /\ Len(added) \in Nat
      /\ \A i \in 1..k : Names(list)[i] = IF i <= n THEN old[i] ELSE added[i - n]
  <2>1. Names(list) = old \o added /\ Len(added) \in Nat
    BY <1>3, <1>4, LenProperties DEF old
  <2>2. /\ Len(old \o added) = Len(old) + Len(added)
        /\ \A i \in 1..(Len(old) + Len(added)) :
             (old \o added)[i] = IF i <= Len(old) THEN old[i] ELSE added[i - Len(old)]
    BY <1>3, <1>7, ConcatProperties
  <2>3. QED
    BY <1>7, <2>1, <2>2
<1>9. ASSUME NEW i \in 1..k
      PROVE  Items(list)[i].name \in removed <=> i > n
  <2>1. CASE i <= n
    <3>1. i \in DOMAIN old /\ Names(list)[i] = old[i]
      BY <1>7, <1>8, <2>1, LenProperties
    <3>2. old[i] \in Range(old)
      BY <3>1 DEF Range
    <3>3. QED
      BY <1>5, <1>6, <1>7, <2>1, <3>1, <3>2 DEF old
  <2>2. CASE i > n
    <3>1. i - n \in DOMAIN added /\ Names(list)[i] = added[i - n]
      BY <1>3, <1>7, <1>8, <2>2, LenProperties
    <3>2. added[i - n] \in Range(added)
      BY <3>1 DEF Range
    <3>3. QED
      BY <1>5, <1>7, <2>2, <3>1, <3>2
  <2>3. QED
    BY <1>7, <2>1, <2>2
<1>10. Hits(list, removed) = {i \in 1..k : i > n}
  BY <1>7, <1>9 DEF Hits
<1>11. n \in 0..k /\ {i \in 1..k : i > n} = (n + 1)..k
  BY <1>7, <1>8
<1>12. QED
  BY <1>10, <1>11 DEF list, removed, n, k

LEMMA ItemFields == \A x : Item(x).name = x /\ Item(x).agents = 0
BY DEF Item

LEMMA NamesOfConcat ==
  ASSUME NEW list \in PodList, NEW kept \in Seq(PodItem), NEW names \in Seq(STRING),
         Items(list) = kept \o NewItems(names), NEW mine \in Seq(STRING),
         Len(mine) = Len(kept), \A i \in 1..Len(kept) : kept[i].name = mine[i]
  PROVE  /\ Names(list) = mine \o names
         /\ \A i \in 1..Len(Items(list)) :
              \/ i \in 1..Len(kept) /\ Items(list)[i] = kept[i]
              \/ Items(list)[i].agents = 0
<1> DEFINE items == Items(list)
           n == Len(kept)
           m == Len(names)
           new == NewItems(names)
<1>1. /\ n \in Nat /\ m \in Nat /\ new \in Seq(PodItem) /\ Len(new) = m
      /\ \A i \in 1..m : new[i] = Item(names[i])
  <2>1. m \in Nat /\ m \in 0..m /\ n \in Nat
    BY NewItemsTyped, LenProperties
  <2>2. QED
    BY <2>1, NewItemsTyped DEF NewItems
<1> HIDE DEF new
<1>2. /\ Len(items) = n + m
      /\ \A i \in 1..(n + m) : items[i] = IF i <= n THEN kept[i] ELSE new[i - n]
  <2>1. /\ Len(kept \o new) = Len(kept) + Len(new)
        /\ \A i \in 1..(Len(kept) + Len(new)) :
             (kept \o new)[i] = IF i <= Len(kept) THEN kept[i] ELSE new[i - Len(kept)]
    BY <1>1, ConcatProperties
  <2>2. items = kept \o new
    BY DEF new
  <2> HIDE DEF items
  <2>3. QED
    BY <1>1, <2>1, <2>2
<1>3. /\ mine \o names \in Seq(STRING) /\ Len(mine \o names) = n + m
      /\ \A i \in 1..(n + m) : (mine \o names)[i] = IF i <= n THEN mine[i] ELSE names[i - n]
  <2>1. /\ Len(mine \o names) = Len(mine) + Len(names)
        /\ \A i \in 1..(Len(mine) + Len(names)) :
             (mine \o names)[i] = IF i <= Len(mine) THEN mine[i] ELSE names[i - Len(mine)]
    BY ConcatProperties
  <2>2. QED
    BY <2>1
<1>4. /\ Names(list) \in Seq(STRING) /\ Len(Names(list)) = n + m
      /\ \A i \in 1..(n + m) : Names(list)[i] = items[i].name
  <2>1. /\ Names(list) \in Seq(STRING) /\ Len(Names(list)) = Len(items)
        /\ \A i \in 1..Len(items) : Names(list)[i] = items[i].name
    BY NamesTyped
  <2>2. QED
    BY <1>2, <2>1
<1> HIDE DEF items, n, m
<1>5. ASSUME NEW i \in 1..(n + m), i > n
      PROVE  i - n \in 1..m /\ items[i] = Item(names[i - n])
  <2>1. i - n \in 1..m
    BY <1>1, <1>5
  <2>2. QED
    BY <1>1, <1>2, <1>5, <2>1
<1>6. ASSUME NEW i \in 1..(n + m)
      PROVE  Names(list)[i] = (mine \o names)[i]
  <2>1. CASE i <= n
    <3>1. i \in 1..n
      BY <1>1, <2>1
    <3>2. QED
      BY <1>2, <1>3, <1>4, <2>1, <3>1 DEF n
  <2>2. CASE i > n
    <3>1. items[i] = Item(names[i - n])
      BY <1>5, <2>2
    <3>2. ~(i <= n)
      BY <1>1, <2>2
    <3>3. Names(list)[i] = Item(names[i - n]).name /\ (mine \o names)[i] = names[i - n]
      BY <1>3, <1>4, <3>1, <3>2
    <3>4. QED
      BY <3>3, ItemFields
  <2>3. i <= n \/ i > n
    BY <1>1
  <2>4. QED
    BY <2>1, <2>2, <2>3
<1>7. Names(list) = mine \o names
  BY <1>3, <1>4, <1>6, SeqEqual
<1>8. ASSUME NEW i \in 1..(n + m)
      PROVE  \/ i \in 1..n /\ items[i] = kept[i]
             \/ items[i].agents = 0
  <2>1. CASE i <= n
    BY <1>1, <1>2, <2>1
  <2>2. CASE i > n
    BY <1>5, <2>2, ItemFields
  <2>3. QED
    BY <1>1, <2>1, <2>2
<1>9. QED
  BY <1>2, <1>7, <1>8 DEF items, n, m

(* A patch that can be applied keeps what is known of the pod; and one can be, *)
(* unless the agent is to be mounted where something was injected before.      *)
LEMMA PatchHolds ==
  ASSUME NEW m, NEW mine, NEW injected, NEW agent,
         Held(m.lists, m.status, mine, injected, agent), NEW v \in Versions
  PROVE  LET sic == Injects(v.mode, v.version)
             after == ApplyPatch(m.lists, createPatch(v.mode, m.lists, injectionStatus(m), sic))
         IN  /\ after # Null =>
                  Held(after, sic, mine, v, IF v.mode = "javaAgent" THEN agent + 1 ELSE agent)
             /\ v.mode # "javaAgent" \/ injected = Null => after # Null
<1> DEFINE lists == m.lists
           mode == v.mode
           sic == Injects(v.mode, v.version)
           prev == injectionStatus(m)
           n == [l \in Lists |-> Len(Items(mine[l]))]
           after == ApplyPatch(lists, createPatch(mode, lists, prev, sic))
           whole == n["containers"] = Len(Items(lists["containers"]))
           Kept(l) == IF mode = "javaAgent" /\ l = "containers"
                      THEN Mounted(Items(lists[l])) ELSE SubSeq(Items(lists[l]), 1, n[l])
           more == IF mode = "javaAgent" THEN agent + 1 ELSE agent
<1>1. PICK u \in UserPods : mine = u.lists
  BY DEF Held
<1>2. lists \in PodLists /\ sic \in [Lists -> Seq(STRING)] /\ "containers" \in Lists
      /\ agent \in Nat /\ (mode = "javaAgent" => sic["containers"] = << >>)
  BY VersionsInject, ListsNamed DEF Held
<1>3. \A l \in Lists :
        /\ n[l] \in 0..Len(Items(lists[l]))
        /\ Hits(lists[l], Range(prev[l])) = (n[l] + 1)..Len(Items(lists[l]))
  BY InjectedIsRemoved
<1>4. /\ mode # "javaAgent" \/ whole =>
           /\ after \in PodLists
           /\ \A l \in Lists : Items(after[l]) = Kept(l) \o NewItems(sic[l])
      /\ mode = "javaAgent" /\ ~whole => after = Null
  <2> HIDE DEF n, sic, prev, mode, lists
  <2>1. QED
    BY <1>2, <1>3, PatchMade
<1> HIDE DEF after, prev
<1>5. mode # "javaAgent" \/ injected = Null => after # Null
  <2>1. injected = Null => whole
    <3>1. injected = Null => lists = mine
      BY DEF Held
    <3>2. QED
      BY <1>2, <3>1
  <2>2. mode # "javaAgent" \/ injected = Null => after \in PodLists
    BY <1>4, <2>1
  <2>3. QED
    BY <2>2, PodListsNotNull
<1>6. ASSUME after # Null
      PROVE  Held(after, sic, mine, v, more)
  <2>1. /\ mode # "javaAgent" \/ whole
        /\ after \in PodLists
        /\ \A l \in Lists : Items(after[l]) = Kept(l) \o NewItems(sic[l])
    <3> HIDE DEF whole, Kept, mode
    <3>1. QED
      BY <1>4, <1>6
  <2>2. ASSUME NEW l \in Lists
        PROVE  /\ Kept(l) \in Seq(PodItem) /\ Len(Kept(l)) = n[l]
               /\ \A i \in 1..n[l] :
                    /\ Kept(l)[i].name = Names(mine[l])[i]
                    /\ i \in 1..Len(Items(lists[l]))
                    /\ Kept(l)[i].agents = IF mode = "javaAgent" /\ l = "containers"
                                           THEN Items(lists[l])[i].agents + 1
                                           ELSE Items(lists[l])[i].agents
    <3> DEFINE items == Items(lists[l])
               k == n[l]
    <3>1. /\ items \in Seq(PodItem) /\ Len(items) \in Nat /\ k \in 0..Len(items)
          /\ \A i \in 1..Len(items) : items[i] \in PodItem /\ Names(lists[l])[i] = items[i].name
      <4>1. lists[l] \in PodList
        BY <1>2 DEF PodLists
      <4>2. QED
        BY <1>3, <4>1, ItemsTyped, NamesTyped
    <3>2. ASSUME NEW i \in 1..k
          PROVE  items[i].name = Names(mine[l])[i] /\ i \in 1..Len(items)
      <4>1. i \in 1..Len(items)
        BY <3>1
      <4>2. Names(lists[l]) = Names(mine[l]) \o LastAdded(injected, l)
        BY DEF Held
      <4>3. Names(mine[l]) \in Seq(STRING) /\ Len(Names(mine[l])) = k
        <5>1. mine[l] \in PodList
          BY <1>1, UserLists DEF PodLists
        <5>2. QED
          BY <5>1, NamesTyped
      <4>4. LastAdded(injected, l) \in Seq(STRING)
        <5>1. CASE injected = Null
          BY <5>1 DEF LastAdded
        <5>2. CASE injected # Null
          <6>1. injected \in Versions /\ LastAdded(injected, l) = Injects(injected.mode, injected.version)[l]
            BY <5>2 DEF LastAdded, Held
          <6>2. Injects(injected.mode, injected.version) \in [Lists -> Seq(STRING)]
            BY <6>1, VersionsInject
          <6>3. QED
            BY <6>1, <6>2
        <5>3. QED
          BY <5>1, <5>2
      <4> HIDE DEF k, items, lists
      <4>5. (Names(mine[l]) \o LastAdded(injected, l))[i] = Names(mine[l])[i]
        BY <4>3, <4>4, ConcatProperties, LenProperties
      <4>6. QED
        BY <3>1, <4>1, <4>2, <4>5 DEF lists
    <3>3. CASE mode = "javaAgent" /\ l = "containers"
      <4>1. Kept(l) = Mounted(items) /\ k = Len(items)
        BY <2>1, <3>3
      <4>2. \A i \in 1..Len(items) :
              [items[i] EXCEPT !.agents = @ + 1] \in PodItem
              /\ [items[i] EXCEPT !.agents = @ + 1].name = items[i].name
              /\ [items[i] EXCEPT !.agents = @ + 1].agents = items[i].agents + 1
        BY <3>1 DEF PodItem
      <4> HIDE DEF items, Kept, k
      <4>3. /\ Mounted(items) \in Seq(PodItem) /\ Len(Mounted(items)) = Len(items)
            /\ \A i \in 1..Len(items) : Mounted(items)[i] = [items[i] EXCEPT !.agents = @ + 1]
        <5> DEFINE Bumped(i) == [items[i] EXCEPT !.agents = @ + 1]
        <5>1. Mounted(items) = [i \in 1..Len(items) |-> Bumped(i)]
          BY DEF Mounted
        <5>2. \A i \in 1..Len(items) : Bumped(i) \in PodItem
          BY <4>2
        <5> HIDE DEF Bumped
        <5>3. /\ Mounted(items) \in Seq(PodItem) /\ Len(Mounted(items)) = Len(items)
              /\ \A i \in 1..Len(items) : Mounted(items)[i] = Bumped(i)
          BY <3>1, <5>1, <5>2
        <5>4. QED
          BY <5>3 DEF Bumped
      <4>4. \A i \in 1..Len(items) : /\ Mounted(items)[i].name = items[i].name
                                      /\ Mounted(items)[i].agents = items[i].agents + 1
        <5> HIDE DEF mode, lists
        <5>1. QED
          BY <4>2, <4>3
      <4>5. QED
        BY <3>2, <3>3, <4>1, <4>3, <4>4 DEF items, k
    <3>4. CASE ~(mode = "javaAgent" /\ l = "containers")
      <4>1. Kept(l) = SubSeq(items, 1, k)
        BY <3>4
      <4> HIDE DEF items, Kept, k
      <4>2. /\ SubSeq(items, 1, k) \in Seq(PodItem) /\ Len(SubSeq(items, 1, k)) = k
            /\ \A i \in 1..k : SubSeq(items, 1, k)[i] = items[i]
        BY <3>1
      <4>3. QED
        BY <3>2, <3>4, <4>1, <4>2 DEF items, k
    <3>5. QED
      BY <3>3, <3>4
  <2>3. ASSUME NEW l \in Lists
        PROVE  /\ Names(after[l]) = Names(mine[l]) \o sic[l]
               /\ \A i \in 1..Len(Items(after[l])) :
                    \/ i \in 1..n[l] /\ Items(after[l])[i] = Kept(l)[i]
                    \/ Items(after[l])[i].agents = 0
    <3>1. /\ after[l] \in PodList /\ sic[l] \in Seq(STRING)
          /\ Names(mine[l]) \in Seq(STRING) /\ Len(Names(mine[l])) = n[l]
      <4>1. mine[l] \in PodList
        BY <1>1, UserLists DEF PodLists
      <4>2. QED
        BY <1>2, <2>1, <4>1, NamesTyped DEF PodLists
    <3>2. /\ Kept(l) \in Seq(PodItem) /\ Len(Kept(l)) = n[l]
          /\ \A i \in 1..Len(Kept(l)) : Kept(l)[i].name = Names(mine[l])[i]
      <4> HIDE DEF Kept, n
      <4>1. QED
        BY <2>2
    <3>3. Items(after[l]) = Kept(l) \o NewItems(sic[l])
      BY <2>1
    <3> HIDE DEF Kept, n, sic
    <3>4. QED
      BY <3>1, <3>2, <3>3, NamesOfConcat
  <2> DEFINE c == Items(after["containers"])
  <2>4. ASSUME NEW i \in 1..Len(c)
        PROVE  /\ more = 0 => c[i].agents = 0
               /\ mode = "javaAgent" => c[i].agents >= 1
    <3>1. CASE i \in 1..n["containers"] /\ c[i] = Kept("containers")[i]
      <4>1. /\ i \in 1..Len(Items(lists["containers"]))
            /\ c[i].agents = IF mode = "javaAgent" THEN Items(lists["containers"])[i].agents + 1
                             ELSE Items(lists["containers"])[i].agents
        <5> HIDE DEF Kept, n, c, mode, lists
        <5>1. QED
          BY <1>2, <2>2, <3>1
      <4>2. Items(lists["containers"])[i] \in PodItem
        <5>1. lists["containers"] \in PodList
          BY <1>2 DEF PodLists
        <5>2. QED
          BY <4>1, <5>1, ItemsTyped
      <4>3. agent = 0 => Items(lists["containers"])[i].agents = 0
        BY <4>1 DEF Held
      <4> HIDE DEF c, lists, mode
      <4>4. QED
        BY <1>2, <4>1, <4>2, <4>3 DEF PodItem
    <3>2. CASE c[i].agents = 0 /\ ~(i \in 1..n["containers"] /\ c[i] = Kept("containers")[i])
      <4>1. ASSUME mode = "javaAgent"
            PROVE  FALSE
        <5>1. Names(after["containers"]) = Names(mine["containers"]) \o << >>
          BY <1>2, <2>3, <4>1
        <5>2. mine["containers"] \in PodList /\ after["containers"] \in PodList
          BY <1>1, <1>2, <2>1, UserLists DEF PodLists
        <5>3. Names(mine["containers"]) \o << >> = Names(mine["containers"])
          BY <5>2, NamesTyped, ConcatEmptySeq
        <5>4. Len(c) = n["containers"]
          BY <1>2, <5>1, <5>2, <5>3, NamesTyped
        <5>5. /\ Items(after["containers"]) = Kept("containers") \o NewItems(sic["containers"])
              /\ NewItems(sic["containers"]) = << >>
              /\ Kept("containers") \in Seq(PodItem)
          <6>1. sic["containers"] = << >> /\ Len(<< >>) = 0
            BY <1>2, <4>1
          <6>2. NewItems(sic["containers"]) = << >>
            BY <6>1 DEF NewItems
          <6>3. QED
            BY <1>2, <2>1, <2>2, <6>2
        <5>6. c = Kept("containers")
          <6> HIDE DEF Kept, sic
          <6>1. QED
            BY <5>5, ConcatEmptySeq
        <5> HIDE DEF Kept, c, n
        <5>7. QED
          BY <3>2, <5>4, <5>6
      <4>2. QED
        BY <3>2, <4>1
    <3>3. QED
      BY <1>2, <2>3, <3>1, <3>2
  <2>5. more \in Nat
    BY <1>2
  <2>6. v # Null /\ v \in Versions
    BY VersionsInject
  <2>7. \A l \in Lists : LastAdded(v, l) = sic[l]
    BY <2>6 DEF LastAdded
  <2> HIDE DEF more, sic
  <2>8. QED
    BY <1>1, <2>1, <2>3, <2>4, <2>5, <2>6, <2>7 DEF Held, sic
<1>7. QED
  BY <1>5, <1>6 DEF after, prev

(* The names of a pod's items, and where the agent's directory is among them. *)
LEMMA HeldNames ==
  ASSUME NEW lists, NEW status, NEW mine, NEW injected, NEW agent,
         Held(lists, status, mine, injected, agent), injected # Null, NEW l \in Lists
  PROVE  /\ IsInjective(Names(lists[l]))
         /\ Range(Names(lists[l])) = Range(Names(mine[l])) \cup Range(LastAdded(injected, l))
<1> DEFINE a == Names(mine[l])
           b == LastAdded(injected, l)
<1>1. PICK u \in UserPods : mine = u.lists
  BY DEF Held
<1>2. a \in Seq(STRING) /\ Range(a) \cap InjectorNames(l) = {} /\ IsInjective(a)
  <2>1. mine[l] \in PodList
    BY <1>1, UserLists DEF PodLists
  <2>2. QED
    BY <1>1, <2>1, NamesTyped, UserLists DEF ValidPod
<1>3. b \in Seq(STRING) /\ Range(b) \subseteq InjectorNames(l) /\ IsInjective(b)
  <2>1. injected \in Versions
    BY DEF Held
  <2>2. Injects(injected.mode, injected.version) \in [Lists -> Seq(STRING)]
    BY <2>1, VersionsInject
  <2>3. b = Injects(injected.mode, injected.version)[l]
    BY DEF LastAdded
  <2>4. QED
    BY <2>1, <2>2, <2>3, VersionsInject
<1>4. Names(lists[l]) = a \o b
  BY DEF Held
<1> HIDE DEF a, b
<1> DEFINE m == Len(a)
           n == Len(b)
           c == a \o b
<1>5. m \in Nat /\ n \in Nat /\ DOMAIN a = 1..m /\ DOMAIN b = 1..n
  BY <1>2, <1>3, LenProperties
<1>6. /\ Len(c) = m + n /\ DOMAIN c = 1..(m + n)
      /\ \A i \in 1..(m + n) : c[i] = IF i <= m THEN a[i] ELSE b[i - m]
  <2>1. c \in Seq(STRING)
    BY <1>2, <1>3
  <2>2. QED
    BY <1>2, <1>3, <2>1, ConcatProperties, LenProperties
<1> HIDE DEF m, n, c
<1>7. /\ \A i \in 1..(m + n) : i <= m => i \in 1..m /\ c[i] = a[i]
      /\ \A i \in 1..(m + n) : ~(i <= m) => i > m /\ i - m \in 1..n /\ c[i] = b[i - m]
  <2>1. ASSUME NEW i \in 1..(m + n), i <= m
        PROVE  i \in 1..m /\ c[i] = a[i]
    BY <1>5, <1>6, <2>1
  <2>2. ASSUME NEW i \in 1..(m + n), ~(i <= m)
        PROVE  i > m /\ i - m \in 1..n /\ c[i] = b[i - m]
    <3>1. i > m /\ i - m \in 1..n
      BY <1>5, <2>2
    <3>2. QED
      BY <1>6, <2>2, <3>1
  <2>3. QED
    BY <2>1, <2>2
<1>8. \A i \in 1..m : i \in 1..(m + n) /\ c[i] = a[i]
  BY <1>5, <1>6
<1>9. \A j \in 1..n : j + m \in 1..(m + n) /\ c[j + m] = b[j]
  <2> SUFFICES ASSUME NEW j \in 1..n PROVE j + m \in 1..(m + n) /\ c[j + m] = b[j]
    OBVIOUS
  <2>1. j + m \in 1..(m + n) /\ ~(j + m <= m) /\ (j + m) - m = j
    BY <1>5
  <2>2. QED
    BY <1>6, <2>1
<1>10. Range(c) = Range(a) \cup Range(b)
  <2>1. ASSUME NEW x \in Range(c)
        PROVE  x \in Range(a) \cup Range(b)
    BY <1>5, <1>6, <1>7, <2>1 DEF Range
  <2>2. ASSUME NEW x \in Range(a) \cup Range(b)
        PROVE  x \in Range(c)
    <3>1. CASE x \in Range(a)
      BY <1>5, <1>6, <1>8, <3>1 DEF Range
    <3>2. CASE x \in Range(b)
      BY <1>5, <1>6, <1>9, <3>2 DEF Range
    <3>3. QED
      BY <2>2, <3>1, <3>2
  <2>3. QED
    BY <2>1, <2>2
<1>11. IsInjective(c)
  <2> SUFFICES ASSUME NEW i \in 1..(m + n), NEW j \in 1..(m + n), c[i] = c[j]
               PROVE  i = j
    BY <1>6 DEF IsInjective
  <2>1. \A x \in 1..m, y \in 1..n : a[x] # b[y]
    <3> SUFFICES ASSUME NEW x \in 1..m, NEW y \in 1..n, a[x] = b[y] PROVE FALSE
      OBVIOUS
    <3>1. a[x] \in Range(a) /\ b[y] \in Range(b)
      BY <1>5 DEF Range
    <3>2. QED
      BY <1>2, <1>3, <3>1
  <2>2. \A x, y \in 1..m : a[x] = a[y] => x = y
    BY <1>2, <1>5 DEF IsInjective
  <2>3. \A x, y \in 1..n : b[x] = b[y] => x = y
    BY <1>3, <1>5 DEF IsInjective
  <2>4. CASE i <= m /\ j <= m
    <3>1. i \in 1..m /\ j \in 1..m /\ c[i] = a[i] /\ c[j] = a[j]
      BY <1>5, <1>7, <2>4
    <3>2. QED
      BY <2>2, <3>1
  <2>5. CASE i > m /\ j > m
    <3>1. i - m = j - m
      BY <1>5, <1>7, <2>3, <2>5
    <3>2. QED
      BY <1>5, <3>1
  <2>6. CASE (i <= m /\ j > m) \/ (i > m /\ j <= m)
    BY <1>5, <1>7, <2>1, <2>6
  <2>7. QED
    BY <1>5, <2>4, <2>5, <2>6
<1>12. QED
  BY <1>4, <1>10, <1>11 DEF a, b, c

(* A pod the agent was never asked for is admitted. *)
LEMMA AdmittedWithoutAgent ==
  ASSUME NEW lists, NEW status, NEW mine, NEW injected,
         Held(lists, status, mine, injected, 0)
  PROVE  ValidPod(lists)
<1>1. PICK u \in UserPods : mine = u.lists
  BY DEF Held
<1>2. CASE injected = Null
  BY <1>1, <1>2, UserLists DEF Held
<1>3. CASE injected # Null
  <2>1. \A l \in Lists : IsInjective(Names(lists[l]))
    BY <1>3, HeldNames
  <2>2. ASSUME NEW i \in DOMAIN Items(lists["containers"])
        PROVE  lists["containers"][i].agents = 0
    <3>1. lists["containers"] \in PodList
      BY ListsNamed DEF Held, PodLists
    <3>2. i \in 1..Len(Items(lists["containers"]))
      BY <3>1, ItemsTyped
    <3>3. lists["containers"] = Items(lists["containers"])
      BY <2>2 DEF Items
    <3>4. QED
      BY <3>2, <3>3 DEF Held
  <2>3. QED
    BY <2>1, <2>2 DEF ValidPod
<1>4. QED
  BY <1>2, <1>3

(* What an admitted pod holds. *)
AsIntended(lists, mine, i) ==
  /\ \A l \in Lists :
       Names(lists[l]) = Names(mine[l]) \o Templates[i.mode][i.version].lists[l]
  /\ \A k \in DOMAIN Items(mine.containers) :
       lists.containers[k].agents = IF i.mode = "javaAgent" THEN 1 ELSE 0

LEMMA AdmittedAsIntended ==
  ASSUME NEW lists, NEW status, NEW mine, NEW injected, NEW agent,
         Held(lists, status, mine, injected, agent), injected # Null, ValidPod(lists)
  PROVE  AsIntended(lists, mine, injected)
<1> DEFINE mode == injected.mode
           c == lists["containers"]
<1>1. PICK u \in UserPods : mine = u.lists
  BY DEF Held
<1>2. \A l \in Lists :
        Names(lists[l]) = Names(mine[l]) \o Templates[injected.mode][injected.version].lists[l]
  <2>1. \A l \in Lists :
          Names(lists[l]) = Names(mine[l]) \o Injects(injected.mode, injected.version)[l]
    BY DEF Held, LastAdded
  <2>2. QED
    BY <2>1 DEF Injects
<1>3. injected \in Versions /\ "containers" \in Lists /\ "volumes" \in Lists
  BY ListsNamed DEF Held
<1>4. c \in PodList /\ mine["containers"] \in PodList /\ mine["volumes"] \in PodList
  BY <1>1, <1>3, UserLists DEF Held, PodLists
<1>5. ASSUME NEW k \in DOMAIN Items(mine["containers"])
      PROVE  c[k].agents = IF mode = "javaAgent" THEN 1 ELSE 0
  <2>1. k \in 1..Len(Items(c))
    <3>1. k \in 1..Len(Items(mine["containers"]))
      BY <1>4, ItemsTyped
    <3>2. Len(Items(mine["containers"])) \in 0..Len(Items(c))
      <4> DEFINE m == [lists |-> lists, status |-> status]
      <4>1. Held(m.lists, m.status, mine, injected, agent) /\ m.lists = lists
        OBVIOUS
      <4> HIDE DEF m
      <4>2. Len(Items(mine["containers"])) \in 0..Len(Items(m.lists["containers"]))
        BY <1>3, <4>1, InjectedIsRemoved
      <4>3. QED
        BY <4>1, <4>2
    <3>3. Len(Items(c)) \in Nat
      BY <1>4, ItemsTyped
    <3> HIDE DEF c
    <3>4. QED
      BY <3>1, <3>2, <3>3
  <2>2. Items(c)[k] \in PodItem /\ k \in DOMAIN Items(c)
    BY <1>4, <2>1, ItemsTyped
  <2>3. Items(c) = c
    <3>1. c = Null => Items(c) = << >>
      BY DEF Items
    <3>2. c # Null
      BY <2>1, <3>1
    <3>3. QED
      BY <3>2 DEF Items
  <2>4. c[k].agents \in Nat /\ c[k].agents <= 1
        /\ (c[k].agents = 1 => AgentDir \in Range(Names(lists["volumes"])))
    BY <2>2, <2>3 DEF PodItem, ValidPod
  <2>5. CASE mode = "javaAgent"
    <3>1. c[k].agents >= 1
      BY <2>1, <2>3, <2>5 DEF Held
    <3> HIDE DEF c
    <3>2. QED
      BY <2>4, <2>5, <3>1
  <2>6. CASE mode # "javaAgent"
    <3>1. AgentDir \notin Range(Injects(injected.mode, injected.version)["volumes"])
      BY <1>3, <2>6, VersionsInject
    <3>2. AgentDir \in InjectorNames("volumes")
      <4> DEFINE v == [mode |-> "javaAgent", version |-> 1]
      <4>1. v \in Versions
        BY InjectConfigAssumption DEF Versions, Modes, Volumes
      <4>2. v.mode = "javaAgent"
        OBVIOUS
      <4> HIDE DEF v
      <4>3. QED
        BY <1>3, <4>1, <4>2, VersionsInject
    <3>3. AgentDir \notin Range(Names(mine["volumes"]))
      BY <1>1, <1>3, <3>2, UserLists
    <3>4. AgentDir \notin Range(Names(lists["volumes"]))
      <4>1. Range(Names(lists["volumes"]))
              = Range(Names(mine["volumes"])) \cup Range(LastAdded(injected, "volumes"))
        BY <1>3, HeldNames
      <4>2. LastAdded(injected, "volumes") = Injects(injected.mode, injected.version)["volumes"]
        BY DEF LastAdded
      <4>3. QED
        BY <3>1, <3>3, <4>1, <4>2
    <3> HIDE DEF c
    <3>5. QED
      BY <2>4, <2>6, <3>4
  <2>7. QED
    BY <2>5, <2>6
<1>6. QED
  BY <1>2, <1>5 DEF AsIntended

-----------------------------------------------------------------------------
(* The requests.  Before the first one nothing has happened to a pod; from then *)
(* on what is known of it holds, and it was refused only for the agent.         *)
PodKnown(p) ==
  IF request[p].pc = "none" THEN past[p] = Fresh
  ELSE Held(pod[p].lists, pod[p].status, own[p], past[p].injected, past[p].agent)
PodFate(p) ==
  /\ request[p].pc = "running" => ValidPod(pod[p].lists)
  /\ Refused(p) => past[p].agent > 0 /\ (pod[p].annotations = Null \/ pod[p].status # Null)
Known == DOMAIN own = Pods /\ \A p \in Pods : PodKnown(p) /\ PodFate(p)

LEMMA InitKnown == Init => Known
BY DEF Init, Known, PodKnown, PodFate, Refused, Idle

LEMMA KnownSuffices == Known => InjectedAsIntended /\ RefusedOnlyForAgent
<1> SUFFICES ASSUME Known PROVE InjectedAsIntended /\ RefusedOnlyForAgent
  OBVIOUS
<1>1. ASSUME NEW p \in Pods, request[p].pc = "running", past[p].injected # Null
      PROVE  AsIntended(pod[p].lists, own[p], past[p].injected)
  <2>1. Held(pod[p].lists, pod[p].status, own[p], past[p].injected, past[p].agent)
        /\ ValidPod(pod[p].lists)
    BY <1>1 DEF Known, PodKnown, PodFate
  <2>2. QED
    BY <1>1, <2>1, AdmittedAsIntended
<1>2. InjectedAsIntended
  BY <1>1 DEF InjectedAsIntended, AsIntended
<1>3. RefusedOnlyForAgent
  BY DEF Known, PodFate, RefusedOnlyForAgent
<1>4. QED
  BY <1>2, <1>3

(* A step that leaves a pod's lists and status, and does not decide on it. *)
LEMMA StillKnown ==
  ASSUME NEW p \in Pods, PodKnown(p), PodFate(p),
         pod'[p].lists = pod[p].lists, pod'[p].status = pod[p].status,
         own'[p] = own[p], past'[p].injected = past[p].injected,
         past'[p].agent = past[p].agent, request[p].pc # "none",
         request'[p].pc \notin {"none", "running"},
         request'[p].pc = "refused" => past'[p].faulty
  PROVE  PodKnown(p)' /\ PodFate(p)'
BY DEF PodKnown, PodFate, Refused

LEMMA LeftKnown ==
  ASSUME NEW p \in Pods, PodKnown(p), PodFate(p), request'[p] = request[p],
         pod'[p] = pod[p], own'[p] = own[p], past'[p] = past[p]
  PROVE  PodKnown(p)' /\ PodFate(p)'
BY DEF PodKnown, PodFate, Refused

LEMMA OwnLeft ==
  ASSUME Known, NEW p \in Pods, Serve(p) \/ ApiServer(p), NEW q \in Pods \ {p}
  PROVE  own'[q] = own[q]
BY DEF Known, Serve, ApiServer, GetInjectMode, SetOnDemand, GetTemplate,
       GetMeshEnvoyConfig, Render, GetRootCert, CreateRootCert, Patch, Submit,
       CallAgain, Validate, Resubmit, requestOnly

(* The steps of a request before its patch. *)
LEMMA ServedKnown ==
  ASSUME IInv, Known, NEW p \in Pods, Serve(p), ~SetOnDemand(p), ~Patch(p)
  PROVE  PodKnown(p)' /\ PodFate(p)'
<1>1. UNCHANGED <<pod, own>>
  BY DEF Serve, GetInjectMode, GetTemplate, GetMeshEnvoyConfig, Render, GetRootCert,
         CreateRootCert, requestOnly
<1>2. past'[p].injected = past[p].injected /\ past'[p].agent = past[p].agent
  <2>1. past' = past \/ past' = [past EXCEPT ![p].faulty = TRUE]
    BY DEF Serve, GetInjectMode, GetTemplate, GetMeshEnvoyConfig, Render, GetRootCert,
           CreateRootCert, Faulty, WithoutEnv, requestOnly
  <2>2. QED
    BY <2>1 DEF IInv, Shaped, Fresh
<1>3. request[p].pc # "none" /\ request'[p].pc \notin {"none", "running", "refused"}
  <2>1. CASE GetInjectMode(p)
    BY <2>1 DEF GetInjectMode, At, IInv, Shaped, Idle
  <2>2. CASE GetTemplate(p) \/ GetMeshEnvoyConfig(p)
    BY <2>2 DEF GetTemplate, GetMeshEnvoyConfig, At, IInv, Shaped, Idle
  <2>3. CASE Render(p)
    <3>1. request'[p].pc \in {"getCert", "patch"}
      BY <2>3 DEF Render, IInv, Shaped, Idle
    <3>2. QED
      BY <2>3, <3>1 DEF Render, At
  <2>4. CASE GetRootCert(p) \/ CreateRootCert(p)
    BY <2>4 DEF GetRootCert, CreateRootCert, Goto, WithoutEnv, At, IInv, Shaped, Idle
  <2>5. QED
    BY <2>1, <2>2, <2>3, <2>4 DEF Serve
<1>4. PodKnown(p) /\ PodFate(p)
  BY DEF Known
<1>5. QED
  BY <1>1, <1>2, <1>3, <1>4, StillKnown

(* Setting what one pod asks for may stop the process: the requests then being *)
(* served fail.                                                                *)
LEMMA OnDemandKnown ==
  ASSUME IInv, Known, NEW p \in Pods, SetOnDemand(p), NEW q \in Pods
  PROVE  PodKnown(q)' /\ PodFate(q)'
<1>1. UNCHANGED <<pod, own>> /\ request[p].pc = "mode"
  BY DEF SetOnDemand, At
<1>2. PodKnown(q) /\ PodFate(q)
  BY DEF Known
<1>3. CASE /\ request' = [request EXCEPT ![p].pc = "template", ![p].mode = "mesh"]
           /\ UNCHANGED past
  <2>1. CASE q = p
    <3>1. request'[q].pc = "template" /\ request[q].pc = "mode"
      BY <1>1, <1>3, <2>1 DEF IInv, Shaped, Idle
    <3>2. QED
      BY <1>1, <1>2, <1>3, <3>1, StillKnown
  <2>2. CASE q # p
    <3>1. request'[q] = request[q]
      BY <1>3, <2>2 DEF IInv, Shaped
    <3>2. QED
      BY <1>1, <1>2, <1>3, <3>1, LeftKnown
  <2>3. QED
    BY <2>1, <2>2
<1>4. CASE LET cut == {r \in Pods : request[r].pc \in Serving}
           IN  /\ request' = [r \in Pods |-> IF r \in cut
                                             THEN [request[r] EXCEPT !.pc = "refused"]
                                             ELSE request[r]]
               /\ past' = [r \in Pods |-> IF r \in cut THEN [past[r] EXCEPT !.faulty = TRUE]
                                          ELSE past[r]]
  <2>1. CASE request[q].pc \in Serving
    <3>1. /\ request'[q] = [request[q] EXCEPT !.pc = "refused"]
          /\ past'[q] = [past[q] EXCEPT !.faulty = TRUE]
      BY <1>4, <2>1
    <3>2. /\ request'[q].pc = "refused" /\ past'[q].faulty
          /\ past'[q].injected = past[q].injected /\ past'[q].agent = past[q].agent
      BY <3>1 DEF IInv, Shaped, Idle, Fresh
    <3>3. request[q].pc # "none"
      BY <2>1 DEF Serving
    <3>4. QED
      BY <1>1, <1>2, <3>2, <3>3, StillKnown
  <2>2. CASE request[q].pc \notin Serving
    <3>1. request'[q] = request[q] /\ past'[q] = past[q]
      BY <1>4, <2>2
    <3>2. QED
      BY <1>1, <1>2, <3>1, LeftKnown
  <2>3. QED
    BY <2>1, <2>2
<1>5. QED
  BY <1>3, <1>4 DEF SetOnDemand

(* The patch. *)
LEMMA PatchedKnown ==
  ASSUME IInv, RInv, Known, NEW p \in Pods, Patch(p)
  PROVE  PodKnown(p)' /\ PodFate(p)'
<1> DEFINE m == pod[p]
           v == [mode |-> request[p].mode, version |-> request[p].template]
           sic == Injects(v.mode, v.version)
           lists == ApplyPatch(m.lists, createPatch(v.mode, m.lists, injectionStatus(m), sic))
           agent == past[p].agent
           more == IF v.mode = "javaAgent" THEN agent + 1 ELSE agent
           fails == lists = Null \/ (v.mode = "javaAgent" /\ m.annotations = Null)
<1>1. /\ request[p].pc = "patch" /\ own' = own
      /\ request' = [request EXCEPT ![p].pc = IF fails THEN "refused" ELSE "answered"]
      /\ pod' = IF fails THEN pod
                ELSE [pod EXCEPT ![p] = Injected(m, Templates[v.mode][v.version], lists)]
      /\ past' = [past EXCEPT
           ![p].injected = IF fails THEN @ ELSE v,
           ![p].agent = IF v.mode = "javaAgent" THEN @ + 1 ELSE @]
  BY DEF Patch, At, Goto, Injects
<1>2. v \in Versions /\ DOMAIN m = ManifestFields
  <2>1. request[p] \in Request
    BY DEF RInv
  <2>2. DOMAIN m = ManifestFields
    BY <1>1 DEF RInv, PodTyped
  <2>3. request[p].mode \in Modes /\ request[p].template \in 1..MaxVersions["inject"]
    BY <2>1 DEF Request
  <2>4. QED
    BY <2>2, <2>3 DEF Versions
<1>3. Held(m.lists, m.status, own[p], past[p].injected, agent)
  BY <1>1 DEF Known, PodKnown
<1>4. /\ lists # Null => Held(lists, sic, own[p], v, more)
      /\ v.mode # "javaAgent" \/ past[p].injected = Null => lists # Null
  <2> HIDE DEF v, m, agent
  <2>1. QED
    BY <1>2, <1>3, PatchHolds
<1>5. sic \in [Lists -> Seq(STRING)] /\ v # Null /\ sic # Null
  <2> HIDE DEF v
  <2>1. QED
    BY <1>2, VersionsInject
<1>6. agent \in Nat /\ (past[p].injected # Null => m.status # Null)
  <2>1. agent \in Nat
    BY <1>3 DEF Held
  <2>2. ASSUME past[p].injected # Null
        PROVE  m.status # Null
    <3> DEFINE i == past[p].injected
    <3>1. i \in Versions /\ m.status = Injects(i.mode, i.version)
      BY <1>3, <2>2 DEF Held
    <3> HIDE DEF i
    <3>2. QED
      BY <3>1, VersionsInject
  <2>3. QED
    BY <2>1, <2>2
<1> HIDE DEF lists, sic
<1>7. /\ past'[p].agent = more /\ past'[p].injected = IF fails THEN past[p].injected ELSE v
      /\ request'[p].pc = IF fails THEN "refused" ELSE "answered"
  <2> HIDE DEF fails, v
  <2>1. QED
    BY <1>1 DEF IInv, Shaped, Fresh, Idle
<1>8. CASE fails
  <2>1. pod' = pod /\ past'[p].injected = past[p].injected /\ request'[p].pc = "refused"
    BY <1>1, <1>7, <1>8
  <2>2. v.mode = "javaAgent" /\ more = agent + 1
    BY <1>4, <1>8
  <2>3. m.annotations = Null \/ m.status # Null
    BY <1>4, <1>6, <1>8
  <2>4. Held(m.lists, m.status, own[p], past[p].injected, agent + 1)
    BY <1>3, <1>6 DEF Held
  <2>5. agent + 1 > 0
    BY <1>6
  <2> HIDE DEF agent, more
  <2>6. PodKnown(p)'
    BY <1>1, <1>7, <2>1, <2>2, <2>4 DEF PodKnown
  <2>7. PodFate(p)'
    BY <1>1, <1>7, <2>1, <2>2, <2>3, <2>5 DEF PodFate, Refused
  <2>8. QED
    BY <2>6, <2>7
<1>9. CASE ~fails
  <2> DEFINE t == Templates[v.mode][v.version]
  <2>1. Status(t) = sic
    <3>1. sic = t.lists
      BY DEF sic, Injects
    <3>2. sic = [l \in Lists |-> sic[l]]
      BY <1>5
    <3>3. QED
      BY <3>1, <3>2 DEF Status
  <2>2. pod'[p].lists = lists /\ pod'[p].status = sic
    <3>1. pod'[p] = Injected(m, t, lists)
      BY <1>1, <1>9 DEF IInv, Shaped
    <3>2. Injected(m, t, lists).lists = lists /\ Injected(m, t, lists).status = Status(t)
      BY <1>2 DEF Injected, ManifestFields
    <3>3. QED
      BY <2>1, <3>1, <3>2
  <2>3. past'[p].injected = v /\ request'[p].pc = "answered"
    BY <1>7, <1>9
  <2>4. Held(lists, sic, own[p], v, more)
    BY <1>4, <1>9
  <2> HIDE DEF v, more, agent
  <2>5. PodKnown(p)'
    BY <1>1, <1>7, <2>2, <2>3, <2>4 DEF PodKnown
  <2>6. PodFate(p)'
    BY <2>3 DEF PodFate, Refused
  <2>7. QED
    BY <2>5, <2>6
<1>10. QED
  BY <1>8, <1>9

(* The API server's steps. *)
LEMMA ApiServerKnown ==
  ASSUME IInv, RInv, Known, NEW p \in Pods, ApiServer(p)
  PROVE  PodKnown(p)' /\ PodFate(p)'
<1>1. PodKnown(p) /\ PodFate(p)
  BY DEF Known
<1>2. CASE Submit(p)
  <2>1. PICK m \in UserPods : pod' = [pod EXCEPT ![p] = m] /\ own' = [own EXCEPT ![p] = m.lists]
    BY <1>2 DEF Submit
  <2>2. /\ pod'[p] = m /\ own'[p] = m.lists /\ past' = past /\ request[p].pc = "none"
        /\ request'[p].pc = "mode"
    BY <1>2, <2>1 DEF Submit, At, Known, IInv, Shaped, Idle
  <2>3. past'[p].injected = Null /\ past'[p].agent = 0
    BY <1>1, <2>2 DEF PodKnown, Fresh
  <2>4. Held(m.lists, m.status, m.lists, Null, 0)
    <3>1. /\ m.lists \in PodLists /\ m.status = Null
          /\ \A i \in 1..Len(Items(m.lists["containers"])) :
               Items(m.lists["containers"])[i].agents = 0
      BY UserLists, UserPodsAssumption
    <3>2. \A l \in Lists : Names(m.lists[l]) = Names(m.lists[l]) \o LastAdded(Null, l)
      <4> SUFFICES ASSUME NEW l \in Lists
                   PROVE  Names(m.lists[l]) = Names(m.lists[l]) \o LastAdded(Null, l)
        OBVIOUS
      <4>1. Names(m.lists[l]) \in Seq(STRING)
        BY <3>1, NamesTyped DEF PodLists
      <4>2. LastAdded(Null, l) = << >>
        BY DEF LastAdded
      <4>3. QED
        BY <4>1, <4>2, ConcatEmptySeq
    <3>3. QED
      BY <3>1, <3>2 DEF Held
  <2>5. QED
    BY <2>2, <2>3, <2>4 DEF PodKnown, PodFate, Refused
<1>3. CASE CallAgain(p)
  <2>1. UNCHANGED <<pod, own, past>> /\ request[p].pc = "answered" /\ request'[p].pc = "mode"
    BY <1>3 DEF CallAgain, Call, requestOnly, IInv, Shaped, Idle
  <2>2. QED
    BY <1>1, <2>1, StillKnown
<1>4. CASE Resubmit(p)
  <2>1. request[p].pc = "running" /\ request'[p].pc = "mode" /\ UNCHANGED <<own, past>>
    BY <1>4 DEF Resubmit, Call, IInv, Shaped, Idle
  <2>2. pod'[p].lists = pod[p].lists /\ pod'[p].status = pod[p].status
    <3>1. \E x : pod' = [pod EXCEPT ![p].annotations = x]
      BY <1>4 DEF Resubmit
    <3>2. DOMAIN pod[p] = ManifestFields
      BY <2>1 DEF RInv, PodTyped
    <3>3. QED
      BY <3>1, <3>2 DEF RInv, ManifestFields
  <2>3. QED
    BY <1>1, <2>1, <2>2, StillKnown
<1>5. CASE Validate(p)
  <2>1. /\ UNCHANGED <<pod, own, past>> /\ request[p].pc = "answered"
        /\ request'[p].pc = IF ValidPod(pod[p].lists) THEN "running" ELSE "refused"
    BY <1>5 DEF Validate, Goto, requestOnly, IInv, Shaped, Idle
  <2>2. Held(pod[p].lists, pod[p].status, own[p], past[p].injected, past[p].agent)
    BY <1>1, <2>1 DEF PodKnown
  <2>3. ASSUME ~ValidPod(pod[p].lists)
        PROVE  past[p].agent > 0 /\ pod[p].status # Null
    <3>1. past[p].agent # 0
      BY <2>2, <2>3, AdmittedWithoutAgent
    <3>2. past[p].agent \in Nat
      BY <2>2 DEF Held
    <3>3. past[p].injected # Null
      <4>1. ASSUME past[p].injected = Null
            PROVE  ValidPod(pod[p].lists)
        BY <2>2, <4>1, UserLists DEF Held
      <4>2. QED
        BY <2>3, <4>1
    <3> DEFINE i == past[p].injected
    <3>4. i \in Versions /\ pod[p].status = Injects(i.mode, i.version)
      BY <2>2, <3>3 DEF Held
    <3>5. pod[p].status # Null
      <4> HIDE DEF i
      <4>1. QED
        BY <3>4, VersionsInject
    <3>6. QED
      BY <3>1, <3>2, <3>5
  <2>4. PodKnown(p)'
    BY <2>1, <2>2 DEF PodKnown
  <2>5. PodFate(p)'
    BY <2>1, <2>3 DEF PodFate, Refused
  <2>6. QED
    BY <2>4, <2>5
<1>6. QED
  BY <1>2, <1>3, <1>4, <1>5 DEF ApiServer

LEMMA KnownStep ==
  ASSUME IInv, RInv, Known, [Next]_vars
  PROVE  Known'
<1>1. CASE UNCHANGED podVars
  <2>1. ASSUME NEW q \in Pods
        PROVE  PodKnown(q)' /\ PodFate(q)'
    BY <1>1, LeftKnown DEF Known, podVars
  <2>2. QED
    BY <1>1, <2>1 DEF Known, podVars
<1>2. ASSUME NEW p \in Pods, Serve(p) \/ ApiServer(p)
      PROVE  Known'
  <2>1. DOMAIN own' = Pods
    BY <1>2 DEF Known, Serve, ApiServer, GetInjectMode, SetOnDemand, GetTemplate,
         GetMeshEnvoyConfig, Render, GetRootCert, CreateRootCert, Patch, Submit,
         CallAgain, Validate, Resubmit, requestOnly
  <2>2. ASSUME NEW q \in Pods
        PROVE  PodKnown(q)' /\ PodFate(q)'
    <3>1. CASE SetOnDemand(p)
      BY <3>1, OnDemandKnown
    <3>2. CASE ~SetOnDemand(p) /\ q # p
      <4>1. q \in Pods \ {p}
        BY <3>2
      <4>2. own'[q] = own[q]
        BY <1>2, <4>1, OwnLeft
      <4>3. request'[q] = request[q] /\ pod'[q] = pod[q] /\ past'[q] = past[q]
        BY <1>2, <3>2, <4>1, OthersLeft
      <4>4. QED
        BY <4>2, <4>3, LeftKnown DEF Known
    <3>3. CASE ~SetOnDemand(p) /\ q = p
      <4>1. CASE ApiServer(p)
        BY <3>3, <4>1, ApiServerKnown
      <4>2. CASE Patch(p)
        BY <3>3, <4>2, PatchedKnown
      <4>3. CASE Serve(p) /\ ~Patch(p)
        BY <3>3, <4>3, ServedKnown
      <4>4. QED
        BY <1>2, <4>1, <4>2, <4>3
    <3>4. QED
      BY <3>1, <3>2, <3>3
  <2>3. QED
    BY <2>1, <2>2 DEF Known
<1>3. QED
  BY <1>1, <1>2 DEF Next, vars

(* The induction step of all that is known of the pods. *)
LEMMA AllKnownStep ==
  IInv /\ CInv /\ RInv /\ Known /\ [Next]_vars => (IInv /\ CInv /\ RInv /\ Known)'
BY IInvStep, CInvStep, RInvStep, KnownStep
-----------------------------------------------------------------------------
(* webhook.go:414, base/patch.go:42: whatever a pod was called for and          *)
(* submitted with before, it holds its user's items in their order and what the *)
(* last injection left after them, in every state of its requests: what the     *)
(* next removal of injected names starts from.                                  *)
THEOREM InjectionAccounted == Spec => []Known
<1>1. Init => IInv /\ CInv /\ RInv /\ Known
  BY InitIInv, InitCInv, InitRInv, InitKnown
<1>2. QED
  BY <1>1, AllKnownStep, PTL DEF Spec

(* webhook.go:414: a pod that runs has its user's items, in their order, and    *)
(* after them what the template last used injects, each once, however often it  *)
(* was called for; its user's containers have the agent mounted once or not.    *)
THEOREM PodsAsIntended == Spec => []InjectedAsIntended
<1>1. Known => InjectedAsIntended
  BY KnownSuffices
<1>2. QED
  BY <1>1, InjectionAccounted, PTL

(* webhook.go:414, javaagent/patch.go:281: a pod is never refused because of    *)
(* what an earlier call injected, but for the java agent's own two reasons.     *)
THEOREM RefusedOnlyByAgent == Spec => []RefusedOnlyForAgent
<1>1. Known => RefusedOnlyForAgent
  BY KnownSuffices
<1>2. QED
  BY <1>1, InjectionAccounted, PTL
=============================================================================
