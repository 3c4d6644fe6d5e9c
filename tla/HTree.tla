------------------------------- MODULE HTree -------------------------------
(***************************************************************************)
(* The hash tree of htree.c: a trie over the digits of the hashes of the   *)
(* keys.  The items are in the leaves.  An inner node caches the number    *)
(* and the combined hash of the live items below it; the caches are        *)
(* repaired, and nodes that became small merged, when somebody asks for    *)
(* hashes.  Replicas compare these hashes to find out where they differ.   *)
(*                                                                         *)
(* Every operation runs under tree->lock, so each is one action.           *)
(***************************************************************************)
EXTENDS Integers, Sequences, FiniteSets, FiniteSetsExt, SequencesExt

CONSTANTS Key,
          KeyHash,      \* [Key -> Nat], fnv1a of the key
          ValueHash,    \* the 16-bit hashes of values
          BUCKET_SIZE, SPLIT_LIMIT, MAX_DEPTH,
          TreeDepth,    \* tree->depth, the digits shared by all keys of the tree
          HashRange,    \* the range of node->hash, a uint16_t
          ListLimit,    \* list_dir never lists more items than this
          Dir,          \* the directories asked for, sequences of digits
          PrefixSets,     \* sets of keys with a common prefix, as asked for by a list
          NULL

ASSUME HTreeAssumption ==
  /\ KeyHash \in [Key -> Nat] /\ ValueHash \subseteq Nat
  /\ BUCKET_SIZE \in Nat \ {0, 1} /\ SPLIT_LIMIT \in Nat \ {0}
  /\ MAX_DEPTH \in Nat /\ TreeDepth \in 0 .. MAX_DEPTH - 1

VARIABLES tree,         \* struct t_hash_tree
          last          \* history: the live item each key was last given, or NULL

vars == <<tree, last>>

Digit == 0 .. BUCKET_SIZE - 1
\* A node is its place below the root.
Path == UNION {[1 .. d -> Digit] : d \in 0 .. MAX_DEPTH - TreeDepth - 1}
Item == [key : Key, hash : ValueHash, ver : {-1, 1}]   \* of the version, its sign

\* INDEX: the digit that selects the child of a node of depth d.
digit(k, d) ==
  (KeyHash[k] \div BUCKET_SIZE ^ (MAX_DEPTH - 1 - d - TreeDepth)) % BUCKET_SIZE

HASH(it) == IF it.ver > 0 THEN it.hash ELSE 0
child(n) == {Append(n, b) : b \in Digit}
below(n) == {k \in Key : \A d \in 1 .. Len(n) : digit(k, d - 1) = n[d]}

\* Memory from enlarge_pool, and a node after clear().
Zero == [is_node |-> FALSE, valid |-> FALSE, count |-> 0, hash |-> 0, data |-> NULL]
Cleared == [Zero EXCEPT !.valid = TRUE, !.data = {}]

ht_new == [height |-> 1, node |-> [n \in Path |-> IF n = <<>> THEN Cleared ELSE Zero]]

\* The leaf a key belongs to, from node n on.
RECURSIVE leaf(_, _, _)
leaf(t, n, k) == IF t.node[n].is_node THEN leaf(t, Append(n, digit(k, Len(n))), k) ELSE n

\* Mutant: the inner nodes on the way keep their caches.
still_valid(t, n, l) == t

invalidated(t, n, l) ==
  [t EXCEPT !.node = [q \in Path |-> IF IsPrefix(n, q) /\ IsStrictPrefix(q, l)
                                       THEN [@[q] EXCEPT !.valid = FALSE] ELSE @[q]]]

\* Mutant: an item that is written again does not replace the old one.
exchanged_adding(node, p, it) ==
  [node EXCEPT !.data = @ \cup ({it} \ {NULL})]

\* A leaf after item p (or none) gave way to item it (or none).
exchanged(node, p, it) ==
  LET old == IF p = NULL THEN 0 ELSE HASH(p) * KeyHash[p.key]
      new == IF it = NULL THEN 0 ELSE HASH(it) * KeyHash[it.key]
  IN [node EXCEPT !.data = (@ \ {p}) \cup ({it} \ {NULL}),
                  !.hash = (@ + new - old) % HashRange,
                  !.count = @ + (IF it # NULL /\ it.ver > 0 THEN 1 ELSE 0)
                              - (IF p # NULL /\ p.ver > 0 THEN 1 ELSE 0)]

item_of(node, k) ==
  IF \E p \in node.data : p.key = k THEN CHOOSE p \in node.data : p.key = k ELSE NULL

\* A leaf is split when a new item makes it too large; the last level grows a
\* level below it only when it is asked to (enlarge) and has four times as much.
RECURSIVE add_item(_, _, _, _), split_node(_, _)
add_item(t, n, it, enlarge) ==
  LET l == leaf(t, n, it.key)
      p == item_of(t.node[l], it.key)
      t1 == [invalidated(t, n, l) EXCEPT !.node[l] = exchanged(@, p, it)]
      size == t1.node[l].count
  IN CASE p # NULL \/ size <= SPLIT_LIMIT -> t1
       [] p = NULL /\ size > SPLIT_LIMIT /\ Len(l) < t.height - 1 -> split_node(t1, l)
       [] p = NULL /\ size > SPLIT_LIMIT /\ Len(l) = t.height - 1 ->
            IF enlarge /\ t.height + TreeDepth < MAX_DEPTH /\ size > SPLIT_LIMIT * 4
            THEN split_node([t1 EXCEPT !.height = @ + 1], l) ELSE t1
split_node(t, n) ==
  LET t1 == [t EXCEPT !.node = [q \in Path |-> IF q \in child(n) THEN Cleared ELSE @[q]]]
      put(it, u) == add_item(u, Append(n, digit(it.key, Len(n))), it, FALSE)
      t2 == FoldSet(put, t1, t.node[n].data)
  IN [t2 EXCEPT !.node[n] = [@ EXCEPT !.is_node = TRUE, !.valid = FALSE, !.data = NULL]]

remove_item(t, k) ==
  LET l == leaf(t, <<>>, k)
      p == item_of(t.node[l], k)
      t1 == invalidated(t, <<>>, l)
  IN IF p = NULL THEN t1 ELSE [t1 EXCEPT !.node[l] = exchanged(@, p, NULL)]

\* Collects the live items of the children; tombstones are dropped.  What is left
\* of a child besides its data is cleared before it is used again.
merge_node(t, n) ==
  LET items == UNION {t.node[c].data : c \in child(n)}
      put(it, u) == add_item(u, n, it, FALSE)
      t1 == FoldSet(put, [t EXCEPT !.node[n] = Cleared], {it \in items : it.ver > 0})
  IN [t1 EXCEPT !.node = [q \in Path |-> IF q \in child(n) THEN Zero ELSE @[q]]]

\* Mutant: the order of the children counts for small nodes as well.
combined_small(t, n, count) ==
  FoldLeft(LAMBDA h, b : (h * 97 + t.node[Append(n, b)].hash) % HashRange,
           0, [i \in 1 .. BUCKET_SIZE |-> i - 1])

combined(t, n, count) ==
  FoldLeft(LAMBDA h, b : ((IF count > SPLIT_LIMIT * 4 THEN h * 97 ELSE h)
                            + t.node[Append(n, b)].hash) % HashRange,
           0, [i \in 1 .. BUCKET_SIZE |-> i - 1])

RECURSIVE update_node(_, _)
update_node(t, n) ==
  IF t.node[n].valid THEN t
  ELSE LET t1 == FoldSet(LAMBDA c, u : update_node(u, c), t, child(n))
           count == MapThenSumSet(LAMBDA c : t1.node[c].count, child(n))
           t2 == [t1 EXCEPT !.node[n] = [@ EXCEPT !.count = count, !.valid = TRUE,
                                                  !.hash = combined(t1, n, count)]]
       IN IF count <= SPLIT_LIMIT THEN merge_node(t2, n) ELSE t2

\* How far a directory leads down from the root.
RECURSIVE descend(_, _, _)
descend(t, n, dir) ==
  IF t.node[n].is_node /\ Len(n) < Len(dir) THEN descend(t, Append(n, dir[Len(n) + 1]), dir)
  ELSE n

\* Mutant: the digits of the directory are compared from the leaf's depth on
\* without the digits that led there.
files_shifted(node, dir, prefix) ==
  {it \in node.data : (dir # <<>> => digit(it.key, Len(dir) - 1) = dir[Len(dir)])
                      /\ (prefix = NULL \/ it.key \in prefix)}

\* The items a leaf has in the directory.
files(node, dir, prefix) ==
  {it \in node.data : it.key \in below(dir) /\ (prefix = NULL \/ it.key \in prefix)}

\* The answer is [dirs, files]: one of them is empty.  The node may have become
\* a leaf in update_node; it is listed as the inner node it was, through
\* children that no longer hold items.
RECURSIVE list_dir(_, _, _, _)
list_dir(t, n, dir, prefix) ==
  IF ~t.node[n].is_node
  THEN [tree |-> t, dirs |-> <<>>, files |-> files(t.node[n], dir, prefix)]
  ELSE LET t1 == update_node(t, n)
           count == t1.node[n].count
       IN IF count > ListLimit \/ (prefix = NULL /\ count > SPLIT_LIMIT * 4)
          THEN [tree |-> t1, files |-> {},
                dirs |-> [b \in Digit |-> [hash |-> t1.node[Append(n, b)].hash,
                                           count |-> t1.node[Append(n, b)].count]]]
          ELSE [tree |-> t1, dirs |-> <<>>,
                files |-> UNION {IF t1.node[c].data = NULL /\ ~t1.node[c].is_node THEN {}
                                 ELSE list_dir(t1, c, <<>>, prefix).files : c \in child(n)}]

ht_get(t, k) == item_of(t.node[leaf(t, <<>>, k)], k)

-----------------------------------------------------------------------------
Init == tree = ht_new /\ last = [k \in Key |-> NULL]

ht_add(it) ==
  /\ tree' = add_item(tree, <<>>, it, TRUE)
  /\ last' = [last EXCEPT ![it.key] = IF it.ver > 0 THEN it ELSE NULL]

ht_remove(k) ==
  /\ tree' = remove_item(tree, k)
  /\ last' = [last EXCEPT ![k] = NULL]

\* The caller gets the hash and the count of get_node_hash; the root has been
\* updated by then, so asking for a directory repairs nothing more.
ht_get_hash ==
  /\ tree' = update_node(tree, <<>>)
  /\ UNCHANGED last

ht_list(dir, prefix) ==
  /\ tree' = list_dir(tree, descend(tree, <<>>, dir), dir, prefix).tree
  /\ UNCHANGED last

Next == \/ \E it \in Item : ht_add(it)
        \/ \E k \in Key : ht_remove(k)
        \/ ht_get_hash
        \/ \E dir \in Dir, prefix \in PrefixSets \cup {NULL} : ht_list(dir, prefix)

Spec == Init /\ [][Next]_vars

-----------------------------------------------------------------------------
live == {k \in Key : last[k] # NULL}

\* The nodes that can be reached from the root.
reached == {n \in Path : \A d \in 0 .. Len(n) - 1 : tree.node[SubSeq(n, 1, d)].is_node}

TypeOK ==
  /\ tree.height \in 1 .. MAX_DEPTH - TreeDepth
  /\ tree.node \in [Path -> [is_node : BOOLEAN, valid : BOOLEAN, count : 0 .. Cardinality(Key),
                             hash : 0 .. HashRange - 1, data : (SUBSET Item) \cup {NULL}]]
  /\ last \in [Key -> Item \cup {NULL}]
  /\ \A n \in reached : Len(n) < tree.height

\* Splitting, merging and growing lose no item and confuse none: a key that was
\* last given a value is found with that value; one that was deleted is found as
\* deleted or, after a merge, not at all.
LookupIsLast ==
  \A k \in Key : LET r == ht_get(tree, k)
                 IN IF k \in live THEN r = last[k] ELSE r # NULL => r.ver < 0

\* Every leaf has room for items (add_item relies on it), and the cached count
\* and hash of every leaf and every valid inner node are those of the items
\* below it: what replicas compare is never out of date.
CachesAgree ==
  \A n \in reached :
    LET node == tree.node[n]
        here == live \cap below(n)
    IN /\ ~node.is_node =>
            /\ node.data # NULL /\ node.valid
            /\ node.hash = MapThenSumSet(LAMBDA k : KeyHash[k] * last[k].hash, here) % HashRange
       /\ node.valid => node.count = Cardinality(here)
       /\ node.is_node /\ node.valid =>
            /\ node.count > SPLIT_LIMIT /\ node.hash = combined(tree, n, node.count)
            /\ \A c \in child(n) : tree.node[c].valid

\* The tree somebody else builds from the live items.
rebuilt == FoldSet(LAMBDA k, t : add_item(t, <<>>, last[k], TRUE), ht_new, live)

root_hash(t) == update_node(t, <<>>).node[<<>>].hash

\* A replica that holds the same live items has the same hash at the root,
\* whatever the history of the two trees.
SameItemsSameHash == root_hash(tree) = root_hash(rebuilt)

\* No leaf above the last possible level has outgrown four times the limit.
grown(t) ==
  \A n \in Path : /\ ~t.node[n].is_node /\ t.node[n].data # NULL
                  /\ Len(n) < MAX_DEPTH - TreeDepth - 1
                  => t.node[n].count <= SPLIT_LIMIT * 4

\* ... provided that no leaf is still waiting to be split: the hash of a large
\* leaf is a sum, the hash of a large inner node is not.
GrownSameHash == grown(tree) /\ grown(rebuilt) => SameItemsSameHash

\* What the answer to "get @dir" must show: the live items of the directory, no
\* others, or its subdirectories with their numbers of items.
complete(answer, dir, prefix) ==
  LET wanted == {k \in live \cap below(dir) : prefix = NULL \/ k \in prefix}
  IN \/ {it \in answer.files : it.ver > 0} = {last[k] : k \in wanted}
     \/ /\ answer.dirs # <<>>
        /\ \A b \in Digit : answer.dirs[b].count = Cardinality(live \cap below(Append(dir, b)))

listed(t, dir, prefix) == list_dir(t, descend(t, <<>>, dir), dir, prefix)

\* "get @dir" lists the content of the tree.
ListIsComplete ==
  \A dir \in Dir, prefix \in PrefixSets \cup {NULL} : complete(listed(tree, dir, prefix), dir, prefix)

\* The second "get @dir" in a row lists the content of the tree: the first has
\* left the tree in order.
SecondListIsComplete ==
  \A dir \in Dir, prefix \in PrefixSets \cup {NULL} :
    complete(listed(listed(tree, dir, prefix).tree, dir, prefix), dir, prefix)
=============================================================================
