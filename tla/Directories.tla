----------------------------- MODULE Directories -----------------------------
(***************************************************************************)
(* One directory of a tree: its node, how a name is found in it, and how   *)
(* it is laid out over several nodes (core/objects/tree.py and query.py,   *)
(* and the parts of core/services/tree.py about one directory).            *)
(*                                                                         *)
(* A node is a sequence of entries sorted by name.  An entry is a leaf, a  *)
(* subdirectory or a shard: a name range of the SAME directory, split off  *)
(* because the directory outgrew one node.  Objects are content-addressed, *)
(* so a node stands for its own hash.  The body of a leaf stands for its   *)
(* kind, hash and size.                                                    *)
(*                                                                         *)
(* Nothing here is recursive: what is below a subdirectory is the business *)
(* of TreeNodes and TreeWriter, which are built from these operators.      *)
(***************************************************************************)
EXTENDS FilePaths, SequencesExt

CONSTANT MaxEntries \* MAX_TREE_ENTRIES

ASSUME DirectoriesAssumption == MaxEntries \in Nat \ {0, 1}

Leaf(n, c) == [name |-> n, kind |-> "leaf", body |-> c]
Subtree(n, t) == [name |-> n, kind |-> "tree", body |-> t]
Shard(n, t) == [name |-> n, kind |-> "shard", body |-> t]

IsSubtree(e) == e.kind # "leaf"
Entries(node) == ToSet(node)
EntryNames(entries) == {e.name : e \in entries}
AnyShard(node) == \E e \in Entries(node) : e.kind = "shard"
AllShards(node) == \A e \in Entries(node) : e.kind = "shard"

(***************************************************************************)
(* What validate_tree_node refuses to publish: names out of order or       *)
(* twice.                                                                  *)
(***************************************************************************)
ValidNode(node) == \A i \in 1 .. Len(node) - 1 : node[i].name < node[i + 1].name

(***************************************************************************)
(* Reading.                                                                *)
(***************************************************************************)
\* mutant of Descend: names inside a shard are not looked for
DescendExact(node, n) ==
    LET exact == {i \in DOMAIN node : node[i].name = n}
    IN  IF exact = {} THEN None ELSE node[CHOOSE i \in exact : \A j \in exact : i <= j]

\* the entry to go down into for a name: its own, or the shard before it
Descend(node, n) ==
    LET exact == {i \in DOMAIN node : node[i].name = n}
        before == {i \in DOMAIN node : node[i].name < n}
        last == CHOOSE i \in before : \A j \in before : j <= i
    IN  IF exact # {} THEN node[CHOOSE i \in exact : \A j \in exact : i <= j]
        ELSE IF before # {} /\ node[last].kind = "shard" THEN node[last]
        ELSE None

\* one pass: "Shards never nest"
ExpandShards(node) ==
    FlattenSeq([i \in DOMAIN node |->
                   IF node[i].kind = "shard" THEN node[i].body ELSE <<node[i]>>])

ChildNamed(node, n) ==
    LET hits == {e \in Entries(ExpandShards(node)) : e.name = n}
    IN  IF hits = {} THEN None ELSE CHOOSE e \in hits : TRUE

(***************************************************************************)
(* Splitting.                                                              *)
(***************************************************************************)
CeilDiv(a, b) == (a + b - 1) \div b
Least(a, b) == IF a < b THEN a ELSE b

Chunks(seq, size) ==
    [i \in 1 .. CeilDiv(Len(seq), size) |->
        SubSeq(seq, (i - 1) * size + 1, Least(i * size, Len(seq)))]

AsShard(body) == Shard(body[1].name, body)
AsShards(bodies) == [i \in DOMAIN bodies |-> AsShard(bodies[i])]

\* a directory that outgrew one node
Split(entries) == AsShards(Chunks(entries, MaxEntries))

\* a range that was rewritten: gone, one shard, or several of equal size
SplitEvenly(entries) ==
    LET groups == CeilDiv(Len(entries), MaxEntries)
    IN  IF entries = <<>> THEN <<>>
        ELSE AsShards(Chunks(entries, CeilDiv(Len(entries), groups)))

(***************************************************************************)
(* Rewriting some ranges of a sharded directory.                           *)
(***************************************************************************)
\* mutant of ShardIndex: bisect_left, a boundary name goes to the range before
ShardIndexLeft(node, n) ==
    LET shards == {i \in DOMAIN node : node[i].kind = "shard"}
        before == {i \in shards : node[i].name < n}
    IN  IF before = {} THEN CHOOSE i \in shards : \A j \in shards : i <= j
        ELSE CHOOSE i \in before : \A j \in before : j <= i

\* the shard of a name; the first one absorbs the names before it
ShardIndex(node, n) ==
    LET shards == {i \in DOMAIN node : node[i].kind = "shard"}
        before == {i \in shards : node[i].name <= n}
    IN  IF before = {} THEN CHOOSE i \in shards : \A j \in shards : i <= j
        ELSE CHOOSE i \in before : \A j \in before : j <= i

\* parts: what replaces the entries at its indices, entries each
ReplaceRanges(node, parts) ==
    FlattenSeq([i \in DOMAIN node |->
                   IF i \in DOMAIN parts THEN parts[i] ELSE <<node[i]>>])

SameNumberOfRanges(a, b) == Len(a) = Len(b) \* mutant of SameRanges
SameRanges(a, b) ==
    Len(a) = Len(b) /\ \A i \in DOMAIN a : a[i].name = b[i].name

(***************************************************************************)
(* The layout every reader relies on: a node is sorted and fits, no        *)
(* subdirectory or range is empty, and a sharded directory holds shards    *)
(* alone, each within its range of names and none in another.              *)
(***************************************************************************)
SoundNode(node) ==
    /\ ValidNode(node)
    /\ Len(node) <= MaxEntries
    /\ \A e \in Entries(node) : IsSubtree(e) => e.body # <<>>
    /\ AnyShard(node) =>
         /\ AllShards(node)
         /\ \A i \in DOMAIN node : \A e \in Entries(node[i].body) :
              /\ e.kind # "shard" /\ e.name >= node[i].name
              /\ i < Len(node) => e.name < node[i + 1].name
=============================================================================
