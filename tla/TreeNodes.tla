------------------------------ MODULE TreeNodes ------------------------------
(***************************************************************************)
(* Trees of directory nodes and how they are read (core/objects/query.py,  *)
(* services/tree_inspect.py).  A walk that skips a hash skips an equal     *)
(* node.                                                                   *)
(***************************************************************************)
EXTENDS Directories

ByName(entries) == SortSeq(entries, LAMBDA d, e : d.name < e.name)

RECURSIVE TreeHashes(_)
TreeHashes(node) ==
    {node} \union UNION {TreeHashes(e.body) : e \in {d \in Entries(node) : IsSubtree(d)}}

(***************************************************************************)
(* TreeWalker.                                                             *)
(***************************************************************************)
RECURSIVE ResolveDirectory(_, _)
ResolveDirectory(node, path) ==
    IF path = <<>> THEN node
    ELSE LET target == Descend(ExpandShards(node), Head(path))
         IN  IF target = None THEN None
             ELSE IF ~IsSubtree(target) THEN None
             ELSE ResolveDirectory(target.body, Tail(path))

RECURSIVE LookupEntry(_, _)
LookupEntry(node, path) ==
    IF path = <<>> THEN None
    ELSE LET target == Descend(node, Head(path))
         IN  IF target = None THEN None
             ELSE CASE target.kind = "tree" -> LookupEntry(target.body, Tail(path))
                    [] target.kind = "shard" -> LookupEntry(target.body, path)
                    [] OTHER -> IF Len(path) = 1 THEN target.body ELSE None

ChildPath(prefix, e) == IF e.kind = "shard" THEN prefix ELSE Append(prefix, e.name)

\* leaves below node in walk order, as path and body; subtrees that cannot
\* hold a path within wanted are skipped
RECURSIVE EntriesForPrefix(_, _, _)
EntriesForPrefix(node, prefix, wanted) ==
    FlattenSeq([i \in DOMAIN node |->
        LET e == node[i]
            at == ChildPath(prefix, e)
        IN  IF IsSubtree(e)
            THEN IF Within(at, wanted) \/ Within(wanted, at)
                 THEN EntriesForPrefix(e.body, at, wanted) ELSE <<>>
            ELSE IF Within(at, wanted) THEN <<[path |-> at, body |-> e.body]>> ELSE <<>>])

AllEntries(node) == EntriesForPrefix(node, <<>>, <<>>)

\* the files of a node as path -> content
FilesOf(node) ==
    LET found == ToSet(AllEntries(node))
    IN  [p \in {pair.path : pair \in found} |->
            (CHOOSE pair \in found : pair.path = p).body]

(***************************************************************************)
(* TreeInspector.                                                          *)
(***************************************************************************)
LeafRefs(node) == {pair.body : pair \in ToSet(AllEntries(node))}

\* a change of one kind for an entry and, if it is a subtree, its leaves
Emit(path, e, change) ==
    IF ~IsSubtree(e) THEN {[path |-> path, change |-> change]}
    ELSE {[path |-> path \o pair.path, change |-> change] :
             pair \in ToSet(AllEntries(e.body))}

RECURSIVE DiffTrees(_, _, _)
DiffTrees(from, to, prefix) ==
    IF from = to THEN {}
    ELSE UNION {
        LET before == ChildNamed(from, n)
            after == ChildNamed(to, n)
            path == Append(prefix, n)
        IN  IF before = None THEN Emit(path, after, "added")
            ELSE IF after = None THEN Emit(path, before, "removed")
            ELSE IF IsSubtree(before) /\ IsSubtree(after)
                 THEN DiffTrees(before.body, after.body, path)
            ELSE IF IsSubtree(before) \/ IsSubtree(after)
                 THEN Emit(path, before, "removed") \union Emit(path, after, "added")
            ELSE IF before.body # after.body
                 THEN {[path |-> path, change |-> "modified"]}
            ELSE {} :
        n \in EntryNames(Entries(ExpandShards(from)) \union Entries(ExpandShards(to)))}
=============================================================================
