----------------------------- MODULE TreeWriter -----------------------------
(***************************************************************************)
(* TreeWriter (core/services/tree.py): building a tree from a sorted       *)
(* stream or from a worktree, splicing additions and removals into a       *)
(* tree, pruning, and the three-way merge.  Additions are functions from   *)
(* paths to contents, removals are sets of path prefixes.                  *)
(*                                                                         *)
(* validate_tree_node raises on a node with unsorted or repeated names;    *)
(* here such a node is built, and the caller looks at it.  Writing a node  *)
(* that exists already is a no-op of the store and skip_hashes avoids it:  *)
(* neither shows in the result.                                            *)
(***************************************************************************)
EXTENDS TreeNodes

Nothing == [p \in {} |-> None]

RECURSIVE BuildChildren(_)
BuildChildren(children) ==
    LET sorted == ByName(children)
    IN  IF Len(sorted) <= MaxEntries THEN sorted
        ELSE BuildChildren(Split(sorted))

OrNone(children) == IF children = <<>> THEN None ELSE BuildChildren(children)
OrEmpty(node) == IF node = None THEN <<>> ELSE node

(***************************************************************************)
(* The builder: files arrive directory by directory, a stack of frames is  *)
(* open along the current path, and a frame that closes becomes a subtree  *)
(* of the one below it.  A worktree build gives each frame the children    *)
(* the parent commit (and the staged additions) have in that directory.    *)
(***************************************************************************)
ParentChildren(parent, adds, dir) ==
    LET node == IF parent = None THEN None ELSE ResolveDirectory(parent, dir)
        old == IF node = None THEN <<>> ELSE ExpandShards(node)
        names == EntryNames(Entries(old))
        added == {p \in DOMAIN adds : Dir(p) = dir}
    IN  [n \in names \union {Base(p) : p \in added} |->
            IF Append(dir, n) \in added THEN Leaf(n, adds[Append(dir, n)])
            ELSE CHOOSE e \in Entries(old) : e.name = n]

\* mutant of MergeParentChildren: what the worktree lacks is dropped
OnlyOwnChildren(children, parent) == ByName(children)

MergeParentChildren(children, parent) ==
    LET extra == DOMAIN parent \ EntryNames(Entries(children))
    IN  ByName(children \o [i \in 1 .. Cardinality(extra) |->
                               parent[InOrder(extra, <)[i]]])

\* st: stack of frames [dir, children, parent], root children, opened dirs
CloseFrame(st) ==
    LET top == st.stack[Len(st.stack)]
        below == Dir(st.stack)
        merged == MergeParentChildren(top.children, top.parent)
        built == <<Subtree(Base(top.dir), BuildChildren(merged))>>
    IN  IF merged = <<>> THEN [st EXCEPT !.stack = below]
        ELSE IF below = <<>> THEN [st EXCEPT !.stack = below, !.root = @ \o built]
        ELSE [st EXCEPT !.stack = [below EXCEPT ![Len(below)].children = @ \o built]]

RECURSIVE CloseDownTo(_, _)
CloseDownTo(st, depth) ==
    IF Len(st.stack) <= depth THEN st ELSE CloseDownTo(CloseFrame(st), depth)

OpenFrames(st, dir, parent, adds) ==
    LET depth == Cardinality({i \in DOMAIN st.stack : Within(dir, st.stack[i].dir)})
        fresh == [i \in 1 .. Len(dir) - depth |->
                    [dir |-> SubSeq(dir, 1, depth + i), children |-> <<>>,
                     parent |-> ParentChildren(parent, adds, SubSeq(dir, 1, depth + i))]]
    IN  [CloseDownTo(st, depth) EXCEPT
            !.stack = @ \o fresh,
            !.opened = @ \union {fresh[i].dir : i \in DOMAIN fresh}]

AddFile(st, path, content, parent, adds) ==
    LET leaf == <<Leaf(Base(path), content)>>
        open == OpenFrames(st, Dir(path), parent, adds)
    IN  IF Dir(path) = <<>> THEN [st EXCEPT !.root = @ \o leaf]
        ELSE [open EXCEPT !.stack[Len(open.stack)].children = @ \o leaf]

RECURSIVE AddFiles(_, _, _, _, _)
AddFiles(st, paths, files, parent, adds) ==
    IF paths = <<>> THEN CloseDownTo(st, 0)
    ELSE AddFiles(AddFile(st, Head(paths), files[Head(paths)], parent, adds),
                  Tail(paths), files, parent, adds)

NoFrames == [stack |-> <<>>, root |-> <<>>, opened |-> {<<>>}]

BuildFromEntries(files) ==
    BuildChildren(AddFiles(NoFrames, InOrder(DOMAIN files, PathLess), files,
                           None, Nothing).root)
(***************************************************************************)
(* splice_tree: rewrite only the directories, and of a sharded directory   *)
(* only the ranges, that an addition or a removal touches.                 *)
(***************************************************************************)
AddsBelow(adds, path) == {p \in DOMAIN adds : Within(p, path) /\ p # path}
AddedNames(adds, dir) == {p[Len(dir) + 1] : p \in AddsBelow(adds, dir)}
TouchedNames(dir, adds, removed) ==
    AddedNames(adds, dir) \union
    {p[Len(dir) + 1] : p \in {q \in removed : Within(q, dir) /\ q # dir}}

RECURSIVE SpliceDirectory(_, _, _, _)

\* what an entry becomes: <<>> or one entry, and whether that is a change
SpliceEntry(dir, e, adds, removed) ==
    LET full == Append(dir, e.name)
        gone == PathIsRemoved(full, removed)
        below == AddsBelow(adds, full) # {}
        inside == \E p \in removed : Within(p, full)
        spliced(node) == SpliceDirectory(full, node, adds, removed)
        AsSubtree(node) ==
            IF node = None THEN <<>> ELSE <<Subtree(e.name, node)>>
    IN  IF full \in DOMAIN adds
        THEN [kept |-> <<Leaf(e.name, adds[full])>>, changed |-> TRUE]
        ELSE IF ~IsSubtree(e)
        THEN [kept |-> IF below THEN AsSubtree(spliced(None))
                       ELSE IF gone THEN <<>> ELSE <<e>>,
              changed |-> below \/ gone]
        ELSE IF gone /\ ~below THEN [kept |-> <<>>, changed |-> TRUE]
        ELSE IF ~gone /\ ~inside /\ ~below THEN [kept |-> <<e>>, changed |-> FALSE]
        ELSE LET node == spliced(IF gone THEN None ELSE e.body)
             IN  [kept |-> AsSubtree(node), changed |-> node # e.body]

SpliceChildren(dir, entries, adds, removed) ==
    LET each == [i \in DOMAIN entries |-> SpliceEntry(dir, entries[i], adds, removed)]
        fresh == InOrder(AddedNames(adds, dir) \ EntryNames(Entries(entries)), <)
        new == [i \in DOMAIN fresh |->
                  LET full == Append(dir, fresh[i])
                  IN  IF full \in DOMAIN adds THEN Leaf(fresh[i], adds[full])
                      ELSE Subtree(fresh[i], SpliceDirectory(full, None, adds, removed))]
    IN  [kept |-> FlattenSeq([i \in DOMAIN each |-> each[i].kept]) \o new,
         changed |-> fresh # <<>> \/ \E i \in DOMAIN each : each[i].changed]

SpliceSharded(dir, node, adds, removed) ==
    LET touched == {i \in DOMAIN node :
                      \E n \in TouchedNames(dir, adds, removed) : ShardIndex(node, n) = i}
        part(i) == {p \in AddsBelow(adds, dir) : ShardIndex(node, p[Len(dir) + 1]) = i}
        body == [i \in touched |->
                   SpliceChildren(dir, node[i].body, [p \in part(i) |-> adds[p]], removed)]
        changed == {i \in touched : body[i].changed}
        kept == ReplaceRanges(node, [i \in changed |-> SplitEvenly(ByName(body[i].kept))])
        whole == SpliceChildren(dir, ExpandShards(node), adds, removed)
    IN  IF kept = <<>> THEN None
        ELSE IF changed = {} THEN node
        ELSE IF Len(kept) > MaxEntries THEN OrNone(whole.kept)
        ELSE BuildChildren(kept)

SpliceDirectory(dir, node, adds, removed) ==
    IF node # None /\ AnyShard(OrEmpty(node)) /\ Len(OrEmpty(node)) <= MaxEntries
    THEN SpliceSharded(dir, node, adds, removed)
    ELSE LET result == SpliceChildren(dir, ExpandShards(OrEmpty(node)), adds, removed)
         IN  IF result.kept = <<>> THEN None
             ELSE IF ~result.changed /\ node # None THEN node
             ELSE BuildChildren(result.kept)

\* mutant of SpliceTree: the manifest is flattened and built anew
SpliceByRebuild(parent, adds, removed) ==
    LET old == FilesOf(OrEmpty(parent))
        kept == {p \in DOMAIN old :
                   ~PathIsRemoved(p, removed) /\ ~PathIsRemoved(p, DOMAIN adds)
                   /\ AddsBelow(adds, p) = {}}
    IN  BuildFromEntries(Over(adds, Only(old, kept)))

SpliceTree(parent, adds, removed) ==
    IF parent = None THEN BuildFromEntries(adds)
    ELSE OrEmpty(SpliceDirectory(<<>>, parent, adds, removed))
(***************************************************************************)
(* Staged removals of a full commit: drop what lies under a prefix, shard  *)
(* by shard.  The range of the names a removal can touch is computed on    *)
(* the path string below dir, (rel, rel + U+10FFFF); the upper end counts  *)
(* every name that extends rel.                                            *)
(***************************************************************************)
RemovalRange(rel, low, up) ==
    /\ up = None \/ PathLess(rel, <<up>>)
    /\ \/ PathLess(<<low>>, rel)
       \/ <<low>> = rel
       \/ Len(rel) = 1 /\ <<low, rel[1]>> \in Extends

RECURSIVE PruneNode(_, _, _)

PruneEntry(dir, e, removed) ==
    LET full == Append(dir, e.name)
        node == PruneNode(full, e.body, removed)
    IN  IF PathIsRemoved(full, removed) THEN <<>>
        ELSE IF IsSubtree(e) /\ \E p \in removed : Within(p, full)
        THEN IF node = None THEN <<>> ELSE <<[e EXCEPT !.body = node]>>
        ELSE <<e>>

PruneChildren(dir, entries, removed) ==
    FlattenSeq([i \in DOMAIN entries |-> PruneEntry(dir, entries[i], removed)])

PruneNode(dir, node, removed) ==
    LET rels == {SubSeq(p, Len(dir) + 1, Len(p)) :
                    p \in {q \in removed : Within(q, dir) /\ q # dir}}
        touched(i) ==
            /\ node[i].kind = "shard"
            /\ \E rel \in rels :
                  RemovalRange(rel, node[i].name,
                               IF i < Len(node) THEN node[i + 1].name ELSE None)
        body(i) == PruneChildren(dir, node[i].body, removed)
        changed == {i \in DOMAIN node : touched(i) /\ body(i) # node[i].body}
        shards == ReplaceRanges(node,
                      [i \in changed |-> IF body(i) = <<>> THEN <<>>
                                         ELSE <<AsShard(ByName(body(i)))>>])
        kept == IF AnyShard(node) THEN shards ELSE PruneChildren(dir, node, removed)
    IN  IF kept = node THEN node ELSE OrNone(kept)

(***************************************************************************)
(* build_worktree_tree: the worktree's files over the parent's and the     *)
(* staged additions', then the prune, then the additions whose directory   *)
(* holds no worktree file.                                                 *)
(***************************************************************************)
WorktreeFrames(worktree, parent, adds, removed) ==
    AddFiles(NoFrames,
             InOrder({p \in DOMAIN worktree : ~PathIsRemoved(p, removed)}, WalkLess),
             worktree, parent, adds)

Unpruned(worktree, parent, adds, removed) ==
    BuildChildren(MergeParentChildren(WorktreeFrames(worktree, parent, adds, removed).root,
                                      ParentChildren(parent, adds, <<>>)))

BuildWorktree(worktree, parent, adds, removed) ==
    LET root == Unpruned(worktree, parent, adds, removed)
        pruned == IF removed = {} THEN root ELSE OrEmpty(PruneNode(<<>>, root, removed))
        opened == WorktreeFrames(worktree, parent, adds, removed).opened
        late == {p \in DOMAIN adds : Dir(p) \notin opened}
    IN  IF late = {} THEN pruned
        ELSE SpliceTree(pruned, [p \in late |-> adds[p]], {})

(***************************************************************************)
(* three_way_merge, by directory node: equal hashes decide whole subtrees. *)
(* The result is a node (None: empty), the conflicting paths, and whether  *)
(* the assertion of _merge_child failed on the way, which ends the merge.  *)
(***************************************************************************)
Clean(result) == [result |-> result, conflicts |-> {}, fails |-> FALSE]
Conflict(path, result) == [result |-> result, conflicts |-> {path}, fails |-> FALSE]

\* what a directory gets from the merges of its parts
Joined(parts, result) ==
    [result |-> result,
     conflicts |-> UNION {parts[i].conflicts : i \in DOMAIN parts},
     fails |-> \E i \in DOMAIN parts : parts[i].fails]

Present(results) == FlattenSeq([i \in DOMAIN results |->
                       IF results[i].result = None THEN <<>> ELSE <<results[i].result>>])

RECURSIVE MergeDirectory(_, _, _, _)

\* base, ours and theirs are entries or None
MergeChild(path, base, ours, theirs) ==
    LET either == IF ours # None THEN ours ELSE theirs
        AsEntry(merged) ==
            [merged EXCEPT !.result = IF @ = None THEN None ELSE Subtree(ours.name, @)]
        body(e) == IF e = None THEN None ELSE IF IsSubtree(e) THEN e.body ELSE None
    IN  IF ours = None /\ theirs = None
        THEN [result |-> None, conflicts |-> {}, fails |-> TRUE]
        ELSE IF ours = theirs THEN Clean(ours)
        ELSE IF ours = None \/ theirs = None
        THEN IF base = None THEN Clean(either)
             ELSE IF either = base THEN Clean(None)
             ELSE Conflict(path, either)
        ELSE IF ours = base THEN Clean(theirs)
        ELSE IF theirs = base THEN Clean(ours)
        ELSE IF IsSubtree(ours) /\ IsSubtree(theirs)
        THEN AsEntry(MergeDirectory(path, body(base), ours.body, theirs.body))
        ELSE Conflict(path, ours)

ShardsAlign(base, ours, theirs) ==
    /\ base # None
    /\ AllShards(base) /\ AllShards(ours) /\ AllShards(theirs)
    /\ SameRanges(ours, theirs) /\ SameRanges(base, theirs)

\* range by range, when no side has rebalanced its ranges
MergeSharded(dir, base, ours, theirs) ==
    LET ranges == [i \in DOMAIN ours |->
                    MergeDirectory(dir, base[i].body, ours[i].body, theirs[i].body)]
        parts == [i \in DOMAIN ours |->
                    IF ranges[i].result = None THEN <<>>
                    ELSE <<Shard(ours[i].name, ranges[i].result)>>]
    IN  Joined(ranges, OrNone(ReplaceRanges(ours, parts)))

MergeChildren(dir, base, ours, theirs) ==
    LET names == InOrder(EntryNames(UNION {Entries(ExpandShards(OrEmpty(node))) :
                                              node \in {base, ours, theirs}}), <)
        child(node, i) == IF node = None THEN None ELSE ChildNamed(node, names[i])
        merged == [i \in DOMAIN names |->
                    MergeChild(Append(dir, names[i]), child(base, i),
                               child(ours, i), child(theirs, i))]
    IN  Joined(merged, OrNone(Present(merged)))

MergeDirectory(dir, base, ours, theirs) ==
    IF ours = theirs THEN Clean(ours)
    ELSE IF ours = base THEN Clean(theirs)
    ELSE IF theirs = base THEN Clean(ours)
    ELSE IF ours = None \/ theirs = None
    THEN Conflict(dir, IF ours # None THEN ours ELSE theirs)
    ELSE IF ShardsAlign(base, ours, theirs)
    THEN MergeSharded(dir, base, ours, theirs)
    ELSE MergeChildren(dir, base, ours, theirs)

ThreeWayMerge(base, ours, theirs) ==
    LET merged == MergeDirectory(<<>>, base, ours, theirs)
    IN  [merged EXCEPT !.result = OrEmpty(@)]
=============================================================================
