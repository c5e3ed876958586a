-------------------------------- MODULE Trees --------------------------------
(***************************************************************************)
(* The trees of two branches beside the flat file sets they stand for.     *)
(* Every operation that publishes a tree is applied to both: to the tree   *)
(* as TreeWriter does it, to the files as one would say it in a sentence.  *)
(*                                                                         *)
(* The branches start from one tree, are edited, and one is merged into    *)
(* the other; fork is the tree of their merge base.                        *)
(***************************************************************************)
EXTENDS TreeWriter

CONSTANTS
    Branches,   \* two of them
    Paths,      \* the file paths of the instance
    StartFiles, \* the file sets a repository may start with
    Changes,    \* records [adds, removed]: staged changes, rm, mv, import
    Works,      \* records [worktree, adds, removed]: full commits
    MaxEdits    \* bound: edits and full commits, over both branches

VARIABLES
    tree,    \* the root node of each branch
    files,   \* what it should hold: a function from paths to contents
    fork,    \* the merge base: [tree, files]
    edits,   \* changes made so far
    last,    \* what the last step did
    refused, \* validate_tree_node refused a node
    known    \* history: the ways of section 4 of the README met so far

vars == <<tree, files, fork, edits, last, refused, known>>

Dirs == UNION {{SubSeq(p, 1, k) : k \in 0 .. Len(p) - 1} : p \in Paths}

\* bound: a directory has at most as many names as two levels of nodes hold
Fits(f) ==
    \A d \in Dirs :
        Cardinality({p[Len(d) + 1] : p \in {q \in DOMAIN f : Within(q, d) /\ q # d}})
            <= MaxEntries * MaxEntries

(***************************************************************************)
(* The two known ways a tree goes wrong, recognised by what causes them.   *)
(***************************************************************************)
NestedShards(node) ==
    \E t \in TreeHashes(node) : \E e \in Entries(t) : e.kind = "shard" /\ AnyShard(e.body)

\* a removal below the directory a, where a shard of a's own directory
\* starts with a name that extends a
PruneMisses(node, removed) ==
    \E p \in removed : \E k \in 1 .. Len(p) - 1 :
        LET dir == ResolveDirectory(node, SubSeq(p, 1, k - 1))
        IN  /\ dir # None
            /\ \E i \in DOMAIN dir : /\ dir[i].kind = "shard"
                                     /\ <<dir[i].name, p[k]>> \in Extends

(***************************************************************************)
(* Actions.                                                                *)
(***************************************************************************)
Init ==
    \E f \in StartFiles :
        LET root == BuildFromEntries(f)
        IN  /\ tree = [b \in Branches |-> root]
            /\ files = [b \in Branches |-> f]
            /\ fork = [tree |-> root, files |-> f]
            /\ edits = 0
            /\ last = "start"
            /\ refused = FALSE
            /\ known = {}

\* the new root of b, unless a node of it is refused: then nothing happens
Publish(b, node, content, cause) ==
  /\ Fits(content)
  /\ IF \A t \in TreeHashes(node) : ValidNode(t)
     THEN /\ tree' = [tree EXCEPT ![b] = node]
          /\ files' = [files EXCEPT ![b] = content]
          /\ known' = known \union cause \union
                        (IF NestedShards(node) THEN {"nested"} ELSE {})
          /\ UNCHANGED refused
     ELSE refused' = TRUE /\ UNCHANGED <<tree, files, known>>

\* commit --staged, import, rm, mv, promote; staging has one change per path
Edit(b) ==
    \E c \in Changes :
        /\ edits < MaxEdits
        /\ PrefixFree(DOMAIN c.adds) /\ DOMAIN c.adds \intersect c.removed = {}
        /\ Publish(b, SpliceTree(tree[b], c.adds, c.removed),
                   FlatSplice(files[b], c.adds, c.removed), {})
        /\ edits' = edits + 1
        /\ last' = "edit"
        /\ UNCHANGED fork

\* commit; additions that clash in one splice raise a ValueError
FullCommit(b) ==
    \E w \in Works :
        LET kept == {q \in DOMAIN w.worktree : ~PathIsRemoved(q, w.removed)}
            root == Unpruned(w.worktree, tree[b], w.adds, w.removed)
        IN  /\ edits < MaxEdits
            /\ PrefixFree(DOMAIN w.worktree)
            /\ PrefixFree(LateAdds(kept, DOMAIN w.adds))
            /\ DOMAIN w.adds \intersect w.removed = {}
            /\ Fits(FlatSplice(files[b], Over(w.worktree, w.adds), {}))
            /\ Publish(b, BuildWorktree(w.worktree, tree[b], w.adds, w.removed),
                       FlatCommit(files[b], w.worktree, w.adds, w.removed),
                       IF PruneMisses(root, w.removed) THEN {"prune"} ELSE {})
            /\ edits' = edits + 1
            /\ last' = "commit"
            /\ UNCHANGED fork

\* a failed assertion and a conflict both end the merge
Merge(b, other) ==
    LET merged == ThreeWayMerge(fork.tree, tree[b], tree[other])
    IN  /\ b # other
        /\ last # "merge"
        /\ ~merged.fails /\ merged.conflicts = {}
        /\ Publish(b, merged.result, FlatMerge(fork.files, files[b], files[other]), {})
        /\ fork' = [tree |-> tree[other], files |-> files[other]]
        /\ last' = "merge"
        /\ UNCHANGED edits

Next ==
    \E b \in Branches :
        \/ Edit(b)
        \/ FullCommit(b)
        \/ \E other \in Branches : Merge(b, other)

Spec == Init /\ [][Next]_vars

-------------------------------------------------------------------------------
(***************************************************************************)
(* Properties.                                                             *)
(***************************************************************************)
\* Every node is sorted and fits, only the root is empty, and a sharded
\* directory holds shards alone, each within its range of names (SoundNode);
\* so the guard that refuses to publish an unreadable node never fires.
TypeOK ==
    /\ known \subseteq {"nested", "prune"}
    /\ edits \in 0 .. MaxEdits
    /\ last \in {"start", "edit", "commit", "merge"}
    /\ known = {} => ~refused
    /\ known = {} => \A b \in Branches :
         /\ DOMAIN files[b] \subseteq Paths /\ PrefixFree(DOMAIN files[b])
         /\ \A t \in TreeHashes(tree[b]) : SoundNode(t)

\* Whatever the order of staged commits, full commits, moves, removals and
\* merges, each tree holds exactly the files it should: no path is lost,
\* left behind or duplicated when ranges split, empty or are repacked.
TreesHoldTheFiles ==
    known = {} => \A b \in Branches :
        /\ FilesOf(tree[b]) = files[b]
        /\ Len(AllEntries(tree[b])) = Cardinality(DOMAIN files[b])

\* Exact lookups, prefix listings and directory listings agree with the
\* full walk, whatever the layout: no name hides before, between or after
\* the ranges of a sharded directory.  diff_trees reports exactly the paths
\* that differ, also between trees of different layout and where a file
\* became a directory.
ReadsAgree ==
    known = {} => \A b \in Branches :
      /\ \A other \in Branches :
           DiffTrees(tree[b], tree[other], <<>>) = FlatDiff(files[b], files[other])
      /\ \A p \in Paths \union Dirs :
        /\ LookupEntry(tree[b], p) = At(files[b], p)
        /\ LeafRefs(tree[b]) = {files[b][q] : q \in DOMAIN files[b]}
        /\ {pair.path : pair \in ToSet(EntriesForPrefix(tree[b], <<>>, p))}
             = {q \in DOMAIN files[b] : Within(q, p)}
        /\ LET children == ParentChildren(tree[b], Nothing, p)
           IN  DOMAIN children
                 = {q[Len(p) + 1] : q \in {r \in DOMAIN files[b] : Within(r, p) /\ r # p}}

\* A merge that reports no conflict is the per-path merge, and there was
\* none to report; where it reports one, both sides have another node than
\* the base and at least one of them has other files.  (Not both: a node
\* that was only laid out anew counts as changed.)  The assertion of
\* _merge_child fails only where both branches deleted one name of a
\* directory they both changed.  The rules favour no side: which branch is
\* merged into which does not change the verdict.
NodesAt(node, p) == <<LookupEntry(node, p), ResolveDirectory(node, p)>>

MergeIsSound ==
    known = {} => \A b \in Branches : \A other \in Branches \ {b} :
        LET merged == ThreeWayMerge(fork.tree, tree[b], tree[other])
            back == ThreeWayMerge(fork.tree, tree[other], tree[b])
            conflicts == FlatConflicts(fork.files, files[b], files[other])
            flat == FlatMerge(fork.files, files[b], files[other])
        IN  /\ merged.fails = back.fails
            /\ merged.fails =>
                 \E p \in DOMAIN fork.files : p \notin DOMAIN files[b] \union DOMAIN files[other]
            /\ ~merged.fails =>
                 /\ merged.conflicts = back.conflicts
                 /\ IF merged.conflicts = {}
                    THEN /\ conflicts = {} /\ PrefixFree(DOMAIN flat)
                         /\ FilesOf(merged.result) = flat
                    ELSE \A c \in merged.conflicts :
                           /\ \A side \in {b, other} :
                                NodesAt(tree[side], c) # NodesAt(fork.tree, c)
                           /\ \E side \in {b, other} :
                                \E p \in Changed(fork.files, files[side]) : Within(p, c)

\* A staged commit shares every directory it does not change with the
\* tree it starts from: the same node, so nothing is read or written there.
EditsShareTheRest ==
    [][last' = "edit" /\ known' = {} =>
        \A b \in Branches : \A d \in Dirs :
            (\A p \in Changed(files[b], files'[b]) : ~Within(p, d))
                => ResolveDirectory(tree'[b], d) = ResolveDirectory(tree[b], d)]_vars
=============================================================================
