------------------------------ MODULE FilePaths ------------------------------
(***************************************************************************)
(* Logical paths, and sets of files as functions from paths to contents.   *)
(*                                                                         *)
(* A name is a number, its place in name order.  Paths are sequences of    *)
(* names.  The order of path STRINGS is not the order of the walk: if b    *)
(* extends a by a character below '/' (a and a.csv, say) then a < b but    *)
(* b < a/x.  Extends holds those pairs <<b, a>>; no other name of an       *)
(* instance extends another.                                               *)
(***************************************************************************)
EXTENDS Naturals, Sequences, FiniteSets

CONSTANTS
    Extends,
    None        \* no content, no entry, no node

\* as of strings: what is between a name and one that extends it also does,
\* and what extends an extension extends the name
ASSUME FilePathsAssumption ==
    /\ Extends \subseteq Nat \X Nat
    /\ \A pair \in Extends : pair[1] > pair[2]
    /\ \A pair \in Extends : \A b \in pair[2] + 1 .. pair[1] - 1 : <<b, pair[2]>> \in Extends
    /\ \A x, y \in Extends : x[2] = y[1] => <<x[1], y[2]>> \in Extends

(***************************************************************************)
(* Paths.                                                                  *)
(***************************************************************************)
Within(path, prefix) ==
    /\ Len(prefix) <= Len(path)
    /\ SubSeq(path, 1, Len(prefix)) = prefix

Dir(path) == SubSeq(path, 1, Len(path) - 1)
Base(path) == path[Len(path)]

\* path or one of its ancestors is in removed
PathIsRemoved(path, removed) == \E prefix \in removed : Within(path, prefix)

FirstDifference(p, q) ==
    CHOOSE i \in 1 .. Len(p) : /\ p[i] # q[i]
                               /\ \A j \in 1 .. i - 1 : p[j] = q[j]

\* the order of the path strings
PathLess(p, q) ==
    IF Within(q, p) THEN p # q
    ELSE IF Within(p, q) THEN FALSE
    ELSE LET i == FirstDifference(p, q)
             slashFirst(x, y) == Len(x) > i /\ <<y[i], x[i]>> \in Extends
         IN  IF p[i] < q[i] THEN ~slashFirst(p, q) ELSE slashFirst(q, p)

\* the order of the walks: directory by directory, by name
WalkLess(p, q) ==
    IF Within(q, p) THEN p # q
    ELSE ~Within(p, q) /\ p[FirstDifference(p, q)] < q[FirstDifference(p, q)]

InOrder(S, less(_, _)) ==
    [i \in 1 .. Cardinality(S) |->
        CHOOSE x \in S : Cardinality({y \in S : less(y, x)}) = i - 1]

(***************************************************************************)
(* The operations on flat file sets.                                       *)
(***************************************************************************)
\* no path is a file and a directory
PrefixFree(paths) == \A p, q \in paths : Within(p, q) => p = q

Only(f, S) == [p \in S |-> f[p]]

\* f and, where f has nothing, g
Over(f, g) == [p \in DOMAIN f \union DOMAIN g |-> IF p \in DOMAIN f THEN f[p] ELSE g[p]]

Without(f, gone) == Only(f, DOMAIN f \ gone)

\* removals take what is within a prefix, then additions replace what is at,
\* above and below them
FlatSplice(f, adds, removed) ==
    Over(adds, Without(f, {p \in DOMAIN f :
                   \/ PathIsRemoved(p, removed)
                   \/ \E q \in DOMAIN adds : Within(p, q) \/ Within(q, p)}))

\* A full commit: the worktree's files over the staged additions of the
\* directories they open (a file wins over an addition at or above it),
\* those over the parent's, then the removals, then the late additions.
LateAdds(kept, adds) ==
    {p \in adds : Dir(p) # <<>> /\ ~ \E q \in kept : Within(Dir(q), Dir(p))}

FlatCommit(f, worktree, adds, removed) ==
    LET gone(g) == {p \in DOMAIN g : PathIsRemoved(p, removed)}
        kept == Without(worktree, gone(worktree))
        late == LateAdds(DOMAIN kept, DOMAIN adds)
        early == {p \in DOMAIN adds \ late : ~ \E q \in DOMAIN kept : Within(q, p)}
        built == FlatSplice(f, Over(kept, Only(adds, early)), {})
    IN  FlatSplice(Without(built, gone(built)), Only(adds, late), {})

At(f, p) == IF p \in DOMAIN f THEN f[p] ELSE None
Changed(f, g) == {p \in DOMAIN f \union DOMAIN g : At(f, p) # At(g, p)}

FlatMerge(base, ours, theirs) ==
    LET all == Changed(base, ours) \union Changed(base, theirs) \union DOMAIN base
        merged(p) == IF At(ours, p) = At(base, p) THEN At(theirs, p) ELSE At(ours, p)
    IN  [p \in {q \in all : merged(q) # None} |-> merged(p)]

FlatConflicts(base, ours, theirs) ==
    {p \in Changed(base, ours) \intersect Changed(base, theirs) :
        At(ours, p) # At(theirs, p)}

FlatDiff(f, g) ==
    {[path |-> p, change |-> IF At(f, p) = None THEN "added"
                             ELSE IF At(g, p) = None THEN "removed"
                             ELSE "modified"] : p \in Changed(f, g)}
=============================================================================
