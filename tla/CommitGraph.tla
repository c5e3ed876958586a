----------------------------- MODULE CommitGraph -----------------------------
(***************************************************************************)
(* The walks over the commit graph (core/repository_support.py, and the    *)
(* listings of repository.py and repository_sync.py), for every history of *)
(* a given set:                                                            *)
(*   ancestor   is_ancestor_commit: is query.a reachable from query.b;     *)
(*              it drops what is too young a generation to reach a;        *)
(*   base       merge_base_commit: the best common ancestor of the two;    *)
(*   list       every commit reachable from query.b (log,                  *)
(*              _collect_commits_to_push).                                 *)
(*                                                                         *)
(* A step is one turn of the loop.  The walk takes pending commits in any  *)
(* order the code leaves to ids or to the order of parents.  Commits can   *)
(* be missing in the repository that is read: a lenient reader             *)
(* (_is_ancestor_in) goes around them, the others raise.                   *)
(***************************************************************************)
EXTENDS Naturals

CONSTANTS
    Commits,
    Histories,    \* the commit graphs to walk
    NoGeneration, \* a commit stored before generations were (pre-0.2)
    None

\* The generation of a commit is the stored one, which exceeds that of each
\* parent; or else one more than the largest of its parents, 0 for a root.
\* A commit that cannot be read counts as 0.
GenerationRule(h, k) ==
    LET older == \A p \in h.parents[k] : h.generation[p] < h.generation[k]
    IN  \/ /\ k \notin h.known
           /\ h.generation[k] = 0
        \/ /\ k \in h.known
           /\ h.stored[k] # NoGeneration
           /\ h.generation[k] = h.stored[k]
           /\ older
        \/ /\ k \in h.known
           /\ h.stored[k] = NoGeneration
           /\ older
           /\ \/ h.parents[k] = {} /\ h.generation[k] = 0
              \/ \E p \in h.parents[k] : h.generation[k] = h.generation[p] + 1

\* parents and stored are what the commit objects say, known the commits that
\* can be read, generation what _GenerationProvider.of returns.
IsHistory(h) ==
    /\ h.parents \in [Commits -> SUBSET Commits]
    /\ h.known \subseteq Commits
    /\ h.stored \in [Commits -> Nat \union {NoGeneration}]
    /\ h.generation \in [Commits -> Nat]
    /\ \A k \in Commits : GenerationRule(h, k)

ASSUME GraphAssumption ==
    /\ None \notin Commits
    /\ NoGeneration \notin Nat
    /\ \A h \in Histories : IsHistory(h)

Sides == {"a", "b"}

\* Only ancestry is ever asked of a lenient reader.
Queries ==
    {q \in [kind: {"ancestor", "base", "list"}, lenient: BOOLEAN,
            a: Commits, b: Commits] : q.kind # "ancestor" => ~q.lenient}

VARIABLES
    history,  \* the graph that is walked; it does not change
    query,    \* what is asked of it
    pc,       \* "start", "walk" or "done"
    pending,  \* the stack, or the heap of the frontier
    marks,    \* the sides from which each commit has been reached
    expanded, \* auxiliary: the commits whose parents were followed
    result,
    base      \* the commit merge_base_commit returns

vars == <<history, query, pc, pending, marks, expanded, result, base>>

TypeOK ==
    /\ IsHistory(history)
    /\ query \in Queries
    /\ pc \in {"start", "walk", "done"}
    /\ pending \subseteq Commits
    /\ marks \in [Commits -> SUBSET Sides]
    /\ expanded \subseteq Commits
    /\ result \in {"none", "yes", "no", "base", "disjoint", "listed", "raised"}
    /\ base \in Commits \union {None}

-----------------------------------------------------------------------------
(* Faulty variants of the next definitions.                                *)

\* A commit without a stored generation counts as a root.
LegacyIsRoot(k) ==
    IF history.stored[k] = NoGeneration THEN 0 ELSE history.generation[k]

\* A commit without a stored generation cannot be read.
LegacyUnreadable(k) ==
    \/ query.lenient
    \/ k \in history.known /\ history.stored[k] # NoGeneration

-----------------------------------------------------------------------------
\* _GenerationProvider.of
Generation(k) == history.generation[k]

\* What can be reached along the edges: the least set that holds k and is
\* closed under them.
Reachable(k, edges) ==
    {d \in Commits : \A S \in SUBSET Commits :
        (k \in S /\ \A e \in S : edges[e] \subseteq S) => d \in S}

\* The parents that reading a commit shows, none for a missing commit.
ReadEdges ==
    [k \in Commits |-> IF k \in history.known THEN history.parents[k] ELSE {}]

\* The parents that computing a generation reads.
DerivedEdges ==
    [k \in Commits |-> IF k \in history.known /\ history.stored[k] = NoGeneration
                       THEN history.parents[k] ELSE {}]

Ancestors(k) == Reachable(k, ReadEdges)

\* Reading k and its generation does not raise.
Readable(k) ==
    query.lenient \/ Reachable(k, DerivedEdges) \subseteq history.known

Marked == {k \in Commits : marks[k] # {}}

Init ==
    /\ history \in Histories
    /\ query \in Queries
    /\ pc = "start"
    /\ pending = {}
    /\ marks = [k \in Commits |-> {}]
    /\ expanded = {}
    /\ result = "none"
    /\ base = None

Answer(r, k) ==
    /\ pc' = "done"
    /\ result' = r
    /\ base' = k
    /\ UNCHANGED <<history, query, pending, marks, expanded>>

-----------------------------------------------------------------------------
(* Faulty variants.  Each is one of the definitions below with a mistake   *)
(* in it; no specification uses them.  PROJECT.json pairs each with the    *)
(* property that tells it from the real one.                               *)

\* Parents are tested against the ancestor's generation before they are pushed.
TooOldToPush(p) ==
    /\ query.kind = "ancestor" /\ query.a \in history.known
    /\ 0 < Generation(p)
    /\ Generation(p) <= Generation(query.a)

ExpandPruned(k) ==
    LET news == {p \in history.parents[k] :
                   ~(marks[k] \subseteq marks[p]) /\ ~TooOldToPush(p)}
    IN  /\ pending' = (pending \ {k}) \union news
        /\ marks' = [p \in Commits |->
                        IF p \in news THEN marks[p] \union marks[k]
                        ELSE marks[p]]
        /\ expanded' = expanded \union {k}
        /\ UNCHANGED <<history, query, pc, result, base>>

\* A commit reached from the second side is taken for seen.
ExpandOnce(k) ==
    LET news == {p \in history.parents[k] : marks[p] = {}}
    IN  /\ pending' = (pending \ {k}) \union news
        /\ marks' = [p \in Commits |->
                        IF p \in news THEN marks[k] ELSE marks[p]]
        /\ expanded' = expanded \union {k}
        /\ UNCHANGED <<history, query, pc, result, base>>

\* Only the first parent of a merge is followed.
ExpandFirst(k) ==
    LET news == {p \in history.parents[k] :
                   /\ marks[p] = {}
                   /\ p = CHOOSE f \in history.parents[k] : TRUE}
    IN  /\ pending' = (pending \ {k}) \union news
        /\ marks' = [p \in Commits |->
                        IF p \in news THEN marks[k] ELSE marks[p]]
        /\ expanded' = expanded \union {k}
        /\ UNCHANGED <<history, query, pc, result, base>>

-----------------------------------------------------------------------------
\* A pending commit that is no younger than the ancestor cannot reach it.
TooOld(k) ==
    /\ query.a \in history.known
    /\ 0 < Generation(k)
    /\ Generation(k) <= Generation(query.a)

\* The next commit of the frontier has the highest generation in it.
Foremost(k) == \A j \in pending : Generation(j) <= Generation(k)

\* The commit the walk starts from on a side.
From(s) == IF s = "a" THEN query.a ELSE query.b

Begin(sides) ==
    /\ pc' = "walk"
    /\ pending' = {From(s) : s \in sides}
    /\ marks' = [k \in Commits |-> {s \in sides : From(s) = k}]
    /\ UNCHANGED <<history, query, expanded, result, base>>

\* Commit k has been looked at and is not followed.
Drop(k) ==
    /\ pending' = pending \ {k}
    /\ UNCHANGED <<history, query, pc, marks, expanded, result, base>>

\* Follow the parents of k that k's marks are news to.
Expand(k) ==
    LET news == {p \in history.parents[k] : ~(marks[k] \subseteq marks[p])}
    IN  /\ pending' = (pending \ {k}) \union news
        /\ marks' = [p \in Commits |->
                        IF p \in news THEN marks[p] \union marks[k]
                        ELSE marks[p]]
        /\ expanded' = expanded \union {k}
        /\ UNCHANGED <<history, query, pc, result, base>>

StartAncestor ==
    /\ pc = "start" /\ query.kind = "ancestor"
    /\ \/ query.a = query.b /\ Answer("yes", None)
       \/ query.a # query.b /\ ~Readable(query.a) /\ Answer("raised", None)
       \/ query.a # query.b /\ Readable(query.a) /\ Begin({"b"})

StepAncestor(k) ==
    /\ pc = "walk" /\ query.kind = "ancestor" /\ k \in pending
    /\ \/ k = query.a /\ Answer("yes", None)
       \/ k # query.a /\ ~Readable(k) /\ Answer("raised", None)
       \/ /\ k # query.a /\ Readable(k)
          /\ k \notin history.known \/ TooOld(k)
          /\ Drop(k)
       \/ /\ k # query.a /\ Readable(k)
          /\ k \in history.known /\ ~TooOld(k)
          /\ Expand(k)

StartBase ==
    /\ pc = "start" /\ query.kind = "base"
    /\ \/ /\ query.a = query.b /\ query.a \in history.known
          /\ Answer("base", query.a)
       \/ /\ query.a = query.b /\ query.a \notin history.known
          /\ Answer("raised", None)
       \/ /\ query.a # query.b /\ ~(Readable(query.a) /\ Readable(query.b))
          /\ Answer("raised", None)
       \/ /\ query.a # query.b /\ Readable(query.a) /\ Readable(query.b)
          /\ Begin(Sides)

StepBase(k) ==
    /\ pc = "walk" /\ query.kind = "base" /\ k \in pending /\ Foremost(k)
    /\ \/ marks[k] = Sides /\ Answer("base", k)
       \/ /\ marks[k] # Sides
          /\ \E p \in history.parents[k] : ~Readable(p)
          /\ Answer("raised", None)
       \/ /\ marks[k] # Sides
          /\ \A p \in history.parents[k] : Readable(p)
          /\ Expand(k)

StartList == pc = "start" /\ query.kind = "list" /\ Begin({"b"})

StepList(k) ==
    /\ pc = "walk" /\ query.kind = "list" /\ k \in pending
    /\ \/ k \notin history.known /\ Answer("raised", None)
       \/ k \in history.known /\ Expand(k)

\* Nothing is pending: the loop ends without an early answer.
Exhaust ==
    /\ pc = "walk" /\ pending = {}
    /\ Answer(CASE query.kind = "ancestor" -> "no"
                [] query.kind = "base" -> "disjoint"
                [] query.kind = "list" -> "listed", None)

Step ==
    \/ StartAncestor \/ StartBase \/ StartList \/ Exhaust
    \/ \E k \in Commits : StepAncestor(k) \/ StepBase(k) \/ StepList(k)

Finished == pc = "done" /\ UNCHANGED vars

Next == Step \/ Finished

Spec == Init /\ [][Next]_vars

-----------------------------------------------------------------------------
\* is_ancestor_commit says True exactly when the ancestor is reachable through
\* the commits that can be read: what generations prune never hides a path,
\* not beside legacy commits, missing ones or several roots.
AncestryIsExact ==
    /\ result = "yes" => query.a \in Ancestors(query.b)
    /\ result = "no" => query.a \notin Ancestors(query.b)

Common == Ancestors(query.a) \intersect Ancestors(query.b)

\* merge_base_commit returns a common ancestor of the highest generation, and
\* None only for histories that share nothing.
BaseIsBest ==
    /\ result = "base" =>
         base \in Common /\ \A k \in Common : Generation(k) <= Generation(base)
    /\ result = "disjoint" => Common = {}

\* The walk for a merge base ends where the histories meet: it never follows
\* the parents of a common ancestor, so its cost is that of the divergence.
BaseWalkIsShort == query.kind = "base" => expanded \intersect Common = {}

\* log shows, and push considers, every reachable commit and no other.
ListingIsComplete == result = "listed" => Marked = Ancestors(query.b)

\* A walk raises only in a repository that lacks a commit of the history it
\* was asked about.
RaisesOnlyOnGaps ==
    result = "raised" =>
        ~(Ancestors(query.a) \union Ancestors(query.b) \subseteq history.known)

=============================================================================
