--------------------------- MODULE MCCommitGraph ---------------------------
(***************************************************************************)
(* Every history of Size commits, numbered so that parents come first,     *)
(* with at most two parents each: forks, merges, criss-cross merges and    *)
(* several roots.  The first Legacy commits have no stored generation, and *)
(* all commits or all but one can be read.                                 *)
(***************************************************************************)
EXTENDS CommitGraph, FiniteSets, FiniteSetsExt

CONSTANT Size

MCCommits == 1..Size

ParentSets(k) == {S \in SUBSET (1..(k-1)) : Cardinality(S) <= 2}

Graphs == {g \in [MCCommits -> SUBSET MCCommits] :
             \A k \in MCCommits : g[k] \in ParentSets(k)}

\* The generations of the commits under a graph, a set that can be read, and
\* the generations that are stored.
Derive(parents, known, stored) ==
    LET gen[k \in MCCommits] ==
            IF k \notin known THEN 0
            ELSE IF stored[k] # NoGeneration THEN stored[k]
            ELSE IF parents[k] = {} THEN 0
            ELSE 1 + Max({gen[p] : p \in parents[k]})
    IN  gen

HistoryOf(parents, legacy, known) ==
    LET none   == [k \in MCCommits |-> NoGeneration]
        depth  == Derive(parents, MCCommits, none)
        stored == [k \in MCCommits |->
                      IF k <= legacy THEN NoGeneration ELSE depth[k]]
    IN  [parents |-> parents, known |-> known, stored |-> stored,
         generation |-> Derive(parents, known, stored)]

MCHistories ==
    {HistoryOf(g, n, known) : g \in Graphs, n \in 0..Size,
        known \in {MCCommits} \union {MCCommits \ {k} : k \in MCCommits}}
=============================================================================
