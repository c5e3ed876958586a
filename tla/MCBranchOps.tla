---------------------------- MODULE MCBranchOps ----------------------------
(***************************************************************************)
(* BranchOps on a small repository: two or three branches over the history *)
(*                                                                         *)
(*            r --- m      main -> m, feature -> f, dev never written      *)
(*             \--- f                                                      *)
(*                                                                         *)
(* and fresh commits for the operations to publish.                        *)
(***************************************************************************)
EXTENDS BranchOps, TLC

CONSTANTS p, q, third,               \* processes
          w1, w2,                    \* workspaces
          main, feature, dev,        \* branches
          r, m, f,                   \* the initial commits
          Fresh                      \* commits to publish

MCCommits == {r, m, f} \union Fresh

\* One workspace per process: clients of one S3 repository.
Separate == (p :> w1) @@ (q :> w2)

\* Two processes that share a client state, and one on its own.
Mixed == (p :> w1) @@ (q :> w1) @@ (third :> w2)

MCParents == (r :> {}) @@ (m :> {r}) @@ (f :> {r})
MCAnc == (r :> {r}) @@ (m :> {m, r}) @@ (f :> {f, r})

\* main and feature have diverged.
Diverged == [b \in Branches |-> CASE b = main -> m
                                  [] b = feature -> f
                                  [] OTHER -> Absent]

\* main is behind feature: merging feature into it fast-forwards.
Behind == [b \in Branches |-> CASE b = main -> r
                                [] b = feature -> f
                                [] OTHER -> Absent]

\* no workspace has seen a branch; or the first has seen main at r
NoSnapshots == {[w \in Workspaces |-> [b \in Branches |-> NoSnap]]}
OldSnapshots ==
    NoSnapshots \union
    {[w \in Workspaces |-> [b \in Branches |-> IF w = w1 /\ b = main THEN r ELSE NoSnap]]}

FreshSymmetry == Permutations(Fresh)
MixedSymmetry == Permutations(Fresh) \union Permutations({p, q})
=============================================================================
