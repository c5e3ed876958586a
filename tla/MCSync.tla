------------------------------- MODULE MCSync -------------------------------
(***************************************************************************)
(* Sync with two clones of a repository whose branch is at r (tree tr).    *)
(* Clone a commits a1 and then a2, clone b commits b1 and merges a1 into   *)
(* it as m, on which a goes on with a3.  a1 and b1 add a blob in common.   *)
(***************************************************************************)
EXTENDS Sync, TLC

CONSTANTS a, b, r, a1, a2, a3, b1, m, tr, ta, tb, tm, x, y

MCParents == [k \in Commits |-> CASE k = r -> {}
                                  [] k = a1 -> {r}
                                  [] k = a2 -> {a1}
                                  [] k = b1 -> {r}
                                  [] k = m -> {a1, b1}
                                  [] k = a3 -> {m}]
MCTreeOf == [k \in Commits |-> CASE k = r -> tr
                                 [] k \in {a1, a2} -> ta
                                 [] k = b1 -> tb
                                 [] k \in {m, a3} -> tm]
MCBlobsOf == [t \in Trees |-> CASE t = tr -> {}
                                [] t = ta -> {x}
                                [] t = tb -> {x, y}
                                [] t = tm -> {x, y}]
MCAuthor == [k \in Commits |-> IF k \in {b1, m} THEN b ELSE a]
=============================================================================
