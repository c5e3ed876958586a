----------------------------- MODULE MCObjectGc -----------------------------
(***************************************************************************)
(* ObjectGc on four commits and the trees and blobs they need:             *)
(*                                                                         *)
(*     k0 (t0: b0) --- k1 (t1: b0 b1) --- k3 (t2: b1)                      *)
(*      \--- k2 (t2: b1)                                                   *)
(*                                                                         *)
(* main is at k0, dev is unborn; k2 and k3 have one tree.                  *)
(***************************************************************************)
EXTENDS ObjectGc, TLC

CONSTANTS v, w, main, dev, k0, k1, k2, k3, t0, t1, t2, b0, b1

MCParents == (k0 :> {}) @@ (k1 :> {k0}) @@ (k2 :> {k0}) @@ (k3 :> {k1})
MCTreeOf == (k0 :> t0) @@ (k1 :> t1) @@ (k2 :> t2) @@ (k3 :> t2)
MCBlobsOf == (t0 :> {b0}) @@ (t1 :> {b0, b1}) @@ (t2 :> {b1})
MCHead == [b \in Branches |-> IF b = main THEN k0 ELSE None]

\* two writers of new content beside sweeps
MCBeside ==
    [writers |-> {v, w}, branches |-> {main}, orphans |-> {k2, t2}, ops |-> {"write"},
     reuse |-> FALSE, apart |-> FALSE, ticks |-> 3, sweeps |-> 2]

\* one writer with a new branch to write on, beside one sweep
MCBranching ==
    [writers |-> {w}, branches |-> {main, dev}, orphans |-> {k2}, ops |-> {"write", "branch"},
     reuse |-> FALSE, apart |-> FALSE, ticks |-> 2, sweeps |-> 1]

\* sweeps between the operations of one writer, over the debris of any others
MCApart ==
    [writers |-> {w}, branches |-> {main, dev}, orphans |-> {k1, k2, k3, t1, t2, b1},
     ops |-> {"write", "reset", "delete", "branch"},
     reuse |-> TRUE, apart |-> TRUE, ticks |-> 2, sweeps |-> 1]

\* a writer that names orphans beside a sweep
MCReuse ==
    [writers |-> {w}, branches |-> {main}, orphans |-> {t1, b1}, ops |-> {"write"},
     reuse |-> TRUE, apart |-> FALSE, ticks |-> 3, sweeps |-> 1]

MCSettings == {MCBeside, MCBranching, MCApart}
MCReuseOnly == {MCReuse}
=============================================================================
