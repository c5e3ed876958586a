------------------------------ MODULE MCTrees ------------------------------
(***************************************************************************)
(* Trees on a directory 1 with names 1 to 5, sharded from the third on,    *)
(* whose name 2 may be a file or a directory; 3 extends 2 (a and a.csv).   *)
(* A file 2 stands beside the directory 1 at the root.                     *)
(***************************************************************************)
EXTENDS Trees

CONSTANTS main, topic, c0, c1, c2

MCExtends == {<<3, 2>>}

Symmetric == Permutations(Branches)

In1(names) == {<<1, n>> : n \in names}
In12(names) == {<<1, 2, n>> : n \in names}
MCPaths == {<<1>>, <<2>>} \union In1(1 .. 5) \union In12({1, 2})

Constant(paths, c) == [p \in paths |-> c]

\* the second start has its directory 2 at the end of a shard
MCStart == {Constant(paths, c0) : paths \in
              { In1({1, 2, 3}) \union {<<2>>},
                In1({1, 3, 4}) \union In12({1, 2}) }}

MCChanges ==
    [adds : {Constant({p}, c1) : p \in In1({1, 2, 3, 4}) \union In12({1})}, removed : {{}}]
    \union [adds : {Nothing}, removed : {{p} : p \in In1(1 .. 4) \union In12({1}) \union {<<1>>}}]
    \union [adds : {Constant({p}, c0) : p \in In1({4, 5})}, removed : {{p} : p \in In1({1, 2})}]
    \union [adds : {Constant(In1({4, 5}), c1)}, removed : {{}, {<<2>>}}]
    \union [adds : {Constant({<<1, 3>>}, c2), Constant({<<1>>}, c2)}, removed : {{}}]

MCWorks ==
    [worktree : {Constant(In1({3}) \union In12({2}), c0)},
     adds : {Nothing, Constant(In12({1}), c1)},
     removed : {{}, {<<1, 2, 1>>}, {<<1, 3>>}}]
    \union
    [worktree : {Constant(In1({3}), c1)},
     adds : {Constant({<<1, 2>>, <<1, 2, 1>>}, c2)}, removed : {{}}]
    \union
    [worktree : {Constant({<<2>>, <<1, 2>>}, c2)},
     adds : {Constant(In1({5}), c1)}, removed : {{<<1, 1>>}}]
=============================================================================
