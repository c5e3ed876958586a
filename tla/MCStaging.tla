------------------------------ MODULE MCStaging ------------------------------
(***************************************************************************)
(* Names 1 to 3, of which 2 extends 1 by a character before the slash (a   *)
(* and a.csv): the file a.csv sorts between the file a and a/x.  Two       *)
(* processes, one S3 object, one other clone.                              *)
(***************************************************************************)
EXTENDS Staging, TLC

CONSTANTS c1, c2, p1, p2

a == <<1>>
acsv == <<2>>
ax == <<1, 3>>

McExtends == {<<2, 1>>}
McProcs == {p1, p2}
McPaths == {a, acsv, ax, <<1, 1>>, <<1, 1, 3>>, <<1, 1, 1, 3>>, <<3>>}
s3 == <<0, 3>>

McObjects == {s3}
McKey == [o \in {s3} |-> <<3>>]
McContents == {c1, c2}

Disk(f) == [s \in McPaths \union McObjects |-> IF s \in DOMAIN f THEN f[s] ELSE None]

\* an unborn branch; two committed files, one of them a pointer; an empty
\* worktree, and a directory within a directory of its own name
McStarts ==
    {[disk |-> Disk((ax :> c1) @@ (acsv :> c1) @@ (s3 :> c1)), files |-> NoFiles],
     [disk |-> Disk((s3 :> c1) @@ (ax :> c1)),
      files |-> (ax :> Blob(c1)) @@ (acsv :> Pointer(s3, c1))],
     [disk |-> Disk(<<>>),
      files |-> (<<1, 1, 1, 3>> :> Blob(c1)) @@ (<<1, 1, 3>> :> Blob(c2))]}

McStage ==
    {[kind |-> "add", from |-> a, to |-> a, mode |-> "content"],
     [kind |-> "add", from |-> acsv, to |-> a, mode |-> "pointer"],
     [kind |-> "add", from |-> acsv, to |-> acsv, mode |-> "content"],
     [kind |-> "add", from |-> None, to |-> a, mode |-> "pointer"],
     [kind |-> "rm", path |-> a],
     [kind |-> "mv", from |-> <<1, 1>>, to |-> a],
     [kind |-> "mv", from |-> ax, to |-> acsv],
     [kind |-> "commit", staged |-> TRUE],
     [kind |-> "commit", staged |-> FALSE]}

McDirect ==
    {[kind |-> "rm", path |-> ax],
     [kind |-> "commit", staged |-> TRUE],
     [kind |-> "import", mode |-> "pointer"],
     [kind |-> "move", from |-> acsv, to |-> a],
     [kind |-> "move", from |-> ax, to |-> acsv],
     [kind |-> "move", from |-> <<1, 1>>, to |-> a],
     [kind |-> "remove", path |-> ax],
     [kind |-> "promote"],
     [kind |-> "restore", path |-> <<>>, force |-> FALSE],
     [kind |-> "restore", path |-> a, force |-> TRUE]}

McOps == (p1 :> McStage) @@ (p2 :> McDirect)

McWrites ==
    {[source |-> ax, content |-> None], [source |-> acsv, content |-> c2],
     [source |-> a, content |-> c2], [source |-> s3, content |-> c2]}

McPeerEdits == {[adds |-> (<<3>> :> Blob(c2)), removed |-> {ax}]}
=============================================================================
