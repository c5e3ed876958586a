--------------------------------- MODULE Sync ---------------------------------
(***************************************************************************)
(* push, pull and fetch between local clones and one S3 repository         *)
(* (core/repository_sync.py), for one branch.  A transfer resolves the tip *)
(* at the source, refuses a divergent destination, lists the commits the   *)
(* destination lacks, plans the missing objects of those commits, copies   *)
(* them one by one (commits, then trees, then blobs) and fast-forwards the *)
(* destination branch.  It can be interrupted at any step; what has been   *)
(* copied stays.                                                           *)
(*                                                                         *)
(* One tree stands for the trees of a commit; footers are copied as blobs  *)
(* are.  The compare-and-set is that of RefCas.  A ref that is missing and *)
(* one that is empty are both None: push and pull create the missing one   *)
(* as an empty one first.                                                  *)
(***************************************************************************)
EXTENDS Naturals, FiniteSets

CONSTANTS
    Clones, Remote,
    Commits, Trees, Blobs,
    None,        \* unborn branch
    NoSnap,      \* no snapshot of the branch in the client state
    Parents, TreeOf, BlobsOf,
    Author,      \* the clone that makes each commit
    InitCommit,  \* the commit every repository starts with
    MaxTransfers \* bound: transfers started by each clone

Repos == Clones \union {Remote}
Objects == Commits \union Trees \union Blobs
Values == Commits \union {None}
Kinds == {"push", "pull", "fetch"}

ASSUME SyncAssumption ==
    /\ Remote \notin Clones
    /\ None \notin Commits
    /\ NoSnap \notin Values
    /\ Commits \intersect Trees = {}
    /\ Commits \intersect Blobs = {}
    /\ Trees \intersect Blobs = {}
    /\ Parents \in [Commits -> SUBSET Commits]
    /\ TreeOf \in [Commits -> Trees]
    /\ BlobsOf \in [Trees -> SUBSET Blobs]
    /\ Author \in [Commits -> Clones]
    /\ InitCommit \in Values
    /\ MaxTransfers \in Nat

VARIABLES
    has,     \* objects in each repository
    head,    \* the branch in each repository
    snap,    \* per clone: its snapshots of its own and of the remote branch
    proc,    \* the transfer each clone is running
    started, \* transfers each clone has started
    cut      \* history: the repositories a transfer was interrupted into

vars == <<has, head, snap, proc, started, cut>>

Idle == [pc |-> "idle", kind |-> "push", tip |-> None, commits |-> {},
         todo |-> {}, expected |-> None, result |-> "none"]

TypeOK ==
    /\ has \in [Repos -> SUBSET Objects]
    /\ head \in [Repos -> Values]
    /\ snap \in [Clones -> [{"push", "pull"} -> Values \union {NoSnap}]]
    /\ proc \in [Clones ->
         [pc: {"idle", "check", "collect", "plan", "copy", "state", "cas",
               "done"},
          kind: Kinds, tip: Values, commits: SUBSET Commits,
          todo: SUBSET Objects, expected: Values,
          result: {"none", "updated", "unchanged", "nonff", "conflict",
                   "error"}]]
    /\ started \in [Clones -> Nat]
    /\ cut \subseteq Repos

\* Commits reachable from each commit, itself included: the least set that
\* holds it and the parents of its members.
History ==
    [k \in Commits |->
        {j \in Commits : \A S \in SUBSET Commits :
            (k \in S /\ \A e \in S : Parents[e] \subseteq S) => j \in S}]

\* The trees and blobs of a set of commits, not of their ancestors.
DataOf(ks) ==
    LET trees == {TreeOf[k] : k \in ks}
    IN  trees \union UNION {BlobsOf[t] : t \in trees}

\* Everything a ref value needs.
Closure(value) ==
    IF value = None THEN {} ELSE History[value] \union DataOf(History[value])

Init ==
    /\ has = [x \in Repos |-> Closure(InitCommit)]
    /\ head = [x \in Repos |-> InitCommit]
    /\ snap = [c \in Clones |-> [k \in {"push", "pull"} |-> NoSnap]]
    /\ proc = [c \in Clones |-> Idle]
    /\ started = [c \in Clones |-> 0]
    /\ cut = {}

Src(c) == IF proc[c].kind = "push" THEN c ELSE Remote
Dst(c) == IF proc[c].kind = "push" THEN Remote ELSE c

\* is_ancestor_commit over the commits of one repository: what is missing
\* there is not walked through.
IsAncestor(a, d, repo) ==
    \A S \in SUBSET Commits :
        (d \in S /\ \A e \in S \intersect has[repo] : Parents[e] \subseteq S) => a \in S

Stop(c, result) ==
    proc' = [proc EXCEPT ![c].pc = "done", ![c].result = result]

-----------------------------------------------------------------------------
(* Faulty variants.  Each is one of the definitions below with a mistake   *)
(* in it; no specification uses them.  PROJECT.json pairs each with the    *)
(* property that tells it from the real one.                               *)

\* Only the data of the tip is planned.
PlanTip(c) ==
    LET trees == {TreeOf[proc[c].tip]}
        blobs == UNION {BlobsOf[t] : t \in trees \intersect has[Src(c)]}
    IN
    /\ proc[c].pc = "plan"
    /\ proc' = [proc EXCEPT ![c].pc = "copy",
         ![c].todo = (proc[c].commits \union trees \union blobs) \ has[Dst(c)]]
    /\ UNCHANGED <<has, head, snap, started, cut>>

\* The result of the compare-and-set is not looked at.
UpdateRefUnseen(c) ==
    LET dst == Dst(c)
        value == IF head[dst] = proc[c].expected THEN proc[c].tip ELSE head[dst]
    IN
    /\ proc[c].pc = "cas"
    /\ head' = [head EXCEPT ![dst] = value]
    /\ snap' = [snap EXCEPT ![c][proc[c].kind] = value]
    /\ Stop(c, "updated")
    /\ UNCHANGED <<has, started, cut>>

\* The destination ref is written, not compared and set.
UpdateRefUnchecked(c) ==
    /\ proc[c].pc = "cas"
    /\ head' = [head EXCEPT ![Dst(c)] = proc[c].tip]
    /\ snap' = [snap EXCEPT ![c][proc[c].kind] = proc[c].tip]
    /\ Stop(c, "updated")
    /\ UNCHANGED <<has, started, cut>>

-----------------------------------------------------------------------------
\* commit and merge in a clone: new content, published and then committed.
Commit(c, k) ==
    /\ proc[c].pc = "idle"
    /\ Author[k] = c
    /\ k \notin has[c]
    /\ Parents[k] \subseteq has[c]
    /\ IF head[c] = None THEN Parents[k] = {} ELSE head[c] \in Parents[k]
    /\ has' = [has EXCEPT ![c] = @ \union {k} \union DataOf({k})]
    /\ head' = [head EXCEPT ![c] = k]
    /\ snap' = [snap EXCEPT ![c]["pull"] = k]
    /\ UNCHANGED <<proc, started, cut>>

\* Resolve the tip at the source; an unborn branch is an error.
Start(c, kind) ==
    LET tip == head[IF kind = "push" THEN c ELSE Remote]
    IN
    /\ proc[c].pc = "idle"
    /\ started[c] < MaxTransfers
    /\ tip # None
    /\ started' = [started EXCEPT ![c] = @ + 1]
    /\ proc' = [proc EXCEPT ![c] = [Idle EXCEPT
                    !.pc = IF kind = "fetch" THEN "collect" ELSE "check",
                    !.kind = kind, !.tip = tip]]
    /\ UNCHANGED <<has, head, snap, cut>>

\* _verify_push_fast_forward, _verify_pull_fast_forward: the destination
\* head, read afresh, against the history of the source.
Check(c) ==
    LET now == head[Dst(c)]
    IN
    /\ proc[c].pc = "check"
    /\ \/ /\ now = proc[c].tip
          /\ Stop(c, "unchanged")
       \/ /\ now \notin {None, proc[c].tip}
          /\ ~IsAncestor(now, proc[c].tip, Src(c))
          /\ Stop(c, "nonff")
       \/ /\ now # proc[c].tip
          /\ now = None \/ IsAncestor(now, proc[c].tip, Src(c))
          /\ proc' = [proc EXCEPT ![c].pc = "collect"]
    /\ UNCHANGED <<has, head, snap, started, cut>>

\* _collect_commits_to_push: the commits the destination lacks.  When it
\* has them all, nothing is planned or copied.
Collect(c) ==
    LET missing == History[proc[c].tip] \ has[Dst(c)]
    IN
    /\ proc[c].pc = "collect"
    /\ IF History[proc[c].tip] \subseteq has[Src(c)]
       THEN proc' = [proc EXCEPT ![c].commits = missing,
                      ![c].pc = IF missing = {} /\ proc[c].kind # "fetch"
                                THEN "state" ELSE "plan"]
       ELSE Stop(c, "error")
    /\ UNCHANGED <<has, head, snap, started, cut>>

\* _build_plan: of those commits and their data, what the destination
\* lacks.  A tree the source lacks names no blobs.
Plan(c) ==
    LET trees == {TreeOf[k] : k \in proc[c].commits}
        blobs == UNION {BlobsOf[t] : t \in trees \intersect has[Src(c)]}
    IN
    /\ proc[c].pc = "plan"
    /\ proc' = [proc EXCEPT ![c].pc = "copy",
         ![c].todo = (proc[c].commits \union trees \union blobs) \ has[Dst(c)]]
    /\ UNCHANGED <<has, head, snap, started, cut>>

\* The objects of the plan that come first: commits, trees, blobs.
Leading(todo) ==
    IF todo \intersect Commits # {} THEN todo \intersect Commits
    ELSE IF todo \intersect Trees # {} THEN todo \intersect Trees
    ELSE todo

\* _copy_item.  A commit that has appeared meanwhile is an
\* OptimisticLockError; a download of a missing commit or tree copies
\* nothing and goes on; another missing source is an error.
CopyItem(c) ==
    /\ proc[c].pc = "copy"
    /\ \E o \in Leading(proc[c].todo) :
        \/ /\ o \in has[Src(c)]
           /\ o \in Commits => o \notin has[Dst(c)]
           /\ has' = [has EXCEPT ![Dst(c)] = @ \union {o}]
           /\ proc' = [proc EXCEPT ![c].todo = @ \ {o}]
        \/ /\ o \notin has[Src(c)] /\ o \notin Blobs /\ proc[c].kind # "push"
           /\ proc' = [proc EXCEPT ![c].todo = @ \ {o}]
           /\ UNCHANGED has
        \/ /\ \/ o \in Commits \intersect has[Src(c)] \intersect has[Dst(c)]
              \/ o \notin has[Src(c)] /\ (o \in Blobs \/ proc[c].kind = "push")
           /\ Stop(c, "error")
           /\ UNCHANGED has
    /\ UNCHANGED <<head, snap, started, cut>>

CopyDone(c) ==
    /\ proc[c].pc = "copy"
    /\ proc[c].todo = {}
    /\ IF proc[c].kind = "fetch"
       THEN Stop(c, "unchanged")
       ELSE proc' = [proc EXCEPT ![c].pc = "state"]
    /\ UNCHANGED <<has, head, snap, started, cut>>

\* fast_forward_branch of the destination: its snapshot in this clone's
\* client state if there is one, its ref otherwise.
FastForward(c) ==
    LET kind == proc[c].kind
        now == IF snap[c][kind] = NoSnap THEN head[Dst(c)] ELSE snap[c][kind]
        tip == proc[c].tip
    IN
    /\ proc[c].pc = "state"
    /\ snap' = [snap EXCEPT ![c][kind] = now]
    /\ \/ /\ now = tip
          /\ Stop(c, "unchanged")
       \/ /\ now \notin {None, tip} /\ ~IsAncestor(now, tip, Dst(c))
          /\ Stop(c, "nonff")
       \/ /\ now # tip
          /\ now = None \/ IsAncestor(now, tip, Dst(c))
          /\ proc' = [proc EXCEPT ![c].pc = "cas", ![c].expected = now]
    /\ UNCHANGED <<has, head, started, cut>>

\* update_branch_ref: the compare-and-set, and the snapshot of what is there
\* after it.
UpdateRef(c) ==
    LET dst == Dst(c)
        value == IF head[dst] = proc[c].expected THEN proc[c].tip ELSE head[dst]
    IN
    /\ proc[c].pc = "cas"
    /\ head' = [head EXCEPT ![dst] = value]
    /\ snap' = [snap EXCEPT ![c][proc[c].kind] = value]
    /\ Stop(c, IF head[dst] = proc[c].expected THEN "updated" ELSE "conflict")
    /\ UNCHANGED <<has, started, cut>>

Return(c) ==
    /\ proc[c].pc = "done"
    /\ proc' = [proc EXCEPT ![c] = Idle]
    /\ UNCHANGED <<has, head, snap, started, cut>>

\* The process dies, or a request fails for good.
Interrupt(c) ==
    /\ proc[c].pc \notin {"idle", "done"}
    /\ proc' = [proc EXCEPT ![c] = Idle]
    /\ cut' = cut \union {Dst(c)}
    /\ UNCHANGED <<has, head, snap, started>>

Next ==
    \E c \in Clones :
        \/ \E k \in Commits : Commit(c, k)
        \/ \E kind \in Kinds : Start(c, kind)
        \/ Check(c)
        \/ Collect(c)
        \/ Plan(c)
        \/ CopyItem(c)
        \/ CopyDone(c)
        \/ FastForward(c)
        \/ UpdateRef(c)
        \/ Return(c)
        \/ Interrupt(c)

Spec == Init /\ [][Next]_vars

-----------------------------------------------------------------------------
(* Objects are published before the ref moves: whatever a branch head      *)
(* names, here or at the remote, is all there.                             *)
HeadsClosed == \A x \in Repos : Closure(head[x]) \subseteq has[x]

(* The same of transfers that run to their end, however they interleave: a *)
(* head lacks an object only if a transfer into that repository, or into   *)
(* the remote it pulls from, was interrupted.  A broken clone never breaks *)
(* the remote.                                                             *)
WholeUnlessCut ==
    \A x \in Repos :
        {x, Remote} \intersect cut = {} => Closure(head[x]) \subseteq has[x]

(* Concurrent pushes surface conflicts instead of overwriting: whatever is *)
(* interrupted and however stale the snapshots, the remote branch only     *)
(* ever moves to a descendant.                                             *)
RemoteFastForwards ==
    [][head'[Remote] # head[Remote] /\ head[Remote] # None =>
         /\ head'[Remote] # None
         /\ head[Remote] \in History[head'[Remote]]]_vars

(* A push or pull that says updated or unchanged has left the tip it       *)
(* resolved in the history of the destination branch: it never reports     *)
(* success for work it dropped.                                            *)
SuccessMeansDelivered ==
    \A c \in Clones :
        /\ proc[c].pc = "done"
        /\ proc[c].kind # "fetch"
        /\ proc[c].result \in {"updated", "unchanged"}
        => proc[c].tip \in History[head[Dst(c)]]
=============================================================================
