------------------------------ MODULE BranchOps ------------------------------
(***************************************************************************)
(* Every operation of reflake that moves a branch pointer, as the steps in *)
(* which it touches state other processes can see:                         *)
(*   - the refs and commits of the shared object store,                    *)
(*   - the branch snapshots, reflogs and HEAD of a client-state directory. *)
(* Source: core/services/refs.py (RefManager), core/repository.py          *)
(* (commit, merge, reset), core/repository_ops.py (the operations that     *)
(* commit metadata), core/services/tree.py (write_commit_object) and       *)
(* core/client_state.py.                                                   *)
(*                                                                         *)
(* A client is one process.  Each has a workspace, the client-state        *)
(* directory; processes that open one local repository share a workspace,  *)
(* clients of an S3 repository have one each.                              *)
(*                                                                         *)
(* Trees and blobs are left to ObjectGc: here a commit is its parents.     *)
(* The compare-and-set is one step, which is what RefCas promises.         *)
(***************************************************************************)
EXTENDS Integers, Sequences, FiniteSets

CONSTANTS
    Clients, Workspaces, Branches, Commits,
    WorkspaceOf,    \* the client-state directory of each client
    Main,           \* default_branch
    None,           \* no commit
    Absent,         \* the branch has no ref at all
    NoSnap,         \* the workspace has no snapshot of the branch
    InitHead,       \* refs, commits and parents at the start: any history
    InitParents,    \*   the program can have built
    InitAnc,
    InitSnapshots,  \* what earlier sessions may have left in the workspaces
    Ops,            \* the operations the clients perform
    StagedRetries,  \* _STAGED_COMMIT_RETRIES
    MaxOps          \* bound: operations started in a behaviour

Values == Commits \union {None}

Kinds == {"commit", "staged", "import", "mutate", "promote", "merge", "reset",
          "branch", "delete", "checkout"}

\* require_branch_state(allow_unborn=True)
UnbornAllowed == {"commit", "staged", "import"}

ASSUME BranchOpsAssumption ==
    /\ None \notin Commits
    /\ Absent \notin Values
    /\ NoSnap \notin Values \union {Absent}
    /\ IsFiniteSet(Clients)
    /\ WorkspaceOf \in [Clients -> Workspaces]
    /\ Main \in Branches
    /\ Ops \subseteq Kinds
    /\ StagedRetries \in Nat \ {0}
    /\ MaxOps \in Nat

\* The starting history: a set of commits closed under parents, and refs to
\* them.  InitAnc is the reachability of InitParents.  Only a ref that was
\* there is remembered, and no operation removes one (branch --delete empties
\* it), so nobody remembers a branch that has no ref.
ASSUME InitialHistory ==
    /\ DOMAIN InitParents \subseteq Commits
    /\ InitHead \in [Branches -> DOMAIN InitParents \union {None, Absent}]
    /\ InitParents \in [DOMAIN InitParents -> SUBSET DOMAIN InitParents]
    /\ InitAnc \in [DOMAIN InitParents -> SUBSET DOMAIN InitParents]
    /\ \A k \in DOMAIN InitParents :
        InitAnc[k] = {k} \union UNION {InitAnc[p] : p \in InitParents[k]}
    /\ InitSnapshots \subseteq
         [Workspaces -> [Branches -> DOMAIN InitParents \union {None, NoSnap}]]
    /\ \A s \in InitSnapshots, w \in Workspaces, b \in Branches :
        InitHead[b] = Absent => s[w][b] = NoSnap

VARIABLES
    head,      \* ref of each branch: Absent, None (unborn) or a commit
    stored,    \* commits in the object store
    parents,   \* parents of each stored commit
    anc,       \* ancestors of each stored commit, itself included
    snapshot,  \* state/branch-snapshots of each workspace
    current,   \* HEAD of each workspace
    reflog,    \* reflog of each workspace, per branch
    op,        \* the operation each client is in
    started,   \* operations started so far
    moves,     \* history: every successful compare-and-set, per branch
    unlogged   \* history: updates whose process died before the reflog line

store == <<head, stored, parents, anc>>
client == <<snapshot, current, reflog>>
history == <<moves, unlogged>>
vars == <<head, stored, parents, anc, snapshot, current, reflog, op, started,
          moves, unlogged>>

\* How the new value of an operation relates to the value it replaces: it
\* extends it, fast-forwards to a descendant, joins two histories, or is a
\* plain move of the pointer.
Paths == {"extend", "ff", "join", "move"}

PCs == {"idle", "target", "state", "cache", "base", "decide", "cas", "reread", "snap",
        "log", "done"}

Results == {"none", "updated", "unchanged", "conflict", "nonff", "error"}

OpRecords ==
    [pc: PCs, kind: Kinds, path: Paths, branch: Branches,
     source: Values,             \* merge source or reset target
     target: Values,             \* the commit the new tree is computed from:
                                 \* merge's target, the base of rm and mv
     expected: Values, new: Values,
     seen: Values \union {Absent},
     tries: Int, moved: BOOLEAN, result: Results,
     since: Nat]                 \* moves of the branch when the op began

Idle == [pc |-> "idle", kind |-> "commit", path |-> "extend", branch |-> Main,
         source |-> None, target |-> None, expected |-> None, new |-> None,
         seen |-> Absent, tries |-> 0, moved |-> FALSE, result |-> "none",
         since |-> 0]

Moves == [old: Values, new: Values, by: Workspaces, kind: Kinds]

TypeOK ==
    /\ head \in [Branches -> Values \union {Absent}]
    /\ stored \subseteq Commits
    /\ parents \in [Commits -> SUBSET Commits]
    /\ anc \in [Commits -> SUBSET Commits]
    /\ snapshot \in [Workspaces -> [Branches -> Values \union {NoSnap}]]
    /\ current \in [Workspaces -> Branches]
    /\ reflog \in [Workspaces -> [Branches -> Seq([old: Values, new: Values])]]
    /\ op \in [Clients -> OpRecords]
    /\ started \in Nat
    /\ moves \in [Branches -> Seq(Moves)]
    /\ unlogged \in [Workspaces -> [Branches -> Nat]]

Init ==
    /\ head = InitHead
    /\ stored = DOMAIN InitParents
    /\ parents = [k \in Commits |->
                    IF k \in stored THEN InitParents[k] ELSE {}]
    /\ anc = [k \in Commits |-> IF k \in stored THEN InitAnc[k] ELSE {}]
    /\ snapshot \in InitSnapshots
    /\ current = [w \in Workspaces |-> Main]
    /\ reflog = [w \in Workspaces |-> [b \in Branches |-> <<>>]]
    /\ op = [c \in Clients |-> Idle]
    /\ started = 0
    /\ moves = [b \in Branches |-> <<>>]
    /\ unlogged = [w \in Workspaces |-> [b \in Branches |-> 0]]

-----------------------------------------------------------------------------
Workspace(c) == WorkspaceOf[c]

\* No other process uses the client-state directory.
Alone(w) == Cardinality({c \in Clients : Workspace(c) = w}) = 1

\* BranchRefState.commit_id: a missing ref and an empty one hold no commit.
CommitOf(ref) == IF ref = Absent THEN None ELSE ref

\* is_ancestor_commit, whose walk CommitGraph is about.
IsAncestor(a, d) == a \in anc[d]

Start(c, kind, path, b, pc, source, expected, new) ==
    /\ op[c].pc = "idle"
    /\ kind \in Ops
    /\ started < MaxOps
    /\ started' = started + 1
    /\ op' = [op EXCEPT ![c] =
                [Idle EXCEPT !.pc = pc, !.kind = kind, !.path = path,
                             !.branch = b, !.source = source,
                             !.expected = expected, !.new = new,
                             !.tries = IF kind = "staged" THEN StagedRetries
                                                          ELSE 1,
                             !.since = Len(moves[b])]]
    /\ UNCHANGED <<store, client, history>>

Finish(c, result) ==
    op' = [op EXCEPT ![c].pc = "done", ![c].result = result]

\* After the snapshot: the reflog, the next attempt, or RefConflictError.
AfterSnapshot(c) ==
    CASE op[c].moved /\ op[c].kind = "branch" -> Finish(c, "updated")
      [] op[c].moved /\ op[c].kind # "branch" ->
           op' = [op EXCEPT ![c].pc = "log"]
      [] ~op[c].moved /\ op[c].tries > 1 ->
           op' = [op EXCEPT ![c].pc = "state", ![c].tries = @ - 1]
      [] OTHER -> Finish(c, "conflict")

\* commit, commit --staged: on the current branch, born or not.
StartCommit(c) ==
    \E kind \in {"commit", "staged"} :
        Start(c, kind, "extend", current[Workspace(c)], "state", None, None, None)

\* import-s3: a commit on a given branch, born or not.
StartImport(c, b) == Start(c, "import", "extend", b, "state", None, None, None)

\* rm, mv: a commit on a given branch.
StartMutate(c, b) == Start(c, "mutate", "extend", b, "state", None, None, None)

\* identity promote: the ref is resolved afresh, no snapshot is involved.
StartPromote(c, b) ==
    /\ head[b] \in Commits
    /\ Start(c, "promote", "extend", b, "decide", None, head[b], None)

\* merge: the source ref has been resolved to a commit of the store.
StartMerge(c, b, source) ==
    /\ source \in stored
    /\ Start(c, "merge", "join", b, "target", source, None, None)

\* reset: the ref has been resolved to a commit of the store.
StartReset(c, b, target) ==
    /\ target \in stored
    /\ Start(c, "reset", "move", b, "target", target, None, None)

\* branch: an existing branch with a commit is refused.
StartBranch(c, b) ==
    /\ CommitOf(head[b]) = None
    /\ Start(c, "branch", "move", b, "target", None, None, None)

\* branch --delete: never the current branch; the head is read afresh.
StartDelete(c, b) ==
    /\ b # current[Workspace(c)]
    /\ CommitOf(head[b]) # None
    /\ Start(c, "delete", "move", b, "cas", None, head[b], None)

\* checkout: set_current_branch.
Checkout(c, b) ==
    /\ op[c].pc = "idle"
    /\ "checkout" \in Ops
    /\ started < MaxOps
    /\ started' = started + 1
    /\ head[b] # Absent
    /\ current' = [current EXCEPT ![Workspace(c)] = b]
    /\ UNCHANGED <<store, snapshot, reflog, op, history>>

-----------------------------------------------------------------------------
(* Faulty variants.  Each is one of the definitions below with a mistake   *)
(* in it; no specification uses them.  PROJECT.json pairs each with the    *)
(* property that tells it from the real one.                               *)

\* The ref of a branch that does not exist is cached like any other.
ReadStateUnguarded(c) ==
    /\ op[c].pc = "state"
    /\ snapshot[Workspace(c)][op[c].branch] = NoSnap
    /\ op' = [op EXCEPT ![c].pc = "cache", ![c].expected = head[op[c].branch]]
    /\ UNCHANGED <<store, client, history, started>>

\* The second read goes to the ref and becomes the parent; the tree is still
\* computed from the first.
ReadBaseAsParent(c) ==
    /\ op[c].pc = "base"
    /\ op' = [op EXCEPT ![c].pc = "decide", ![c].target = op[c].expected,
                        ![c].expected = CommitOf(head[op[c].branch])]
    /\ UNCHANGED <<store, client, history, started>>

\* The branch state is not checked again before the fast-forward.
FastForwardUnchecked(c) ==
    /\ op[c].pc = "decide" /\ op[c].path = "ff"
    /\ op' = [op EXCEPT ![c].pc = "cas", ![c].new = op[c].source]
    /\ UNCHANGED <<store, client, history, started>>

\* The ref is written whatever it holds.
CasUnchecked(c) ==
    LET b == op[c].branch
    IN
    /\ op[c].pc = "cas"
    /\ head' = [head EXCEPT ![b] = op[c].new]
    /\ moves' = [moves EXCEPT ![b] =
                    Append(@, [old |-> op[c].expected, new |-> op[c].new,
                               by |-> Workspace(c), kind |-> op[c].kind])]
    /\ op' = [op EXCEPT ![c].pc = "reread", ![c].moved = TRUE]
    /\ UNCHANGED <<stored, parents, anc, client, unlogged, started>>

\* A refused update is recorded in the reflog.
CasRefusedLogged(c) ==
    /\ op[c].pc = "cas"
    /\ CommitOf(head[op[c].branch]) # op[c].expected
    /\ IF op[c].kind = "branch"
       THEN Finish(c, "error")
       ELSE op' = [op EXCEPT ![c].pc = "log"]
    /\ UNCHANGED <<store, client, history, started>>

\* The snapshot becomes what the operation wanted to write.
SnapshotOfWish(c) ==
    /\ op[c].pc = "snap"
    /\ snapshot' = [snapshot EXCEPT ![Workspace(c)][op[c].branch] = op[c].new]
    /\ AfterSnapshot(c)
    /\ UNCHANGED <<store, current, reflog, history, started>>

\* Only a refused update refreshes the snapshot.
SnapshotOfRefusedOnly(c) ==
    /\ op[c].pc = "snap"
    /\ snapshot' = IF op[c].moved \/ op[c].seen = Absent
                   THEN snapshot
                   ELSE [snapshot EXCEPT ![Workspace(c)][op[c].branch] = op[c].seen]
    /\ AfterSnapshot(c)
    /\ UNCHANGED <<store, current, reflog, history, started>>

\* Only an applied update refreshes the snapshot.
SnapshotOfAppliedOnly(c) ==
    /\ op[c].pc = "snap"
    /\ snapshot' = IF ~op[c].moved
                   THEN snapshot
                   ELSE [snapshot EXCEPT ![Workspace(c)][op[c].branch] = op[c].seen]
    /\ AfterSnapshot(c)
    /\ UNCHANGED <<store, current, reflog, history, started>>

\* The retry loop has neither a bound nor a fresh snapshot.
RetryForever(c) ==
    /\ op[c].pc = "snap"
    /\ op' = [op EXCEPT ![c].pc = IF op[c].moved THEN "log" ELSE "state"]
    /\ UNCHANGED <<store, client, history, started>>

-----------------------------------------------------------------------------
\* The second ref an operation reads, afresh from the store.

\* merge: resolve the target, then nothing to do, fast-forward, or a
\* three-way merge, which may find conflicting paths.
ResolveMergeTarget(c) ==
    LET t == head[op[c].branch]
        s == op[c].source
    IN
    /\ op[c].pc = "target" /\ op[c].kind = "merge"
    /\ \/ /\ t \in {None, Absent}
          /\ Finish(c, "error")
       \/ /\ t \in Commits /\ IsAncestor(s, t)
          /\ Finish(c, "unchanged")
       \/ /\ t \in Commits /\ ~IsAncestor(s, t) /\ IsAncestor(t, s)
          /\ op' = [op EXCEPT ![c].pc = "state", ![c].path = "ff"]
       \/ /\ t \in Commits /\ ~IsAncestor(s, t) /\ ~IsAncestor(t, s)
          /\ \/ op' = [op EXCEPT ![c].pc = "state", ![c].target = t]
             \/ Finish(c, "error")
    /\ UNCHANGED <<store, client, history, started>>

ReadResetState(c) ==
    LET now == CommitOf(head[op[c].branch])
    IN
    /\ op[c].pc = "target" /\ op[c].kind = "reset"
    /\ \/ /\ now = op[c].source
          /\ Finish(c, "unchanged")
       \/ /\ now # op[c].source
          /\ op' = [op EXCEPT ![c].pc = "cas", ![c].expected = now,
                              ![c].new = op[c].source]
    /\ UNCHANGED <<store, client, history, started>>

\* branch: the new branch starts at the head of the current one.
ReadHeadCommit(c) ==
    /\ op[c].pc = "target" /\ op[c].kind = "branch"
    /\ op' = [op EXCEPT ![c].pc = "cas",
                        ![c].new = CommitOf(head[current[Workspace(c)]])]
    /\ UNCHANGED <<store, client, history, started>>

-----------------------------------------------------------------------------
\* require_branch_state: the snapshot if there is one, the ref otherwise.

AfterState(c) == IF op[c].kind = "mutate" THEN "base" ELSE "decide"

UseSnapshot(c) ==
    LET s == snapshot[Workspace(c)][op[c].branch]
    IN
    /\ op[c].pc = "state"
    /\ s # NoSnap
    /\ op' = [op EXCEPT ![c].pc = AfterState(c), ![c].expected = s]
    /\ UNCHANGED <<store, client, history, started>>

\* No ref: an unborn branch for a commit, UnknownRefError for the others.
StateOfUnborn(c) ==
    /\ op[c].pc = "state"
    /\ snapshot[Workspace(c)][op[c].branch] = NoSnap
    /\ head[op[c].branch] = Absent
    /\ IF op[c].kind \in UnbornAllowed
       THEN op' = [op EXCEPT ![c].pc = "decide", ![c].expected = None]
       ELSE Finish(c, "error")
    /\ UNCHANGED <<store, client, history, started>>

ReadState(c) ==
    LET ref == head[op[c].branch]
    IN
    /\ op[c].pc = "state"
    /\ snapshot[Workspace(c)][op[c].branch] = NoSnap
    /\ ref # Absent
    /\ op' = [op EXCEPT ![c].pc = "cache", ![c].expected = ref]
    /\ UNCHANGED <<store, client, history, started>>

CacheState(c) ==
    /\ op[c].pc = "cache"
    /\ snapshot' = [snapshot EXCEPT ![Workspace(c)][op[c].branch] =
                        op[c].expected]
    /\ op' = [op EXCEPT ![c].pc = AfterState(c)]
    /\ UNCHANGED <<store, current, reflog, history, started>>

\* rm and mv read the state once more (require_commit_for_metadata_mutation)
\* and compute the new tree from that commit.  The first read has cached it.
ReadBase(c) ==
    LET s == snapshot[Workspace(c)][op[c].branch]
    IN
    /\ op[c].pc = "base"
    /\ s # NoSnap
    /\ IF s = None
       THEN Finish(c, "error")
       ELSE op' = [op EXCEPT ![c].pc = "decide", ![c].target = s]
    /\ UNCHANGED <<store, client, history, started>>

-----------------------------------------------------------------------------
\* write_commit_object up to the compare-and-set: the id is the hash of the
\* content, so it is new or it names a stored commit with these parents.
Publish(c, ps) ==
    \E k \in Commits :
        /\ k \notin stored \/ parents[k] = ps
        /\ stored' = stored \union {k}
        /\ parents' = [parents EXCEPT ![k] = ps]
        /\ anc' = [anc EXCEPT ![k] = {k} \union UNION {anc[p] : p \in ps}]
        /\ op' = [op EXCEPT ![c].pc = "cas", ![c].new = k]
        /\ UNCHANGED <<head, client, history, started>>

\* A commit on top of the state.
Extend(c) ==
    /\ op[c].pc = "decide" /\ op[c].path = "extend"
    /\ Publish(c, {op[c].expected} \ {None})

\* The merge commit has the target that was read as its first parent; the
\* compare-and-set expects the branch state.
Join(c) ==
    /\ op[c].pc = "decide" /\ op[c].path = "join"
    /\ Publish(c, {op[c].target, op[c].source})

\* fast_forward_branch; merge reports an update whatever it returns.
FastForward(c) ==
    LET now == op[c].expected
        s == op[c].source
    IN
    /\ op[c].pc = "decide" /\ op[c].path = "ff"
    /\ \/ /\ now = s
          /\ Finish(c, "updated")
       \/ /\ now \notin {s, None} /\ ~IsAncestor(now, s)
          /\ Finish(c, "nonff")
       \/ /\ now # s
          /\ now = None \/ IsAncestor(now, s)
          /\ op' = [op EXCEPT ![c].pc = "cas", ![c].new = s]
    /\ UNCHANGED <<store, client, history, started>>

-----------------------------------------------------------------------------
\* update_branch_ref (and the compare-and-set of branch).

CasApplied(c) ==
    LET b == op[c].branch
    IN
    /\ op[c].pc = "cas"
    /\ CommitOf(head[b]) = op[c].expected
    /\ head' = [head EXCEPT ![b] = op[c].new]
    /\ moves' = [moves EXCEPT ![b] =
                    Append(@, [old |-> op[c].expected, new |-> op[c].new,
                               by |-> Workspace(c), kind |-> op[c].kind])]
    /\ op' = [op EXCEPT ![c].pc = "reread", ![c].moved = TRUE]
    /\ UNCHANGED <<stored, parents, anc, client, unlogged, started>>

CasRefused(c) ==
    /\ op[c].pc = "cas"
    /\ CommitOf(head[op[c].branch]) # op[c].expected
    /\ IF op[c].kind = "branch"
       THEN Finish(c, "error")
       ELSE op' = [op EXCEPT ![c].pc = "reread"]
    /\ UNCHANGED <<store, client, history, started>>

Reread(c) ==
    /\ op[c].pc = "reread"
    /\ op' = [op EXCEPT ![c].pc = "snap", ![c].seen = head[op[c].branch]]
    /\ UNCHANGED <<store, client, history, started>>

\* record_branch_snapshot of what is there now, ours or not.
WriteSnapshot(c) ==
    /\ op[c].pc = "snap"
    /\ snapshot' = IF op[c].seen = Absent
                   THEN snapshot
                   ELSE [snapshot EXCEPT ![Workspace(c)][op[c].branch] = op[c].seen]
    /\ AfterSnapshot(c)
    /\ UNCHANGED <<store, current, reflog, history, started>>

AppendReflog(c) ==
    LET w == Workspace(c)
        b == op[c].branch
    IN
    /\ op[c].pc = "log"
    /\ reflog' = [reflog EXCEPT ![w][b] =
                    Append(@, [old |-> op[c].expected, new |-> op[c].new])]
    /\ Finish(c, "updated")
    /\ UNCHANGED <<store, snapshot, current, history, started>>

Return(c) ==
    /\ op[c].pc = "done"
    /\ op' = [op EXCEPT ![c] = Idle]
    /\ UNCHANGED <<store, client, history, started>>

\* The ref has moved and its reflog line is still to be written.
AwaitsReflog(c) ==
    /\ op[c].pc \in {"reread", "snap", "log"}
    /\ op[c].moved
    /\ op[c].kind # "branch"

\* The process dies, or the operation raises before its next step.
Crash(c) ==
    /\ op[c].pc \notin {"idle", "done"}
    /\ op' = [op EXCEPT ![c] = Idle]
    /\ unlogged' = IF AwaitsReflog(c)
                   THEN [unlogged EXCEPT ![Workspace(c)][op[c].branch] = @ + 1]
                   ELSE unlogged
    /\ UNCHANGED <<store, client, moves, started>>

-----------------------------------------------------------------------------
Begin(c) ==
    \/ StartCommit(c)
    \/ \E b \in Branches :
        \/ StartImport(c, b)
        \/ StartMutate(c, b)
        \/ StartPromote(c, b)
        \/ StartBranch(c, b)
        \/ StartDelete(c, b)
        \/ Checkout(c, b)
        \/ \E k \in Commits : StartMerge(c, b, k) \/ StartReset(c, b, k)

Work(c) ==
    \/ ResolveMergeTarget(c)
    \/ ReadResetState(c)
    \/ ReadHeadCommit(c)
    \/ UseSnapshot(c)
    \/ StateOfUnborn(c)
    \/ ReadState(c)
    \/ CacheState(c)
    \/ ReadBase(c)
    \/ Extend(c)
    \/ Join(c)
    \/ FastForward(c)
    \/ CasApplied(c)
    \/ CasRefused(c)
    \/ Reread(c)
    \/ WriteSnapshot(c)
    \/ AppendReflog(c)
    \/ Return(c)

Next == \E c \in Clients : Begin(c) \/ Work(c) \/ Crash(c)

Spec == Init /\ [][Next]_vars

\* A process that is not killed keeps executing its operation.
Fairness == \A c \in Clients : WF_vars(Work(c))

FairSpec == Spec /\ Fairness

-----------------------------------------------------------------------------
(* Whatever the clients' snapshots say and however their steps interleave, *)
(* a commit, import, rm, mv, promote or fast-forward that moves a born     *)
(* branch moves it to a descendant of the commit that was there: the       *)
(* history it replaces stays reachable.                                    *)
NonMergeMovesAdvance ==
    [][\A b \in Branches :
         head[b] \in Commits /\ head'[b] # head[b] =>
            \/ head'[b] \in Commits /\ head[b] \in anc[head'[b]]
            \/ \E c \in Clients : /\ op[c].pc = "cas"
                                  /\ op[c].branch = b
                                  /\ op[c].path \in {"join", "move"}]_vars

(* What write_commit_object says of merge: the compare-and-set expects the *)
(* first parent, so a merge too keeps every commit of the branch reachable *)
(* and only reset and branch --delete may drop one.                        *)
NoLostUpdate ==
    [][\A b \in Branches :
         head[b] \in Commits /\ head'[b] # head[b] =>
            \/ head'[b] \in Commits /\ head[b] \in anc[head'[b]]
            \/ \E c \in Clients : /\ op[c].pc = "cas"
                                  /\ op[c].branch = b
                                  /\ op[c].path = "move"]_vars

(* A snapshot is never invented: whatever order the rereads and the writes *)
(* of snapshots come in, it holds a value the branch really had (what an   *)
(* earlier session left is taken to be one).                               *)
SnapshotWasHead ==
    \A w \in Workspaces, b \in Branches :
        \/ snapshot[w][b] = InitHead[b]
        \/ \E s \in InitSnapshots : snapshot[w][b] = s[w][b]
        \/ \E i \in DOMAIN moves[b] : snapshot[w][b] = moves[b][i].new

OwnMoves(w, b) ==
    {i \in DOMAIN moves[b] : moves[b][i].by = w /\ moves[b][i].kind # "branch"}

(* The reflog accounts for the moves the workspace made: one line for each *)
(* update_branch_ref that was applied, none for one that was refused or    *)
(* superseded, short only of those whose process died in between.          *)
ReflogIsFaithful ==
    \A w \in Workspaces, b \in Branches :
        /\ Cardinality(OwnMoves(w, b)) =
             Len(reflog[w][b]) + unlogged[w][b]
             + Cardinality({c \in Clients : /\ Workspace(c) = w
                                            /\ op[c].branch = b
                                            /\ AwaitsReflog(c)})
        /\ \A j \in DOMAIN reflog[w][b] :
             \E i \in OwnMoves(w, b) :
                /\ moves[b][i].old = reflog[w][b][j].old
                /\ moves[b][i].new = reflog[w][b][j].new

(* A workspace of one process reads its own writes: after an update that   *)
(* ran to its end, the snapshot is the commit that update wrote or one     *)
(* that replaced it later, never an older one.                             *)
SnapshotCoversOwnMoves ==
    \A w \in Workspaces, b \in Branches :
        \/ ~Alone(w) \/ OwnMoves(w, b) = {}
        \/ unlogged[w][b] > 0
        \/ \E c \in Clients : /\ Workspace(c) = w
                              /\ op[c].branch = b
                              /\ op[c].pc \in {"reread", "snap"}
        \/ \E i \in DOMAIN moves[b] :
             /\ \A j \in OwnMoves(w, b) : j <= i
             /\ snapshot[w][b] = moves[b][i].new

(* commit --staged gives up only after losing real races: every attempt    *)
(* but the first starts from the ref the last one saw, so a RefConflict    *)
(* after all the retries means the branch moved that many times less one   *)
(* while the command ran (in a workspace of one process).                  *)
StagedConflictMeansRaces ==
    \A c \in Clients :
        /\ Alone(Workspace(c))
        /\ op[c].pc = "done" /\ op[c].kind = "staged"
        /\ op[c].result = "conflict"
        => Len(moves[op[c].branch]) - op[c].since >= StagedRetries - 1

(* The tree rm and mv commit was computed from the very commit their       *)
(* compare-and-set replaces, although the two are read one after the       *)
(* other; otherwise what the parent added is dropped without a conflict.   *)
(* This holds in a workspace of one process.                               *)
MutationBuiltOnParent ==
    [][\A c \in Clients :
         CasApplied(c) /\ op[c].kind = "mutate" /\ Alone(Workspace(c)) =>
             op[c].target = op[c].expected]_vars

(* Every operation ends, with a result or an error: no retry loop waits on *)
(* the other clients.                                                      *)
OpFinishes == \A c \in Clients : op[c].pc # "idle" ~> op[c].pc = "idle"

(* Seen from the refs alone, the operations are clients of the atomic      *)
(* register of RefCas: no path through them writes a ref any other way.    *)
Register ==
    INSTANCE RefCas WITH
        MayRefuse <- FALSE, MayLose <- FALSE,
        ref <- [b \in Branches |-> CommitOf(head[b])],
        call <- [c \in Clients |->
            IF op[c].pc \in {"cas", "reread"}
            THEN [branch |-> op[c].branch, expected |-> op[c].expected,
                  new |-> op[c].new,
                  result |-> CASE op[c].pc = "cas" -> "pending"
                               [] op[c].pc = "reread" /\ op[c].moved -> "true"
                               [] OTHER -> "false"]
            ELSE [result |-> "idle"]]

UsesRefCas == Register!Spec
=============================================================================
