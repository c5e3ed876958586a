# Verification of reflake

reflake is a data version-control system: branches point to commits, commits to
directory trees, trees to blobs, and all of them live in one object store, a
local directory or an S3 prefix. Clients share the store without a server: the
only coordination is compare-and-set on a branch pointer, and objects are
immutable and named by the hash of their content. This directory holds TLA+
models of that machinery, the TLC configurations that check them, and proofs
checked by TLAPS. Paths below are relative to `src/src/reflake/core/` unless
they begin with `src/`.

## 1. Inventory

| Part | State | Operations | Modules |
|---|---|---|---|
| Ref compare-and-set (`objects/base.py`, `local.py`, `s3.py`) | one value per branch | `read_branch_ref`, `compare_and_set_branch_ref` | RefCas, LocalRefCas, S3RefCas |
| Branch operations (`services/refs.py`, `repository.py`, `repository_ops.py`, `services/tree.py`) | refs and commits of the store; per client the snapshots, HEAD, reflog | commit, commit --staged, import-s3, rm, mv, promote, merge, reset, branch, branch --delete, checkout | BranchOps |
| Client state (`client_state.py`) | HEAD, branch snapshots, reflog, staging payload | atomic file writes, append | BranchOps, Staging |
| Garbage collection (`repository.py`) | the objects and their ages | mark from all refs, sweep kind by kind | ObjectGc |
| Sync (`repository_sync.py`) | two repositories and the snapshots | push, pull, fetch | Sync |
| Commit graph (`repository_support.py`) | none (parents, generations) | `is_ancestor_commit`, `merge_base_commit`, the traversals of `log` and push | CommitGraph |
| Trees (`services/tree.py`, `tree_inspect.py`, `objects/tree.py`, `query.py`) | none (immutable trees) | splice, shard, build, prune, three-way merge, diff, lookup | FilePaths, Directories, TreeNodes, TreeWriter, Trees |
| Staging (`services/staging.py`, `services/entries.py`, `repository_ops.py`) | one payload per branch | add, rm, mv --staged, status, and what commit makes of them | FilePaths, Staging |
| Restore, verify (`repository_ops.py`) | the worktree | restore, promote, drift check | Staging (the read-only audit is left out) |
| Blob I/O (`objects/local.py`, `s3.py`, `multipart.py`, `transfer.py`) | temporary files, multipart uploads | hash-verified write, multipart, batch copy | steps of ObjectGc and Sync; otherwise section 6 |
| Footers, pruning, catalog, vfs, codec, config, ignore, cli | none shared | formats and queries | not modelled, see section 6 |

How they interact. Every mutation reads a *branch state* (the client's snapshot
of the ref if there is one, the ref otherwise), publishes immutable objects,
and then calls `update_branch_ref`: one compare-and-set, a reread of the ref
that refreshes the snapshot, and a reflog line. `commit --staged` retries from
the refreshed snapshot. Sync runs the same `fast_forward_branch` on the
destination after copying the objects. The collector reads the refs, marks what
they reach and deletes the rest if it is old enough.

add, rm and mv change a payload, not the branch; commit turns the payload, and
unless `--staged` the worktree, into a tree on top of the parent's. Every
directory of a tree is a node of its own, and a large one a list of name ranges;
writer, readers, diff and merge work node by node and never see the whole.

What is hard: processes interleave between any two file or S3 requests; each
may die anywhere; snapshots may be arbitrarily old; S3 responses get lost; an
object written before the ref is garbage until the ref moves; transfers stop
half-way and are retried; operations read the same thing twice. PROJECT.json
lists these hazards line by line with the properties that cover them.

What makes each part correct, in a line: the adapters are an atomic register;
no operation that is not merge, reset or delete drops history; snapshots are
values the branch had and reflogs the moves it made; no head ever lacks an
object it reaches; a remote branch only fast-forwards and success means
delivery; the graph walks answer reachability exactly although they prune; a tree holds
exactly the files its history of edits says, whatever its layout; what is
committed is what was staged, applied to the branch as it is.

## 2. Modules

**RefCas** is the contract of `RefCas` in `objects/base.py`: a register per
branch; a call is invoked, takes effect or is refused at one instant, and
returns. Two constants weaken it to what an adapter can promise. `MayRefuse`
allows a refusal although the value matched: the service may refuse a
conditional PUT that raced. `MayLose` allows a write that takes effect and is
reported as refused or failed: the response was lost. The local adapter
implements the register with both FALSE.

**LocalRefCas** is `compare_and_set_branch_ref` of `objects/local.py` in its
system calls: flock, read and compare, create and write the temporary file,
rename, unlock. Writing and renaming may raise; a process may die at any step,
which frees its flock and leaves its temporary file. `file` is the content of
each ref file, `temps` the temporary files beside them, `lock` the flock,
`proc` the call of each process.

**S3RefCas** is the same call of `objects/s3.py`: GET, compare, conditional
PUT. `ETagsServed` and `ResponsesLost` choose the service. An ETag is the
content it is a hash of. A commit id that reappears (A, B, A) therefore
satisfies an `IfMatch` on A; compare-and-set on commit ids permits that. `raced`
remembers the processes whose ref changed under them.

**BranchOps** is every operation that moves a ref, cut where it touches what
others can see. `op[c].pc` walks: `target` (the second ref merge, reset and
branch read), `state` and `cache` (`require_branch_state`), `base` (the second
read of rm and mv), `decide` (publish a commit or choose the fast-forward),
`cas`, `reread`, `snap`, `log` (`update_branch_ref`), `done`. A client is a
process; `WorkspaceOf` gives its client-state directory, so two processes in
one local repository share snapshots, HEAD and reflog and two clients of an S3
repository do not. Commits carry only their parents. A published commit is new
or, because ids are content hashes, an existing one with the same parents.
`InitSnapshots` are the snapshots earlier sessions may have left. `moves` and
`unlogged` are history variables. Three properties speak of
operations whose workspace no other process uses (`Alone`): in a shared one the
code makes no such promise (section 4).

**CommitGraph** is one turn of the loop per step of `is_ancestor_commit` and
`merge_base_commit`, and of the traversals of `log` and
`_collect_commits_to_push`. The graph is a variable that Init draws from
`Histories` and that never changes; a history says what the commit objects say,
which commits can be read, and what `_GenerationProvider.of` returns for each:
the stored generation or, for commits from before generations were stored, one
more than the largest of the parents. `lenient` is the reader of
`_is_ancestor_in`, which goes around missing commits; the other readers raise.
`marks` are the sides a commit was reached from (for the one-sided walks, the
set `seen`), `pending` is the stack or the heap. Where the code takes pending
commits in the order of ids or of parents the model takes any, since no answer
depends on it.

**ObjectGc** is `gc --prune` beside writers. An object is stored with an age or
missing; a writer puts the blobs, trees and commit it adds (if missing, so an
old object keeps its age; the commit is rewritten) and then moves the ref; the
collector takes its cutoff, reads the refs one at a time, marks, lists a kind,
deletes it in batches, and goes on to the next. One tree stands for the trees of
a commit and footers count as blobs. `Tick` obliges every writer to end within
the window, the assumption the window is sized by.

**Sync** is push, pull and fetch of one branch between local clones and one S3
repository: resolve, check for divergence, list missing commits, plan, copy
(commits, trees, blobs, in that order), fast-forward by the snapshot,
compare-and-set. A transfer may stop at any step and leaves what it has copied;
`cut` remembers into which repositories one stopped.

**FilePaths** has logical paths and flat sets of files (functions from paths to
contents), and says of each operation on trees what it does to such a set:
`FlatSplice`, `FlatCommit`, `FlatMerge`, `FlatDiff`. It is the abstract
specification of the tree modules and what Staging computes commits with. A
name is a number; `Extends` holds the pairs of names of which one extends the
other by a character below the slash (`a` and `a.csv`), where the order of path
strings, which `sorted` and the removal ranges use, is not the order of a walk.

**Directories** is one directory: a node, which is a sorted sequence of leaves,
subdirectories and shards and stands for its own hash, how a name is found in it
(`Descend`, `ExpandShards` of `objects/query.py`, `ChildNamed`), how it is split
(`Split`, `SplitEvenly`) and how some of its ranges are rewritten (`ShardIndex`,
`ReplaceRanges`, `SameRanges`, steps of `services/tree.py`). Nothing in it is
recursive; `SoundNode` is the layout that all of it keeps.

**TreeNodes** is trees of such directories and their readers:
`ResolveDirectory`, `LookupEntry` and `EntriesForPrefix` are those of
`objects/query.py`; `TreeHashes`, `LeafRefs` and `DiffTrees` those of
`services/tree_inspect.py`.

**TreeWriter** is `services/tree.py` up to the commit object: the builder with
its stack of frames (`AddFiles`, also over the parent's children in a full
commit), `SpliceTree` with the rewriting of touched ranges only, `PruneNode`
with its string ranges, `ThreeWayMerge` by nodes and, where all sides have the
same ranges, by ranges. What raises is visible: a merge returns whether the
assertion of `_merge_child` failed, and a node that `validate_tree_node` refuses
is built and looked at by the caller.

**Trees** applies these operators to two branches and, beside them, their flat
counterparts to two file sets, from a common start tree, with merges between and
the fork moving to the last merge. `known` records that a tree has met one of
the two ways it goes wrong that section 4 describes (nested shards, a removal
that misses a shard); the properties speak of trees that have met neither.

**Staging** is one repository directory: worktree and S3 objects (`disk`), the
payload of the branch (`staged`), the branch as a list of file sets, the
snapshot, and processes. add, rm and mv load the payload and save it; commit
loads it, materialises the additions, builds, compares-and-sets with retries,
and clears; import, move, remove and promote build and compare-and-set; restore
takes one file at a time, looks and puts. Reading the worktree for one of these
steps is one step, and the compare-and-set with the snapshot that follows is
one: BranchOps takes those apart. `intent`, `overlapped` and `unchecked` are history
variables, as is `calm` of a process: no source changed since it began. A
content stands for size, time and ETag too; the identity mode of the repository
is `content` (entries of either mode are added and imported), `trust_mtime` and
the capture of footers are off.

How they compose: LocalRefCas and S3RefCas implement RefCas; BranchOps uses it
(`UsesRefCas` shows that its steps on refs are RefCas calls), and Sync, ObjectGc
and Staging take its compare-and-set as one step. BranchOps, ObjectGc and Sync
take the ancestor relation as one step, which CommitGraph justifies. Staging
takes a commit as its set of files and computes it with the operators of
FilePaths; Trees shows that the tree algorithms keep to the same operators.
`MC*` modules give the constants values. Definitions under "Faulty variants",
and those marked "mutant of", are deliberate mistakes; no specification uses
them. PROJECT.json pairs each with the property that must detect it.

## 3. Runs

Passing:

| Run | Instance | Shows |
|---|---|---|
| LocalRefCas | 2 processes, 2 branches, 2 commits, 1 leftover temporary file, fairness | the flock is exclusive, the compared value stands at the rename, the register is implemented, the lock is always released |
| S3RefCas | 2 processes, 2 refs, GETs may lack an ETag, responses may be lost | the register is implemented, short of writes that take effect unheard; a 412 always has a cause |
| CommitGraph | every history of 4 commits with at most 2 parents each, its oldest 0 to 4 commits without a stored generation, complete or with one commit missing, and every query | ancestry, merge bases and listings are exact; the merge-base walk stops where the histories meet; only gaps raise |
| BranchOps | 3 processes (two share a client state), 2 branches, all operations, any 2 of them | history, snapshot, reflog and base properties |
| BranchLive | 2 clients, one perhaps with the snapshot of an earlier session: staged, rm/mv, merge, branch, delete; 2 operations, 2 attempts, fairness | every operation ends; refs are moved as a client of the register moves them; own moves are in the snapshot; a conflict of a staged commit means as many real races |
| Gc | three settings. Beside: 2 writers of new content, window 1, 3 ticks, 2 sweeps. Branching: 1 writer that also makes branches, 2 ticks, 1 sweep. Apart: 1 writer with all operations over orphans of every kind, never beside a sweep | heads stay whole; live data is kept, sweeps are thorough |
| Sync | 2 clones, 6 commits with merges, 3 transfers each, interruptions | only a repository a transfer stopped into can lack data; the remote only fast-forwards; success is delivery |
| Trees | 2 branches, 9 paths with a directory that grows from 3 to 5 names and whose second name is a file or a directory, nodes of 2 entries, 2 start trees, 22 staged changes, 8 full commits; 3 edits and a merge between any of them | a tree holds the files it should; lookups, listings, diff and merge agree with the flat sets; no node is refused; edits share what they do not touch |
| Staging | 2 processes (one stages, commits with and without `--staged`; one does everything else), 7 paths, 1 S3 object, 3 starts, 1 commit of another clone or 1 write to a source, 3 operations, 2 attempts, deaths anywhere | the payload is what was asked for; a commit is its operation applied to the head; clashes are caught, status foretells commit, staged and direct moves agree; moves, restores and promotions lose nothing |

A `TypeOK` that no run lists (LocalRefCas, CommitGraph, S3RefCas, ObjectGc, Sync)
states the types of the module's state for its reader and its proofs; all of
these are proved (section 5).

Violations. Each checks one property that a comment or docstring states and the
code does not keep; PROJECT.json quotes both.

| Run | What TLC finds |
|---|---|
| MergeLosesUpdate | a commit that lands between merge's read of its target and its read of the expectation is dropped |
| GcReuse | an orphan older than the window is reused by a writer and deleted by the sweep |
| SyncResume | a push cut after the commits is completed by a retry that copies nothing |

Gc shows what does hold of the collector: beside writers of new content while
no ref goes back (`NewContentOnly`), or without writers; the run GcReuse has
neither condition. reset and `branch --delete` beside a sweep are outside it, as
they can let go of a commit that a merge has read and is about to build on, and
reset can name one whose older trees a sweep has already taken. Sync shows the same of
transfers, with `cut` telling the repositories apart.

### Bounds

Each property relates one operation to the steps of others, and one peer that
performs several operations produces every value a second peer could; the third
process of BranchOps is there so that a shared client state has a peer outside
it. `MaxOps` (2 or 3) lets an operation meet another one and the leftovers
(snapshot, reflog) of a third; in BranchLive the leftover is there from the
start, so that two attempts of one operation can both fail. Three or four fresh
commits let a branch be moved more often than one operation can see, and no
operation wait for one. The history has a fork, so that merge,
fast-forward and refusal all occur. Four commits give CommitGraph forks, several
roots, merges and criss-cross merges, whose best common ancestor is not unique.
The collector's instances have two unreachable chains, a shared tree and blob,
an unborn branch, a batch smaller than a kind and a window of one tick with the
boundary ages on both sides of it. In Sync each clone can be ahead, behind and
diverged, and the third transfer is the retry after a failed one. A node of two
entries makes Trees split, empty, repack and overflow ranges with five names;
the directories are large enough for two levels and bounded there (`Fits`),
since the build of a third always nests shards.
Three edits and the merges between them reach every pair of layouts of fork and
branches that the changes can make. In Staging three operations are a staging
operation, one that meets it and the commit of both; the one peer commit or
write is what a snapshot, a retry or a materialisation can miss; two attempts
are a retry and its exhaustion. `MaxLitter`
stops LocalRefCas from collecting temporary files of dead processes for ever.
Symmetry is used over fresh commits, over processes that share a client state
and over writers, in runs without liveness properties. Configurations of
BranchOps, ObjectGc, Sync, Trees and Staging switch deadlock checking off:
clients stop when the bound on operations is used up. LocalRefCas, S3RefCas and CommitGraph are
checked for deadlock.

### Fairness

`LocalRefCas!Fairness` and `BranchOps!Fairness` are weak fairness of the steps
of each process: a process that is not killed keeps executing its straight-line
code, which is all the operating system gives. No fairness is assumed of who
obtains the flock, of the service or of the absence of crashes: LockIsReleased
says only that a holder lets go, and OpFinishes holds because no operation waits
for a peer in BranchOps, where the compare-and-set is one step.

## 4. Disagreements met while modelling

The three violation runs are kept because each loses published data. These
others came up as failed properties while the models were written; they are not
kept as runs, and the properties that remain are stated for what the code does
promise, each exception by name.

Branches and refs:

- `local.py:276-278`: a comment says that `iter_branches` ignores atomic-write
  temporary files by their leading dot; `NamedTemporaryFile(dir=...)` draws
  names without one, so a listing made during a compare-and-set shows the
  temporary file as a branch.
- `src/docs/operator-runbook.md:234` speaks of a conflict as a race with a peer;
  on S3 an applied PUT whose response is lost is retried by the client and
  refused by the writer's own ETag (`ConflictHasCause` names both causes).
- `repository.py:155-161`: merge returns `updated=True` although the
  fast-forward, which works from the snapshot, moved nothing
  (`src/README.md:278`).
- `repository_ops.py:177-178`: rm and mv read the branch state twice; another
  process of the same client state can put a commit between the two, and the
  mutation of the older tree is then committed on the newer parent
  (`src/README.md:525`). `MutationBuiltOnParent` is stated for processes with a
  client state of their own.
- `services/refs.py:117-123`: `branch` creates a ref without a reflog line
  (`src/CHANGELOG.md:476`, `src/README.md:372`).
- `services/refs.py:96` with `repository.py:779`: ages are judged object by
  object, so a sweep can keep an orphan commit and take its older trees; `reset`
  accepts the commit and makes it a head. Gc starts with
  orphans of one age and, among these operations, sweeps once.
- `services/refs.py:220` with `repository_sync.py:409`: push can report a
  conflict because its own snapshot of the remote branch is stale; the next push
  succeeds.

Trees:

- `objects/query.py:109` says "Shards never nest, so one pass suffices"
  (`src/docs/vision.md:173`, `src/docs/architecture.md:177` agree). They can:
  `_merge_sharded` gives a range that outgrew a node to `_build_children`, which
  shards it again, and so does a directory of more than `MAX_TREE_ENTRIES`
  squared names. One pass of `expand_shards` then shows the inner shards as
  names. TLC finds it after a start, two edits and a merge. `known` = "nested". OneSplitSuffices and
  MergedRangesMustFit (section 5) say exactly when.
- `services/tree.py:645`: a staged removal of `a/x` in a full commit is ignored
  when the directory is sharded and a range starts at a name such as `a.csv`:
  on strings `a/x` falls into that range, while the directory `a` it lies in is
  an entry of the range before, which is not looked at. `known` = "prune".
- `services/tree.py:940`: if both sides deleted one name of a directory that both
  changed, the assertion of `_merge_child` fails, although `three_way_merge`
  says "identical on both sides wins" (`MergeIsSound`).
- A directory that was only laid out anew (removing what was added leaves other
  ranges) has another hash, so deleting it on the other side is a conflict
  although one side alone changed it (`src/README.md:279`,
  `src/docs/architecture.md:402`). `MergeIsSound` allows it.
- `objects/query.py:200` promises "ascending path order"; the walk ascends by
  name, directory by directory, which is another order (`a/x`, `a.csv`).

Staging and worktree:

- `repository_ops.py:41`: "descendants sit directly after their ancestor" is not
  so for `a`, `a-b`, `a/c`, so the clash of `a` and `a/c` passes; mv --staged
  does not look for clashes at all, nor does rm, which may take back the `a-b`
  that stood between the two. commit --staged then raises, and a full commit
  drops the file (`ClashesAreCaught` names the three ways). The third came up in
  the proof: add `a`, `a.csv` and `a/x`, then rm `a.csv` takes four operations,
  one more than the run performs.
- mv --staged of a directory into its own parent (`a/b` to `a`, with `a/b/x` and
  `a/b/b/x`) writes the removal of the one over the addition of the other; the
  file is lost. The direct mv is right (`StagedMoveIsMove`).
- mv --staged has no check that the destination exists, which mv has
  (`repository_ops.py:285`); and both let a moved file displace a directory, or
  a file above it inside the destination, although
  `_require_directory_destination` holds that such a move "must fail loudly"
  (`MoveLosesNothing` names what is displaced).
- `services/entries.py:146`: a moved blob yields to a worktree file at its
  destination; a moved pointer is described again, which records the ETag of
  today and hides drift.
- `repository.py:269`: "staged adds survive a full commit even when the source
  file is gone"; `entry_from_stage_change` raises SourceNotFoundError then.
- `src/README.md:304`: "Deletion is never inferred from the filesystem"; a
  worktree file where the branch has a directory drops the directory
  (`StatusPredictsCommit` names it).
- `src/docs/vision.md:246`: restore "never overwrites unless --force"; a file
  created between `exists()` and `os.replace` is overwritten
  (`RestoreFillsTheGaps` is about undisturbed restores).
- `repository_ops.py:477`: promote stores what the source holds now, under the
  size and time the pointer recorded, without comparing the ETag
  (`PromoteKeepsBytes` names the case).
- Two overlapping operations on the payload lose what one of them staged, and a
  commit clears what was staged while it ran (`StagedIsIntent` excludes overlap).
- A full commit after a peer's commit takes the worktree's files over the peer's,
  by design: the worktree is an overlay.

## 5. Proofs

Each theorem holds for every value of the constants that satisfies the named
assumption of the module. Eight modules hold them.

| Module | Theorems | Property stated |
|---|---|---|
| LocalRefCasProofs | TypeCorrect, LockIsExclusive, NoStaleCompare, LocalImplementsRefCas, HolderRunsToUnlock | TypeOK, LockDiscipline, ComparedValueStands, ImplementsRefCas |
| S3RefCasProofs | TypeCorrect, ConflictCaused, S3ImplementsRefCas | TypeOK, ConflictHasCause, ImplementsRefCas |
| BranchOpsProofs | TypeCorrect, MovesAdvance, SnapshotsWereHeads, RegisterUsed, ReflogFaithful, OwnMovesCovered, StagedConflictsMeanRaces, MutationsBuiltOnParent, OperationsRunOut | TypeOK, NonMergeMovesAdvance, SnapshotWasHead, UsesRefCas, ReflogIsFaithful, SnapshotCoversOwnMoves, StagedConflictMeansRaces, MutationBuiltOnParent |
| CommitGraphProofs | TypeCorrect, AncestryExact, BaseBest, BaseWalkShort, ListingComplete, RaisesOnGaps | TypeOK, AncestryIsExact, BaseIsBest, BaseWalkIsShort, ListingIsComplete, RaisesOnlyOnGaps |
| ObjectGcProofs | TypeCorrect, HeadsWhole, Thorough, LiveKept | TypeOK, HeadsClosed, SweepIsThorough, LiveDataIsKept |
| SyncProofs | TypeCorrect, RemoteAdvances, Delivered, WholeHeads | TypeOK, RemoteFastForwards, SuccessMeansDelivered, WholeUnlessCut |
| StagingProofs | TypeCorrect, StagedWasAskedFor, ClashesCaught, StatusForetells, StagedMovesMove, RestoreFills, CommitsApplyToTheHead, MovesLoseNothing, PromotionKeepsBytes | TypeOK, StagedIsIntent, ClashesAreCaught, StatusPredictsCommit, StagedMoveIsMove, RestoreFillsTheGaps, AppliesToTheHead, MoveLosesNothing, PromoteKeepsBytes |
| DirectoryProofs | OnePassSuffices, LookupsAgree, WriterAndReadersAgree, OneSplitSuffices, SplicingRangesIsSplicing, PruningNeedsNoSplit, AlignedRangesMergeAlike, MergedRangesMustFit, CleanMergesKeepBothSides | facts about the operators Trees applies |

So every safety property of a passing run is proved, but those of Trees; of
these, what concerns one directory at a time is. Of the two liveness properties,
the part that does not speak of fairness is proved: HolderRunsToUnlock and
OperationsRunOut.

### The adapters

*LocalRefCasProofs.* The inductive invariant is type correctness,
LockDiscipline and ComparedValueStands together: the second needs the first
because only the holder of the flock renames, and the refinement needs both,
because the abstract `Apply` is the rename, at which the comparison made earlier
must still hold. `HolderRunsToUnlock` follows every path under the flock: each
step of the holder frees the lock or leaves it fewer of at most four steps, and
nobody else moves the holder or takes the lock. LockIsReleased is that and a
holder that keeps running.

*S3RefCasProofs.* There is no lock, and the compared value need not stand. The
invariant says that what a call has read held the expected commit (`ReadMatched`)
and is still there until some PUT is recorded against the call
(`StandsUnlessRaced`); so a refused PUT has a cause, and a PUT whose precondition
holds is the abstract `Apply`.

### Branch operations

*BranchOpsProofs.* The invariant says of the store that `anc` is closed
(ancestors of a stored commit are stored, and each ancestor's ancestors are
among them) and that refs hold stored commits, and of each operation (`RecOK`,
by program counter) that its source, target and expectation are stored and that
an operation about to compare-and-set has a new value whose ancestors contain
the expected one unless its path is join or move. The last clause is what the
property needs and is inductive only with the others: ancestors of stored
commits never change, so what a step established stays true while peers act.
One lemma per action shows the acting operation in order, `OpsPreserved` shows
the others undisturbed, `OnlyCasMoves` that only `CasApplied` changes a ref.

The second part of the module goes on from there. The history variable `moves` dates every
value of a branch: its head is what the last move left (`HeadIsLast`), and all
that a client reads, remembers or expects was the head at some moment
(`HistoryInv`); that is SnapshotWasHead. The rest is about which moment. For a
process with a client state of its own (`AloneInv`), what it reads back is no
older than its last applied move (`Covered`), the second read of rm and mv finds
what the first one found (`OwnReads`), and each attempt of commit --staged
starts from a head at least one move later than the attempt before (`Staged`).
The reflog is a matter of counting: own moves are the lines, the lines lost with
a process, and the moves whose operation is still on its way to the log. In
`RegisterUsed` an operation between `cas` and `reread` is a call of the register
and anything else an idle client; each action is one of its steps or none.
`InitialHistory` says that nobody remembers a branch that has no ref: refs are
never removed (`branch --delete` empties them), and the proof needs it, as a
snapshot of such a branch would make its operations read a ref that is not there.

`OperationsRunOut` counts an operation down: `StepsLeft` is at most seven for
each attempt that may still follow and ten for the one under way; each step of
its own, and its crash, lowers it, a retry too, and no step of a peer changes it.
What OpFinishes needs besides is that a process in the middle of an operation
always has a step to take, which TLC checks (ENABLED is out of the prover's
reach), and the fairness that it takes it.

### Commit graph

The one assumption is `GraphAssumption`: the generations obey the rule that
`write_commit_object` and `_GenerationProvider` implement. Reachability is
defined as the least closed set, so a commit is shown unreachable by a closed set
without it, and no induction is needed. The invariant: marks are sound; a marked
commit that is no longer pending was dropped as too old or has passed its marks
to its parents (`Followed`); a commit that would answer the question is still
pending (`NotPassed`). For an exhausted ancestry walk the closed set is what is
marked together with every commit of no higher generation than the ancestor,
other than it; for the merge base (`Frontier`) what a side has marked together
with every commit no younger than the front of the heap, other than it: hence a
commit at the front that both sides reach has both marks already.

### Garbage collection

`HeadsWhole` is the argument for the grace window. `Clocks`: an operation lasts no longer than the window, so whatever
it put is no older than the cutoff of any sweep that started before it ended.
`Publishing`: everything reachable from a commit about to be published is live,
or still to be put, or was put since its writer began. `Tracked`: while a sweep
reads the refs one by one, what is live is reachable from a ref it has read, or
from one it will read, or is young; a commit moved from an unread ref to a read
one is young, since new content only moves refs forward (`Growing`). `Spared`:
what is condemned is neither live nor about to be. The tick bound is what the
model takes for granted: an operation longer than `gc_grace_seconds` voids it,
as in the code. `LiveKept` needs none of it, only that the refs are as the sweep
read them; `Thorough` holds whatever the writers do. Reachability is a least
closed set here too, so the proofs need no induction.

### Push, pull and fetch

`RemoteAdvances` and `Delivered` rest on `Aimed` (a transfer about to
compare-and-set expects a commit in the history of its tip) and `Behind` (a
snapshot is in the history of its ref). `WholeHeads` takes more, because commits
are copied before their data and several clones transfer at once: `Origin`, a
commit and its data are with the clone that made it, and another clone has it
only from the remote, which was whole unless cut; hence what a push finds missing
is its clone's own, no two pushes copy the same commit, and nobody sees one of
them half copied (`Stocked`, `Transfers`). Otherwise a push could skip a commit
which another one has only begun to copy, as the retry of SyncResume does with
what its first try began.

### Staging area

The commits are sets of files and the operations those of FilePaths, so most of
the work is about these: `PrefixFree` is kept by `FlatSplice` and `FlatCommit`
(no commit has a path that is a file and a directory, whatever is staged), what
they keep and what they replace, and the order of path strings. Above them,
one invariant per question: `TypeInv`; `StageInv`, while operations on the
payload do not overlap there is one that has it loaded, and it has what is
staged; `BuiltInv`, what a process is about to publish is what its operation
makes of the parent it will compare with; `RestoreInv`, of the files of a restore
those behind it are as they should be and those before it untouched;
`ClashInv`, what is staged and loaded has passed `_reject_conflicting_adds`.
`StatusForetells` and `StagedMovesMove` are facts about one state: of the
worktree and the head, and of any two paths.

`ClashesCaught` shows why comparing neighbours is nearly enough: if an addition
lies below another one and nothing but what is below it stands between them,
walking from one to the next meets an accepted pair that clashes. It needs
that the comparison of paths is a strict linear order, hence the shape of
`Extends` in `FilePathsAssumption`: it is transitive, and a name between a name
and an extension of it extends it too. Strings are so: the extension goes on
with a character below the slash, and a string between the two begins with the
shorter one and goes on with no greater a character.

`StagingAssumption` types the constants and asks that `Paths` is finite and
holds every path that an operation can make of those it finds (`StaysInPaths`);
the prover takes the worktree for a function on `Paths`, and a path outside
would have no value.

### Directories

Trees descends trees of any depth by recursive operators, of which nothing can
be proved. What the code does at each directory on the way is not recursive, and
it is there that names can be lost, so it has a module of its own.
`SoundDirectory` says that a node and the bodies of its shards are sound, which
TypeOK of Trees says of every node. The proofs rest on another description of
it, shown to be the same: a directory is `Plain`, a sorted list, or `Ranged`,
pieces of such a list cut at increasing names. From there:

- Readers. The concatenation of sorted pieces that stay between their cuts is
  sorted (`OnePassSuffices`), a name can lie in one piece only, and that is the
  last one that begins at or before it, in the search of the reader and in that
  of the writer (`LookupsAgree`, `WriterAndReadersAgree`).
- Layouts. Cutting a list into pieces of one size gives a `Ranged` node, of at
  most `MaxEntries` shards exactly if the list is no longer than its square
  (`OneSplitSuffices`). Replacing pieces by lists of pieces that stay between the
  same cuts leaves a `Ranged` node with the entries one expects
  (`SplicingRangesIsSplicing`, also where ranges split or vanish, and
  `PruningNeedsNoSplit`). The theorem on splicing says of the layout "sound if
  and only if the shards fit one node", which is the test that
  `_splice_sharded_directory` makes before it keeps it; otherwise it packs the
  directory anew.
- Merges. Where the ranges of the three sides have the same names, every name
  finds in its range the entries it has in the whole directories
  (`AlignedRangesMergeAlike`), so merging by range decides the same cases; the
  result is sound if and only if no merged range outgrew a node
  (`MergedRangesMustFit`), the condition the docstring of `expand_shards` misses.
- `CleanMergesKeepBothSides` is about the merge of file sets in FilePaths with
  which MergeIsSound compares the code: it is what "identical on both sides wins;
  a side equal to the base yields to the other" should mean.

The theorems on writers take what the recursion returns for a range (its new
body) as given, a sorted list of the entries that belong there; that the
recursion returns it is what TLC checks in TreesHoldTheFiles. A flattened
sequence is defined by a recursive function in the community modules; that its
elements are those of its parts, in their order, is proved from one unfolding at
a time, with the least counterexample in the place of an induction.

### What is only model-checked

- Liveness: LockIsReleased and OpFinishes. Fairness and ENABLED are out of the
  prover's reach; the countdowns they rest on are proved.
- Trees, as a whole: TypeOK, TreesHoldTheFiles, ReadsAgree, MergeIsSound,
  EditsShareTheRest. Its algorithms descend a tree of any depth and are recursive
  operators, and what a recursive definition computes for every input takes an
  induction that the prover cannot do. Proved is what they do at each directory
  on the way. Staging takes a commit for its set of files on the strength of the
  run.
- The violation runs: a counterexample is not a theorem.
- What `_GenerationProvider.of` computes by recursion is a rule the histories
  obey, not something proved of the recursion; MCCommitGraph computes it.

## 6. Components not modelled, and why

Multipart upload and s5cmd: one upload has one actor and its object appears as a
whole; the batch is one call of an external program. Footer parsing, predicate
pruning, the entry codec, ignore rules and configuration are formats and pure
functions of typed values without state; vfs, catalog and cli are adapters.

Within the modelled parts: the contents of trees in BranchOps, ObjectGc and Sync
(a commit's tree is one object there; Trees and Staging are about the rest);
footers, `trust_mtime` and the identity mode `pointer` of a repository; import
patterns; a worktree that changes while one walk of it runs; empty directories;
the derived manifests and the tree cache, which any miss rebuilds; fsync (the
local adapter calls none, so the models speak of process crashes, not of power
loss), the namespace check of branch names, the listing of branches, and several
branches in Sync.

## 7. Plan

1. Done: RefCas, LocalRefCas, S3RefCas, BranchOps, CommitGraph, ObjectGc, Sync,
   FilePaths, Directories, TreeNodes, TreeWriter, Trees, Staging; the proofs of
   section 5.
2. Theorems next: of `PruneNode`, for which shards its string ranges are exact
   (the removals it misses are in section 4); of FilePaths, that a merge stays
   PrefixFree unless one side has a file where the other has a directory. Trees
   itself stays with TLC.
3. A composition of BranchOps and ObjectGc: a snapshot that names a commit which
   a peer's sweep took (`services/refs.py:220`).
4. The temporary file of a local blob write beside a sweep, and multipart parts.
