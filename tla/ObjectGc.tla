------------------------------- MODULE ObjectGc -------------------------------
(***************************************************************************)
(* gc --prune beside clients that write (core/repository.py: gc and        *)
(* _sweep_kind).  Objects are immutable and named by their content.  A     *)
(* writer publishes the blobs and trees its commit adds, then the commit,  *)
(* then moves the ref; an object that is already there is not written      *)
(* again, so it keeps its age.  The collector reads the refs one by one,   *)
(* marks what they reach, then lists the store kind by kind and deletes,   *)
(* in batches, what is unmarked and older than the grace window.           *)
(*                                                                         *)
(* One tree stands for the trees of a commit, and footers are swept as the *)
(* blobs are.  Ages are in ticks of the clock all parties share.           *)
(***************************************************************************)
EXTENDS Integers, FiniteSets

CONSTANTS
    Writers, Branches, Commits, Trees, Blobs,
    None,           \* an unborn branch
    Missing,        \* the object is not in the store
    Parents,        \* parents of each commit
    TreeOf,         \* tree of each commit
    BlobsOf,        \* blobs of each tree
    InitHead,       \* refs at the start; the store holds what they reach
    Grace,          \* gc_grace_seconds
    BatchSize,      \* _DELETE_BATCH_SIZE
    Settings        \* the ways the store is run, see SettingRecords

Objects == Commits \union Trees \union Blobs

SettingRecords ==
    [writers: SUBSET Writers,
     branches: SUBSET Branches,  \* the branches they write
     orphans: SUBSET Objects,    \* stored at the start, perhaps unreachable
     ops: SUBSET {"write", "reset", "delete", "branch"},
     reuse: BOOLEAN,             \* a commit may name old unreachable objects
     apart: BOOLEAN,             \* the operator keeps writers and gc --prune apart
     ticks: Nat,                 \* bound: ticks in a behaviour
     sweeps: Nat]                \* bound: sweeps in a behaviour

ASSUME ObjectGcAssumption ==
    /\ None \notin Commits
    /\ Missing \notin Nat
    /\ Branches # {}
    /\ Commits \intersect Trees = {}
    /\ Commits \intersect Blobs = {}
    /\ Trees \intersect Blobs = {}
    /\ Parents \in [Commits -> SUBSET Commits]
    /\ TreeOf \in [Commits -> Trees]
    /\ BlobsOf \in [Trees -> SUBSET Blobs]
    /\ InitHead \in [Branches -> Commits \union {None}]
    /\ Grace \in Nat
    /\ BatchSize \in Nat \ {0}
    /\ \A s \in Settings : s \in SettingRecords

VARIABLES
    setting, \* how the store is run: one of Settings, for good
    clock,
    mtime,   \* modification time of each object, or Missing
    head,    \* commit of each branch, None for an unborn one
    writer,  \* what each writer is doing
    gc,      \* the sweep in progress
    sweeps   \* sweeps started so far

vars == <<setting, clock, mtime, head, writer, gc, sweeps>>

IdleWriter == [pc |-> "idle", branch |-> CHOOSE b \in Branches : TRUE,
               expected |-> None, new |-> None, todo |-> {}, began |-> 0]

IdleGc == [pc |-> "idle", cutoff |-> 0, refs |-> {}, roots |-> {},
           marked |-> {}, kind |-> "commit", condemned |-> {}]

TypeOK ==
    /\ clock \in Nat
    /\ mtime \in [Objects -> Nat \union {Missing}]
    /\ head \in [Branches -> Commits \union {None}]
    /\ writer \in [Writers ->
         [pc: {"idle", "put", "cas"}, branch: Branches,
          expected: Commits \union {None}, new: Commits \union {None},
          todo: SUBSET Objects, began: Nat]]
    /\ gc \in [pc: {"idle", "refs", "list", "delete"}, cutoff: Int,
               refs: SUBSET Branches, roots: SUBSET Commits, marked: SUBSET Objects,
               kind: {"commit", "tree", "blob"}, condemned: SUBSET Objects]
    /\ sweeps \in Nat
    /\ setting \in Settings

Stored == {o \in Objects : mtime[o] # Missing}

\* Commits reachable from each commit, itself included: the least set that
\* holds it and the parents of its members.
History ==
    [k \in Commits |->
        {j \in Commits : \A S \in SUBSET Commits :
            (k \in S /\ \A e \in S : Parents[e] \subseteq S) => j \in S}]

\* Everything each commit needs: the objects reachable from it.
Needs ==
    [k \in Commits |->
        LET trees == {TreeOf[a] : a \in History[k]}
        IN  History[k] \union trees \union UNION {BlobsOf[t] : t \in trees}]

Closure(ks) == UNION {Needs[k] : k \in ks}

ClosureOf(value) == Closure({value} \ {None})

\* What a walk from these commits finds: only a stored tree names its blobs.
Found(ks) ==
    LET needed == Closure(ks)
    IN  (needed \ Blobs)
          \union UNION {BlobsOf[t] : t \in needed \intersect Trees \intersect Stored}

Heads == {head[b] : b \in Branches} \ {None}

Init ==
    /\ setting \in Settings
    /\ clock = 0
    /\ head = InitHead
    /\ mtime = [o \in Objects |->
         IF o \in Closure(Heads) \union setting.orphans THEN 0 ELSE Missing]
    /\ writer = [w \in Writers |-> IdleWriter]
    /\ gc = IdleGc
    /\ sweeps = 0

-----------------------------------------------------------------------------
(* Faulty variants.  Each is one of the definitions below with a mistake   *)
(* in it; no specification uses them.  PROJECT.json pairs each with the    *)
(* property that tells it from the real one.                               *)

\* The tips and their data are marked, their ancestors are not.
MarkTips ==
    LET trees == {TreeOf[k] : k \in gc.roots}
    IN
    /\ gc.pc = "refs"
    /\ gc.refs = {}
    /\ gc' = [gc EXCEPT !.pc = "list",
         !.marked = gc.roots \union trees \union UNION {BlobsOf[t] : t \in trees}]
    /\ UNCHANGED <<setting, clock, mtime, head, writer, sweeps>>

\* An object exactly as old as the window is not young.
YoungStrictly(o) == mtime[o] > gc.cutoff

\* The rest of a kind, too small for a batch, is forgotten.
DeleteFullBatches ==
    /\ gc.pc = "delete"
    /\ gc.condemned # {}
    /\ \/ \E batch \in SUBSET gc.condemned :
            /\ Cardinality(batch) = BatchSize
            /\ mtime' = [o \in Objects |->
                            IF o \in batch THEN Missing ELSE mtime[o]]
            /\ gc' = [gc EXCEPT !.condemned = @ \ batch]
       \/ /\ Cardinality(gc.condemned) < BatchSize
          /\ gc' = [gc EXCEPT !.condemned = {}]
          /\ UNCHANGED mtime
    /\ UNCHANGED <<setting, clock, head, writer, sweeps>>

-----------------------------------------------------------------------------
\* A client is mid-operation for no longer than the grace window: this is
\* what the window is for.
Tick ==
    /\ clock < setting.ticks
    /\ \A w \in Writers :
        writer[w].pc # "idle" => clock < writer[w].began + Grace
    /\ clock' = clock + 1
    /\ UNCHANGED <<setting, mtime, head, writer, gc, sweeps>>

Begin(w, kind, record) ==
    /\ kind \in setting.ops
    /\ w \in setting.writers
    /\ record.branch \in setting.branches
    /\ writer[w].pc = "idle"
    /\ setting.apart => gc.pc = "idle"
    /\ writer' = [writer EXCEPT ![w] = record]
    /\ UNCHANGED <<setting, clock, mtime, head, gc, sweeps>>

\* What a new commit adds to its parents; the rest is inherited by hash and
\* not looked at again.
Added(k) == Closure({k}) \ Closure(Parents[k])

\* The objects are new, or a ref reaches them.
FreshOrLive(objects) == objects \intersect Stored \subseteq Closure(Heads)

\* commit, import, rm, mv, promote, merge: a commit on the head of a branch.
BeginWrite(w, b, k) ==
    /\ Parents[k] \subseteq Heads
    /\ IF head[b] = None THEN Parents[k] = {} ELSE head[b] \in Parents[k]
    /\ setting.reuse \/ FreshOrLive(Added(k))
    /\ Begin(w, "write",
             [pc |-> "put", branch |-> b, expected |-> head[b], new |-> k,
              todo |-> Added(k), began |-> clock])

\* reset: resolve_ref asks for the commit object only.
BeginReset(w, b, k) ==
    /\ k \in Stored
    /\ k # head[b]
    /\ Begin(w, "reset",
             [pc |-> "cas", branch |-> b, expected |-> head[b], new |-> k,
              todo |-> {}, began |-> clock])

BeginDelete(w, b) ==
    /\ head[b] # None
    /\ Begin(w, "delete",
             [pc |-> "cas", branch |-> b, expected |-> head[b], new |-> None,
              todo |-> {}, began |-> clock])

\* branch: b starts at the head of the current branch.
BeginBranch(w, b, from) ==
    /\ head[b] = None
    /\ head[from] # None
    /\ Begin(w, "branch",
             [pc |-> "cas", branch |-> b, expected |-> None,
              new |-> head[from], todo |-> {}, began |-> clock])

\* write_blob_*, write_tree_bytes: nothing is written if the object exists.
PutIfMissing(w, o) ==
    /\ writer[w].pc = "put"
    /\ o \in writer[w].todo
    /\ mtime' = [mtime EXCEPT ![o] = IF @ = Missing THEN clock ELSE @]
    /\ writer' = [writer EXCEPT ![w].todo = @ \ {o}]
    /\ UNCHANGED <<setting, clock, head, gc, sweeps>>

PutBlob(w) == \E o \in Blobs : PutIfMissing(w, o)

PutTree(w) ==
    /\ writer[w].todo \intersect Blobs = {}
    /\ \E o \in Trees : PutIfMissing(w, o)

\* write_commit_bytes replaces the object, so it is young again.
PutCommit(w) ==
    /\ writer[w].pc = "put"
    /\ writer[w].todo \subseteq Commits
    /\ mtime' = [mtime EXCEPT ![writer[w].new] = clock]
    /\ writer' = [writer EXCEPT ![w].pc = "cas", ![w].todo = {}]
    /\ UNCHANGED <<setting, clock, head, gc, sweeps>>

\* update_branch_ref: applied, or RefConflictError.
MoveRef(w) ==
    /\ writer[w].pc = "cas"
    /\ head' = IF head[writer[w].branch] = writer[w].expected
               THEN [head EXCEPT ![writer[w].branch] = writer[w].new]
               ELSE head
    /\ writer' = [writer EXCEPT ![w] = IdleWriter]
    /\ UNCHANGED <<setting, clock, mtime, gc, sweeps>>

WriterCrash(w) ==
    /\ writer[w].pc # "idle"
    /\ writer' = [writer EXCEPT ![w] = IdleWriter]
    /\ UNCHANGED <<setting, clock, mtime, head, gc, sweeps>>

-----------------------------------------------------------------------------
\* The clock is read before the refs are.
StartGc ==
    /\ gc.pc = "idle"
    /\ sweeps < setting.sweeps
    /\ setting.apart => \A w \in Writers : writer[w].pc = "idle"
    /\ sweeps' = sweeps + 1
    /\ gc' = [IdleGc EXCEPT !.pc = "refs", !.cutoff = clock - Grace,
                            !.refs = Branches]
    /\ UNCHANGED <<setting, clock, mtime, head, writer>>

ReadRef(b) ==
    /\ gc.pc = "refs"
    /\ b \in gc.refs
    /\ gc' = [gc EXCEPT !.refs = @ \ {b}, !.roots = @ \union ({head[b]} \ {None})]
    /\ UNCHANGED <<setting, clock, mtime, head, writer, sweeps>>

\* A missing commit ends the sweep with UnknownCommitError; a missing tree
\* is passed over, and so is what only that tree names.
Mark ==
    /\ gc.pc = "refs"
    /\ gc.refs = {}
    /\ gc' = IF Closure(gc.roots) \intersect Commits \subseteq Stored
             THEN [gc EXCEPT !.pc = "list", !.marked = Found(gc.roots)]
             ELSE IdleGc
    /\ UNCHANGED <<setting, clock, mtime, head, writer, sweeps>>

\* mtime >= young_cutoff: never deleted.
Young(o) == mtime[o] >= gc.cutoff

KindOf(kind) == CASE kind = "commit" -> Commits
                  [] kind = "tree" -> Trees
                  [] kind = "blob" -> Blobs

\* The listing of one kind.  It is streamed, but an object seen later in the
\* stream can only have become younger or gone: the first moment is the one
\* at which most can be condemned.
List ==
    /\ gc.pc = "list"
    /\ gc' = [gc EXCEPT !.pc = "delete",
         !.condemned = {o \in KindOf(gc.kind) \intersect Stored :
                            o \notin gc.marked /\ ~Young(o)}]
    /\ UNCHANGED <<setting, clock, mtime, head, writer, sweeps>>

\* A full batch, or the rest of the kind.  Ages are not looked at again.
DeleteBatch ==
    /\ gc.pc = "delete"
    /\ \E batch \in SUBSET gc.condemned :
        /\ batch # {}
        /\ \/ Cardinality(batch) = BatchSize
           \/ Cardinality(batch) < BatchSize /\ batch = gc.condemned
        /\ mtime' = [o \in Objects |-> IF o \in batch THEN Missing ELSE mtime[o]]
        /\ gc' = [gc EXCEPT !.condemned = @ \ batch]
    /\ UNCHANGED <<setting, clock, head, writer, sweeps>>

NextKind ==
    /\ gc.pc = "delete"
    /\ gc.condemned = {}
    /\ gc' = CASE gc.kind = "commit" -> [gc EXCEPT !.pc = "list", !.kind = "tree"]
               [] gc.kind = "tree" -> [gc EXCEPT !.pc = "list", !.kind = "blob"]
               [] gc.kind = "blob" -> IdleGc
    /\ UNCHANGED <<setting, clock, mtime, head, writer, sweeps>>

\* A sweep that dies is not resumed: there is no cursor.
GcCrash ==
    /\ gc.pc # "idle"
    /\ gc' = IdleGc
    /\ UNCHANGED <<setting, clock, mtime, head, writer, sweeps>>

WriterStep(w) ==
    \/ \E b \in Branches :
        \/ \E k \in Commits : BeginWrite(w, b, k) \/ BeginReset(w, b, k)
        \/ BeginDelete(w, b)
        \/ \E from \in Branches : BeginBranch(w, b, from)
    \/ PutBlob(w)
    \/ PutTree(w)
    \/ PutCommit(w)
    \/ MoveRef(w)
    \/ WriterCrash(w)

GcStep ==
    \/ StartGc
    \/ \E b \in Branches : ReadRef(b)
    \/ Mark
    \/ List
    \/ DeleteBatch
    \/ NextKind
    \/ GcCrash

Next ==
    \/ Tick
    \/ \E w \in Writers : WriterStep(w)
    \/ GcStep

Spec == Init /\ [][Next]_vars

-----------------------------------------------------------------------------
(* What gc promises: deleting live data is never allowed.  Every commit,   *)
(* tree and blob a branch head reaches is in the store, if the writers     *)
(* name no orphan that may be older than the grace window, and no ref goes *)
(* back while one of them works: reset and branch --delete can let go of   *)
(* what a merge has read, and reset of what a sweep has half deleted.      *)
NewContentOnly == ~setting.reuse /\ setting.ops \subseteq {"write", "branch"}

HeadsClosed == NewContentOnly => Closure(Heads) \subseteq Stored

(* The same without those conditions.                                      *)
HeadsAlwaysClosed == Closure(Heads) \subseteq Stored

(* The same of the sweep alone, where it and the writers are kept apart:   *)
(* an object a branch head reaches when it is deleted is never deleted,    *)
(* whatever clients did to the refs before.                                *)
LiveDataIsKept ==
    [][setting.apart =>
         Found(Heads) \intersect Stored \subseteq {o \in Objects : mtime'[o] # Missing}]_vars

(* Garbage does not survive a quiet store for ever: what a sweep that ran  *)
(* to its end leaves of a kind is marked or younger than its window.       *)
SweepIsThorough ==
    gc.pc = "delete" /\ gc.condemned = {} =>
        \A o \in KindOf(gc.kind) \intersect Stored :
            o \in gc.marked \/ Young(o)
=============================================================================
