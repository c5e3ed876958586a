---------------------------- MODULE ObjectGcProofs ----------------------------
(***************************************************************************)
(* Theorems of ObjectGc, for every history, every number of writers,       *)
(* branches and objects, every grace window, batch size and setting:       *)
(*   TypeCorrect   the state is well typed,                                *)
(*   HeadsWhole    beside writers of new content no head loses an object,  *)
(*   LiveKept      beside no writer a sweep deletes nothing live,          *)
(*   Thorough      a sweep leaves nothing old and unmarked.                *)
(*                                                                         *)
(* HeadsWhole is the argument for the grace window: an operation is as     *)
(* short as the window, so what it has put is no older than the cutoff of  *)
(* any sweep that started before it ended.                                 *)
(***************************************************************************)
EXTENDS ObjectGc, TLAPS

Active(w) == writer[w].pc # "idle"

\* The object is stored, and not from before t.
Recent(o, t) == mtime[o] # Missing /\ mtime[o] >= t

-----------------------------------------------------------------------------
(* The window.                                                             *)

\* An operation fits in the window, and a sweep looks back for all of it.
Clocks ==
    /\ gc.pc # "idle" => gc.cutoff + Grace <= clock
    /\ \A w \in Writers :
         Active(w) => writer[w].began <= clock /\ clock <= writer[w].began + Grace

\* What is condemned is in the store and not marked, and of the kind that is
\* being swept nothing else is old and unmarked.
Condemned ==
    gc.pc = "delete" =>
        /\ gc.condemned \subseteq Stored
        /\ gc.condemned \intersect gc.marked = {}
        /\ \A o \in KindOf(gc.kind) \intersect Stored :
             o \in gc.marked \/ o \in gc.condemned \/ Young(o)

\* A sweep that is kept apart sees the refs as they are.
Apart ==
    setting.apart /\ gc.pc # "idle" =>
        /\ \A w \in Writers : ~Active(w)
        /\ gc.pc = "refs" => gc.roots = {head[b] : b \in Branches \ gc.refs} \ {None}
        /\ gc.pc # "refs" => Found(Heads) \subseteq gc.marked

\* What a writer is about to publish is live, or it is yet to be put, or it
\* was put since the writer began.
Publishing(w) ==
    \A o \in Closure({writer[w].new}) :
        \/ o \in Closure(Heads)
        \/ writer[w].pc = "put" /\ o \in writer[w].todo /\ mtime[o] = Missing
        \/ Recent(o, writer[w].began)

\* A writer of new content moves its branch to a child of the expected head,
\* or creates it.
Growing(w) ==
    /\ writer[w].new \in Commits
    /\ writer[w].expected # None => writer[w].expected \in Parents[writer[w].new]
    /\ writer[w].todo \intersect Commits \subseteq {writer[w].new}

\* What is live has been read from a ref, or will be, or is young.
Tracked ==
    /\ gc.pc = "refs" =>
         /\ Closure(gc.roots) \subseteq Closure(Heads)
         /\ \A o \in Closure(Heads) :
              \/ o \in Closure(gc.roots)
              \/ Recent(o, gc.cutoff)
              \/ \E b \in gc.refs : o \in ClosureOf(head[b])
    /\ gc.pc \in {"list", "delete"} =>
         \A o \in Closure(Heads) : o \in gc.marked \/ Recent(o, gc.cutoff)

\* Nothing condemned is live, or about to be.
Spared ==
    gc.pc = "delete" =>
        /\ gc.condemned \intersect Closure(Heads) = {}
        /\ \A w \in Writers :
             Active(w) => gc.condemned \intersect Closure({writer[w].new}) = {}

Window ==
    NewContentOnly =>
        /\ Closure(Heads) \subseteq Stored
        /\ \A w \in Writers : Active(w) => Growing(w) /\ Publishing(w)
        /\ Tracked
        /\ Spared

Inv == TypeOK /\ Clocks /\ Condemned /\ Apart /\ Window

-----------------------------------------------------------------------------
(* Reachability.                                                           *)

\* A commit is in its own history, and only commits are.
LEMMA HistorySelf ==
    ASSUME NEW k \in Commits
    PROVE  k \in History[k] /\ History[k] \in SUBSET Commits
BY DEF History

\* A history is closed under parents.
LEMMA HistoryStep ==
    ASSUME NEW k \in Commits, NEW d \in History[k], NEW p \in Parents[d]
    PROVE  p \in History[k]
<1>1. d \in Commits
  BY HistorySelf
<1>2. p \in Commits
  BY <1>1, ObjectGcAssumption
<1>3. SUFFICES ASSUME NEW S \in SUBSET Commits, k \in S,
                      \A e \in S : Parents[e] \subseteq S
               PROVE  p \in S
  BY <1>2 DEF History
<1>4. d \in S
  BY <1>3 DEF History
<1> QED
  BY <1>3, <1>4

\* It is the least closed set.
LEMMA HistoryLeast ==
    ASSUME NEW k \in Commits, NEW S \in SUBSET Commits, k \in S,
           \A e \in S : Parents[e] \subseteq S
    PROVE  History[k] \subseteq S
BY DEF History

\* The history of an ancestor is part of the history.
LEMMA HistoryTransitive ==
    ASSUME NEW k \in Commits, NEW d \in History[k]
    PROVE  History[d] \subseteq History[k]
<1>1. d \in Commits /\ History[k] \in SUBSET Commits
  BY HistorySelf
<1>2. \A e \in History[k] : Parents[e] \subseteq History[k]
  BY HistoryStep
<1> QED
  BY <1>1, <1>2, HistoryLeast

\* A history is the commit and the histories of its parents.
LEMMA HistoryUnfolds ==
    ASSUME NEW k \in Commits, NEW j \in History[k], j # k
    PROVE  \E p \in Parents[k] : j \in History[p]
<1> DEFINE S == {k} \union UNION {History[p] : p \in Parents[k]}
<1>1. Parents[k] \in SUBSET Commits
  BY ObjectGcAssumption
<1>2. S \in SUBSET Commits
  BY <1>1, HistorySelf
<1>3. ASSUME NEW e \in S
      PROVE  Parents[e] \subseteq S
  <2>1. CASE e = k
    BY <2>1, <1>1, HistorySelf
  <2>2. ASSUME NEW p \in Parents[k], e \in History[p]
        PROVE  Parents[e] \subseteq S
    BY <2>2, <1>1, HistoryStep
  <2> QED
    BY <2>1, <2>2
<1>4. History[k] \subseteq S
  <2> HIDE DEF S
  <2>1. k \in S
    BY DEF S
  <2> QED
    BY <1>2, <1>3, <2>1, HistoryLeast
<1> QED
  BY <1>4

\* What is needed, said of one object.
LEMMA InNeeds ==
    ASSUME NEW k \in Commits, NEW o
    PROVE  o \in Needs[k] <=>
             \E a \in History[k] : o = a \/ o = TreeOf[a] \/ o \in BlobsOf[TreeOf[a]]
BY DEF Needs

\* A commit needs its history, and what that needs.
LEMMA NeedsHistory ==
    ASSUME NEW k \in Commits
    PROVE  /\ k \in Needs[k]
           /\ Needs[k] \in SUBSET Objects
           /\ \A d \in History[k] : Needs[d] \subseteq Needs[k]
<1>1. k \in Needs[k]
  BY HistorySelf, InNeeds
<1>2. ASSUME NEW o \in Needs[k]
      PROVE  o \in Objects
  <2>1. PICK a \in History[k] : o = a \/ o = TreeOf[a] \/ o \in BlobsOf[TreeOf[a]]
    BY <1>2, InNeeds
  <2>2. a \in Commits
    BY HistorySelf
  <2> QED
    BY <2>1, <2>2, ObjectGcAssumption DEF Objects
<1>3. ASSUME NEW d \in History[k], NEW o \in Needs[d]
      PROVE  o \in Needs[k]
  <2>1. d \in Commits /\ History[d] \subseteq History[k]
    BY HistorySelf, HistoryTransitive
  <2>2. PICK a \in History[d] : o = a \/ o = TreeOf[a] \/ o \in BlobsOf[TreeOf[a]]
    BY <1>3, <2>1, InNeeds
  <2> QED
    BY <2>1, <2>2, InNeeds
<1> QED
  BY <1>1, <1>2, <1>3

\* The closure of a set of commits.
LEMMA InClosure ==
    ASSUME NEW ks, NEW o
    PROVE  o \in Closure(ks) <=> \E k \in ks : o \in Needs[k]
BY DEF Closure

\* It consists of objects.
LEMMA ClosureType ==
    ASSUME NEW ks \in SUBSET Commits
    PROVE  Closure(ks) \in SUBSET Objects
BY NeedsHistory DEF Closure

\* A commit needs everything that its parents need.
LEMMA ClosureOfParent ==
    ASSUME NEW k \in Commits, NEW p \in Parents[k]
    PROVE  Needs[p] \subseteq Needs[k]
<1>1. p \in History[k]
  BY HistorySelf, HistoryStep
<1> QED
  BY <1>1, NeedsHistory

\* Of commits, a new commit adds itself alone.
LEMMA AddedCommits ==
    ASSUME NEW k \in Commits
    PROVE  /\ Added(k) \in SUBSET Objects
           /\ Added(k) \intersect Commits \subseteq {k}
           /\ Needs[k] \subseteq Added(k) \union Closure(Parents[k])
<1>1. Needs[k] = Closure({k})
  BY DEF Closure
<1>2. ASSUME NEW j \in Added(k) \intersect Commits, j # k
      PROVE  FALSE
  <2>1. j \in Needs[k] /\ j \in Commits /\ j \notin Closure(Parents[k])
    BY <1>1, <1>2 DEF Added
  <2>2. PICK a \in History[k] : j = a \/ j = TreeOf[a] \/ j \in BlobsOf[TreeOf[a]]
    BY <2>1, InNeeds
  <2>3. a \in Commits
    BY HistorySelf
  <2>4. j = a
    <3>1. TreeOf[a] \in Trees /\ BlobsOf[TreeOf[a]] \subseteq Blobs
      BY <2>3, ObjectGcAssumption
    <3> QED
      BY <2>1, <2>2, <3>1, ObjectGcAssumption
  <2>5. PICK p \in Parents[k] : j \in History[p]
    BY <2>2, <2>4, <1>2, HistoryUnfolds
  <2>6. p \in Commits
    BY ObjectGcAssumption
  <2>7. j \in Needs[p]
    BY <2>5, <2>6, InNeeds
  <2> QED
    BY <2>1, <2>5, <2>7, InClosure
<1>3. Added(k) \in SUBSET Objects
  BY <1>1, NeedsHistory DEF Added
<1> QED
  BY <1>1, <1>2, <1>3 DEF Added

-----------------------------------------------------------------------------
(* Types.                                                                  *)

WriterRecords ==
    [pc: {"idle", "put", "cas"}, branch: Branches,
     expected: Commits \union {None}, new: Commits \union {None},
     todo: SUBSET Objects, began: Nat]

GcRecords ==
    [pc: {"idle", "refs", "list", "delete"}, cutoff: Int,
     refs: SUBSET Branches, roots: SUBSET Commits, marked: SUBSET Objects,
     kind: {"commit", "tree", "blob"}, condemned: SUBSET Objects]

\* The heads are commits.
LEMMA HeadsType ==
    ASSUME TypeOK
    PROVE  /\ Heads \in SUBSET Commits
           /\ \A b \in Branches : head[b] \in Commits \/ head[b] = None
           /\ \A b \in Branches : head[b] # None => head[b] \in Heads
BY DEF TypeOK, Heads

\* The state a party rests in.
LEMMA IdleTypes ==
    /\ IdleWriter \in WriterRecords
    /\ IdleWriter.pc = "idle"
    /\ IdleGc \in GcRecords
    /\ IdleGc.pc = "idle"
<1>1. (CHOOSE b \in Branches : TRUE) \in Branches
  BY ObjectGcAssumption
<1>2. IdleWriter \in WriterRecords
  BY <1>1 DEF IdleWriter, WriterRecords
<1> QED
  BY <1>2 DEF IdleWriter, IdleGc, GcRecords

\* What a walk finds are objects.
LEMMA FoundType ==
    ASSUME NEW ks \in SUBSET Commits
    PROVE  Found(ks) \in SUBSET Objects
<1>1. Closure(ks) \in SUBSET Objects
  BY ClosureType
<1>2. ASSUME NEW t \in Trees
      PROVE  BlobsOf[t] \in SUBSET Objects
  BY ObjectGcAssumption DEF Objects
<1> QED
  BY <1>1, <1>2 DEF Found

\* A writer that begins gets a new record, and nothing else changes.
LEMMA Begins ==
    ASSUME TypeOK, NEW w \in Writers, NEW kind, NEW record \in WriterRecords,
           Begin(w, kind, record)
    PROVE  /\ writer' = [writer EXCEPT ![w] = record]
           /\ writer' \in [Writers -> WriterRecords]
           /\ writer'[w] = record
           /\ \A v \in Writers \ {w} : writer'[v] = writer[v]
           /\ kind \in setting.ops
           /\ writer[w].pc = "idle"
           /\ setting.apart => gc.pc = "idle"
           /\ UNCHANGED <<setting, clock, mtime, head, gc, sweeps>>
<1>1. writer \in [Writers -> WriterRecords]
  BY DEF TypeOK, WriterRecords
<1> QED
  BY <1>1 DEF Begin

\* What a writer that begins does: a record that is fresh, and, for new content,
\* either a commit on heads whose objects are new, or a head once more.
LEMMA BeginEffect ==
    ASSUME TypeOK, NEW w \in Writers, NEW b \in Branches, NEW k \in Commits,
           NEW from \in Branches,
           \/ BeginWrite(w, b, k)
           \/ BeginReset(w, b, k)
           \/ BeginDelete(w, b)
           \/ BeginBranch(w, b, from)
    PROVE  \E record \in WriterRecords :
             /\ record.pc # "idle"
             /\ record.began = clock
             /\ writer' = [writer EXCEPT ![w] = record]
             /\ writer[w].pc = "idle"
             /\ setting.apart => gc.pc = "idle"
             /\ UNCHANGED <<setting, clock, mtime, head, gc, sweeps>>
             /\ NewContentOnly =>
                  \/ /\ record.pc = "put"
                     /\ record.new \in Commits
                     /\ record.expected # None => record.expected \in Parents[record.new]
                     /\ record.todo = Added(record.new)
                     /\ Parents[record.new] \subseteq Heads
                     /\ FreshOrLive(Added(record.new))
                  \/ /\ record.expected = None
                     /\ record.new \in Heads
                     /\ record.todo = {}
<1> USE HeadsType
<1>0. clock \in Nat
  BY DEF TypeOK
<1>1. CASE BeginWrite(w, b, k)
  <2> DEFINE r == [pc |-> "put", branch |-> b, expected |-> head[b], new |-> k,
                   todo |-> Added(k), began |-> clock]
  <2>1. Begin(w, "write", r)
    BY <1>1 DEF BeginWrite
  <2>2. r \in WriterRecords
    BY <1>0, AddedCommits DEF WriterRecords
  <2>3. NewContentOnly => FreshOrLive(Added(k))
    BY <1>1 DEF BeginWrite, NewContentOnly
  <2>4. head[b] # None => head[b] \in Parents[k]
    BY <1>1 DEF BeginWrite
  <2>5. Parents[k] \subseteq Heads
    BY <1>1 DEF BeginWrite
  <2>6. /\ r.pc = "put" /\ r.began = clock /\ r.new = k
        /\ r.expected = head[b] /\ r.todo = Added(k)
    OBVIOUS
  <2> HIDE DEF r
  <2> QED
    BY <2>1, <2>2, <2>3, <2>4, <2>5, <2>6, Begins
<1>2. CASE BeginReset(w, b, k)
  <2> DEFINE r == [pc |-> "cas", branch |-> b, expected |-> head[b], new |-> k,
                   todo |-> {}, began |-> clock]
  <2>1. Begin(w, "reset", r)
    BY <1>2 DEF BeginReset
  <2>2. r \in WriterRecords
    BY <1>0 DEF WriterRecords
  <2>3. r.pc # "idle" /\ r.began = clock
    OBVIOUS
  <2> HIDE DEF r
  <2>4. ~NewContentOnly
    BY <2>1, <2>2, Begins DEF NewContentOnly
  <2> QED
    BY <2>1, <2>2, <2>3, <2>4, Begins
<1>3. CASE BeginDelete(w, b)
  <2> DEFINE r == [pc |-> "cas", branch |-> b, expected |-> head[b], new |-> None,
                   todo |-> {}, began |-> clock]
  <2>1. Begin(w, "delete", r)
    BY <1>3 DEF BeginDelete
  <2>2. r \in WriterRecords
    BY <1>0 DEF WriterRecords
  <2>3. r.pc # "idle" /\ r.began = clock
    OBVIOUS
  <2> HIDE DEF r
  <2>4. ~NewContentOnly
    BY <2>1, <2>2, Begins DEF NewContentOnly
  <2> QED
    BY <2>1, <2>2, <2>3, <2>4, Begins
<1>4. CASE BeginBranch(w, b, from)
  <2> DEFINE r == [pc |-> "cas", branch |-> b, expected |-> None,
                   new |-> head[from], todo |-> {}, began |-> clock]
  <2>1. Begin(w, "branch", r) /\ head[from] # None
    BY <1>4 DEF BeginBranch
  <2>2. r \in WriterRecords
    BY <1>0 DEF WriterRecords
  <2>3. /\ r.pc # "idle" /\ r.began = clock /\ r.expected = None
        /\ r.new \in Heads /\ r.todo = {}
    BY <2>1
  <2> HIDE DEF r
  <2> QED
    BY <2>1, <2>2, <2>3, Begins
<1> QED
  BY <1>1, <1>2, <1>3, <1>4

\* Every object that is put is young; the rest of the store stays as it is.
LEMMA PutEffect ==
    ASSUME TypeOK, NEW w \in Writers, PutBlob(w) \/ PutTree(w) \/ PutCommit(w)
    PROVE  /\ writer[w].pc = "put"
           /\ \E record \in WriterRecords :
                /\ writer' = [writer EXCEPT ![w] = record]
                /\ record.pc # "idle"
                /\ record.began = writer[w].began
                /\ record.new = writer[w].new
                /\ record.expected = writer[w].expected
                /\ record.todo \subseteq writer[w].todo
                /\ \/ /\ record.pc = "put"
                      /\ \A o \in writer[w].todo \ record.todo :
                           mtime'[o] # Missing
                   \/ /\ writer[w].todo \subseteq Commits
                      /\ writer[w].new \in Commits => mtime'[writer[w].new] = clock
           /\ mtime' \in [Objects -> Nat \union {Missing}]
           /\ \A o \in Objects : mtime'[o] = mtime[o] \/ mtime'[o] = clock
           /\ UNCHANGED <<setting, clock, head, gc, sweeps>>
<1>0. /\ writer \in [Writers -> WriterRecords]
      /\ writer[w] \in WriterRecords
      /\ clock \in Nat
      /\ mtime \in [Objects -> Nat \union {Missing}]
      /\ Missing \notin Nat
  BY ObjectGcAssumption DEF TypeOK, WriterRecords
<1>1. ASSUME NEW o \in Objects, PutIfMissing(w, o)
      PROVE  /\ writer[w].pc = "put"
             /\ \E record \in WriterRecords :
                /\ writer' = [writer EXCEPT ![w] = record]
                /\ record.pc = "put"
                /\ record.began = writer[w].began
                /\ record.new = writer[w].new
                /\ record.expected = writer[w].expected
                /\ record.todo = writer[w].todo \ {o}
             /\ mtime'[o] # Missing
             /\ mtime' \in [Objects -> Nat \union {Missing}]
             /\ \A q \in Objects : mtime'[q] = mtime[q] \/ mtime'[q] = clock
             /\ UNCHANGED <<setting, clock, head, gc, sweeps>>
  <2> DEFINE r == [writer[w] EXCEPT !.todo = writer[w].todo \ {o}]
  <2>1. /\ r \in WriterRecords /\ r.began = writer[w].began
        /\ r.new = writer[w].new /\ r.todo = writer[w].todo \ {o}
        /\ r.pc = writer[w].pc /\ r.expected = writer[w].expected
    BY <1>0 DEF WriterRecords
  <2>2. writer' = [writer EXCEPT ![w] = r] /\ writer[w].pc = "put"
    BY <1>0, <1>1 DEF PutIfMissing
  <2>3. mtime' = [mtime EXCEPT ![o] = IF mtime[o] = Missing THEN clock ELSE mtime[o]]
    BY <1>1 DEF PutIfMissing
  <2>4. UNCHANGED <<setting, clock, head, gc, sweeps>>
    BY <1>1 DEF PutIfMissing
  <2>5. /\ mtime'[o] # Missing
        /\ mtime' \in [Objects -> Nat \union {Missing}]
        /\ \A q \in Objects : mtime'[q] = mtime[q] \/ mtime'[q] = clock
    BY <1>0, <2>3
  <2> HIDE DEF r
  <2> QED
    BY <2>1, <2>2, <2>4, <2>5
<1>2. CASE PutBlob(w)
  <2>1. PICK o \in Blobs : PutIfMissing(w, o)
    BY <1>2 DEF PutBlob
  <2>2. o \in Objects
    BY DEF Objects
  <2> QED
    BY <1>1, <2>1, <2>2
<1>3. CASE PutTree(w)
  <2>1. PICK o \in Trees : PutIfMissing(w, o)
    BY <1>3 DEF PutTree
  <2>2. o \in Objects
    BY DEF Objects
  <2> QED
    BY <1>1, <2>1, <2>2
<1>4. CASE PutCommit(w)
  <2> DEFINE r == [writer[w] EXCEPT !.pc = "cas", !.todo = {}]
  <2>1. /\ r \in WriterRecords /\ r.began = writer[w].began
        /\ r.new = writer[w].new /\ r.todo = {} /\ r.pc = "cas"
        /\ r.expected = writer[w].expected
    BY <1>0 DEF WriterRecords
  <2>2. /\ writer' = [writer EXCEPT ![w] = r] /\ writer[w].pc = "put"
        /\ writer[w].todo \subseteq Commits
    BY <1>0, <1>4 DEF PutCommit
  <2>3. mtime' = [mtime EXCEPT ![writer[w].new] = clock]
    BY <1>4 DEF PutCommit
  <2>4. UNCHANGED <<setting, clock, head, gc, sweeps>>
    BY <1>4 DEF PutCommit
  <2>5. Commits \subseteq Objects
    BY DEF Objects
  <2>6. writer[w].new \in Commits => mtime'[writer[w].new] = clock
    BY <1>0, <2>3, <2>5
  <2>7. /\ mtime' \in [Objects -> Nat \union {Missing}]
        /\ \A q \in Objects : mtime'[q] = mtime[q] \/ mtime'[q] = clock
    BY <1>0, <2>3
  <2> HIDE DEF r
  <2> QED
    BY <2>1, <2>2, <2>4, <2>6, <2>7
<1> QED
  BY <1>2, <1>3, <1>4

Starts ==
    /\ gc.pc = "idle" /\ gc'.pc = "refs"
    /\ gc'.cutoff = clock - Grace
    /\ gc'.refs = Branches /\ gc'.roots = {}
    /\ setting.apart => \A w \in Writers : ~Active(w)

Reads(b) ==
    /\ gc.pc = "refs" /\ gc'.pc = "refs"
    /\ gc'.cutoff = gc.cutoff
    /\ gc'.refs = gc.refs \ {b}
    /\ gc'.roots = gc.roots \union ({head[b]} \ {None})

Marks ==
    /\ gc.pc = "refs" /\ gc'.pc = "list"
    /\ gc.refs = {}
    /\ gc'.cutoff = gc.cutoff
    /\ gc'.marked = Found(gc.roots)

Lists ==
    /\ gc.pc = "list" /\ gc'.pc = "delete"
    /\ gc'.cutoff = gc.cutoff /\ gc'.marked = gc.marked
    /\ gc'.kind = gc.kind
    /\ gc'.condemned = {o \in KindOf(gc.kind) \intersect Stored :
                           o \notin gc.marked /\ ~Young(o)}

Deletes(batch) ==
    /\ gc.pc = "delete" /\ gc'.pc = "delete"
    /\ gc'.cutoff = gc.cutoff /\ gc'.marked = gc.marked
    /\ gc'.kind = gc.kind
    /\ gc'.condemned = gc.condemned \ batch
    /\ mtime' = [o \in Objects |-> IF o \in batch THEN Missing ELSE mtime[o]]

Proceeds ==
    /\ gc.pc = "delete" /\ gc'.pc = "list"
    /\ gc'.cutoff = gc.cutoff /\ gc'.marked = gc.marked

\* What a step of the collector does.
LEMMA GcEffect ==
    ASSUME TypeOK, GcStep
    PROVE  /\ gc' \in GcRecords
           /\ sweeps' \in Nat
           /\ UNCHANGED <<setting, clock, head, writer>>
           /\ \/ \E batch \in SUBSET gc.condemned : Deletes(batch)
              \/ UNCHANGED mtime /\ \/ Starts
                                    \/ \E b \in gc.refs : Reads(b)
                                    \/ Marks
                                    \/ Lists
                                    \/ Proceeds
                                    \/ gc'.pc = "idle"
<1>0. /\ gc \in GcRecords
      /\ clock \in Nat /\ sweeps \in Nat /\ Grace \in Nat
      /\ IdleGc \in GcRecords /\ IdleGc.pc = "idle"
  BY ObjectGcAssumption, IdleTypes DEF TypeOK, GcRecords
<1> USE HeadsType
<1>1. CASE StartGc
  <2>1. gc' = [IdleGc EXCEPT !.pc = "refs", !.cutoff = clock - Grace, !.refs = Branches]
    BY <1>1 DEF StartGc
  <2>2. gc' = [pc |-> "refs", cutoff |-> clock - Grace, refs |-> Branches, roots |-> {},
               marked |-> {}, kind |-> "commit", condemned |-> {}]
    BY <2>1 DEF IdleGc
  <2>3. clock - Grace \in Int
    BY <1>0
  <2>4. gc' \in GcRecords
    BY <2>2, <2>3 DEF GcRecords
  <2>5. /\ gc'.pc = "refs" /\ gc'.cutoff = clock - Grace
        /\ gc'.refs = Branches /\ gc'.roots = {}
    BY <2>2
  <2>6. gc.pc = "idle" /\ (setting.apart => \A w \in Writers : ~Active(w))
    BY <1>1 DEF StartGc, Active
  <2> QED
    BY <1>0, <1>1, <2>4, <2>5, <2>6 DEF StartGc, Starts
<1>2. ASSUME NEW b \in Branches, ReadRef(b)
      PROVE  /\ gc' \in GcRecords /\ b \in gc.refs /\ Reads(b)
             /\ UNCHANGED <<setting, clock, mtime, head, writer, sweeps>>
  <2>1. /\ gc' = [gc EXCEPT !.refs = gc.refs \ {b},
                            !.roots = gc.roots \union ({head[b]} \ {None})]
        /\ gc.pc = "refs" /\ b \in gc.refs
    BY <1>2 DEF ReadRef
  <2>2. {head[b]} \ {None} \subseteq Commits
    OBVIOUS
  <2>3. gc' \in GcRecords /\ Reads(b)
    BY <1>0, <2>1, <2>2 DEF GcRecords, Reads
  <2> QED
    BY <1>2, <2>1, <2>3 DEF ReadRef
<1>3. CASE Mark
  <2>1. /\ gc.pc = "refs" /\ gc.refs = {}
        /\ UNCHANGED <<setting, clock, mtime, head, writer, sweeps>>
    BY <1>3 DEF Mark
  <2>2. CASE gc' = [gc EXCEPT !.pc = "list", !.marked = Found(gc.roots)]
    <3>1. Found(gc.roots) \in SUBSET Objects
      BY <1>0, FoundType DEF GcRecords
    <3>2. gc' \in GcRecords /\ Marks
      BY <1>0, <2>1, <2>2, <3>1 DEF GcRecords, Marks
    <3> QED
      BY <1>0, <2>1, <3>2
  <2>3. CASE gc' = IdleGc
    BY <1>0, <2>1, <2>3
  <2> QED
    BY <1>3, <2>2, <2>3 DEF Mark
<1>4. CASE List
  <2> DEFINE C == {o \in KindOf(gc.kind) \intersect Stored :
                     o \notin gc.marked /\ ~Young(o)}
  <2>1. gc.pc = "list" /\ gc' = [gc EXCEPT !.pc = "delete", !.condemned = C]
    BY <1>4 DEF List
  <2>2. C \in SUBSET Objects
    BY DEF Stored
  <2>3. gc' \in GcRecords /\ gc'.condemned = C /\ Lists
    <3> HIDE DEF C
    <3>1. gc' \in GcRecords /\ gc'.condemned = C
      BY <1>0, <2>1, <2>2 DEF GcRecords
    <3>2. gc'.pc = "delete" /\ gc'.cutoff = gc.cutoff /\ gc'.marked = gc.marked /\ gc'.kind = gc.kind
      BY <1>0, <2>1 DEF GcRecords
    <3> QED
      BY <2>1, <3>1, <3>2 DEF Lists, C
  <2> QED
    BY <1>0, <1>4, <2>3 DEF List
<1>5. CASE DeleteBatch
  <2>1. PICK batch \in SUBSET gc.condemned :
          /\ gc.pc = "delete"
          /\ mtime' = [o \in Objects |-> IF o \in batch THEN Missing ELSE mtime[o]]
          /\ gc' = [gc EXCEPT !.condemned = gc.condemned \ batch]
          /\ UNCHANGED <<setting, clock, head, writer, sweeps>>
    BY <1>5 DEF DeleteBatch
  <2>2. gc' \in GcRecords
    BY <1>0, <2>1 DEF GcRecords
  <2>3. Deletes(batch)
    BY <1>0, <2>1 DEF GcRecords, Deletes
  <2> QED
    BY <1>0, <2>1, <2>2, <2>3
<1>6. CASE NextKind
  <2>1. /\ gc.pc = "delete"
        /\ UNCHANGED <<setting, clock, mtime, head, writer, sweeps>>
    BY <1>6 DEF NextKind
  <2>2. gc.kind \in {"commit", "tree", "blob"}
    BY <1>0 DEF GcRecords
  <2>3. \/ gc' = [gc EXCEPT !.pc = "list", !.kind = "tree"]
        \/ gc' = [gc EXCEPT !.pc = "list", !.kind = "blob"]
        \/ gc' = IdleGc
    BY <1>6, <2>2 DEF NextKind
  <2>4. gc' \in GcRecords /\ (Proceeds \/ gc'.pc = "idle")
    BY <1>0, <2>1, <2>3 DEF GcRecords, Proceeds
  <2> QED
    BY <1>0, <2>1, <2>4
<1>7. CASE GcCrash
  BY <1>0, <1>7 DEF GcCrash
<1> QED
  BY <1>0, <1>1, <1>2, <1>3, <1>4, <1>5, <1>6, <1>7 DEF GcStep

\* A ref moves: the head of one branch, or nothing, and the writer is done.
LEMMA MoveEffect ==
    ASSUME TypeOK, NEW w \in Writers, MoveRef(w)
    PROVE  /\ writer[w].pc = "cas"
           /\ writer' = [writer EXCEPT ![w] = IdleWriter]
           /\ head' \in [Branches -> Commits \union {None}]
           /\ \/ head' = head
              \/ /\ head[writer[w].branch] = writer[w].expected
                 /\ head' = [head EXCEPT ![writer[w].branch] = writer[w].new]
           /\ UNCHANGED <<setting, clock, mtime, gc, sweeps>>
<1>1. writer[w].branch \in Branches /\ writer[w].new \in Commits \union {None}
  BY DEF TypeOK
<1> QED
  BY <1>1 DEF MoveRef, TypeOK

\* The kinds of step a writer takes.
LEMMA WriterCases ==
    ASSUME TypeOK, NEW w \in Writers, WriterStep(w)
    PROVE  \/ \E b \in Branches, k \in Commits, from \in Branches :
                \/ BeginWrite(w, b, k)
                \/ BeginReset(w, b, k)
                \/ BeginDelete(w, b)
                \/ BeginBranch(w, b, from)
           \/ PutBlob(w) \/ PutTree(w) \/ PutCommit(w)
           \/ MoveRef(w)
           \/ WriterCrash(w)
<1> USE HeadsType
<1>1. ASSUME NEW b \in Branches, NEW k \in Commits, BeginWrite(w, b, k) \/ BeginReset(w, b, k)
      PROVE  \E c \in Branches, j \in Commits, from \in Branches :
                BeginWrite(w, c, j) \/ BeginReset(w, c, j)
  BY <1>1
<1>2. ASSUME NEW b \in Branches, BeginDelete(w, b)
      PROVE  \E c \in Branches, j \in Commits, from \in Branches : BeginDelete(w, c)
  <2>1. head[b] \in Commits
    BY <1>2 DEF BeginDelete
  <2> QED
    BY <1>2, <2>1
<1>3. ASSUME NEW b \in Branches, NEW from \in Branches, BeginBranch(w, b, from)
      PROVE  \E c \in Branches, j \in Commits, f \in Branches : BeginBranch(w, c, f)
  <2>1. head[from] \in Commits
    BY <1>3 DEF BeginBranch
  <2> QED
    BY <1>3, <2>1
<1> QED
  BY <1>1, <1>2, <1>3 DEF WriterStep

\* A writer touches its own record, puts what is young, and moves a ref at the
\* end of an operation only.
LEMMA WriterEffect ==
    ASSUME TypeOK, NEW w \in Writers, WriterStep(w)
    PROVE  \E record \in WriterRecords :
             /\ writer' = [writer EXCEPT ![w] = record]
             /\ record.pc # "idle" =>
                  \/ /\ writer[w].pc = "idle" /\ record.began = clock
                     /\ setting.apart => gc.pc = "idle"
                  \/ writer[w].pc # "idle" /\ record.began = writer[w].began
             /\ mtime' \in [Objects -> Nat \union {Missing}]
             /\ \A o \in Objects : mtime'[o] = mtime[o] \/ mtime'[o] = clock
             /\ head' \in [Branches -> Commits \union {None}]
             /\ head' = head \/ writer[w].pc # "idle"
             /\ UNCHANGED <<setting, clock, gc, sweeps>>
<1> USE IdleTypes
<1>0. /\ mtime \in [Objects -> Nat \union {Missing}]
      /\ head \in [Branches -> Commits \union {None}]
  BY DEF TypeOK
<1>1. ASSUME NEW b \in Branches, NEW k \in Commits, NEW from \in Branches,
             \/ BeginWrite(w, b, k)
             \/ BeginReset(w, b, k)
             \/ BeginDelete(w, b)
             \/ BeginBranch(w, b, from)
      PROVE  \E record \in WriterRecords :
             /\ writer' = [writer EXCEPT ![w] = record]
             /\ record.began = clock
             /\ writer[w].pc = "idle"
             /\ setting.apart => gc.pc = "idle"
             /\ UNCHANGED <<setting, clock, mtime, head, gc, sweeps>>
  <2>1. PICK record \in WriterRecords :
             /\ writer' = [writer EXCEPT ![w] = record]
             /\ record.began = clock
             /\ writer[w].pc = "idle"
             /\ setting.apart => gc.pc = "idle"
             /\ UNCHANGED <<setting, clock, mtime, head, gc, sweeps>>
    BY <1>1, BeginEffect
  <2> QED
    BY <2>1
<1>2. CASE PutBlob(w) \/ PutTree(w) \/ PutCommit(w)
  <2>1. writer[w].pc = "put"
    BY <1>2, PutEffect
  <2>2. PICK record \in WriterRecords :
             writer' = [writer EXCEPT ![w] = record] /\ record.began = writer[w].began
    BY <1>2, PutEffect
  <2>3. /\ mtime' \in [Objects -> Nat \union {Missing}]
        /\ \A o \in Objects : mtime'[o] = mtime[o] \/ mtime'[o] = clock
        /\ UNCHANGED <<setting, clock, head, gc, sweeps>>
    BY <1>2, PutEffect
  <2> QED
    BY <1>0, <2>1, <2>2, <2>3
<1>3. CASE MoveRef(w)
  BY <1>0, <1>3, MoveEffect
<1>4. CASE WriterCrash(w)
  BY <1>0, <1>4 DEF WriterCrash
<1> QED
  BY <1>0, <1>1, <1>2, <1>3, <1>4, WriterCases

\* Every step keeps the types.
LEMMA TypeStep ==
    ASSUME TypeOK, Next
    PROVE  TypeOK'
<1>0. writer \in [Writers -> WriterRecords]
  BY DEF TypeOK, WriterRecords
<1> USE DEF TypeOK
<1>1. CASE Tick
  BY <1>1 DEF Tick
<1>2. ASSUME NEW w \in Writers, WriterStep(w)
      PROVE  TypeOK'
  <2>1. PICK record \in WriterRecords :
             /\ writer' = [writer EXCEPT ![w] = record]
             /\ mtime' \in [Objects -> Nat \union {Missing}]
             /\ head' \in [Branches -> Commits \union {None}]
             /\ UNCHANGED <<setting, clock, gc, sweeps>>
    BY <1>2, WriterEffect
  <2>2. writer' \in [Writers -> WriterRecords]
    BY <1>0, <2>1
  <2> QED
    BY <2>1, <2>2 DEF WriterRecords
<1>3. CASE GcStep
  <2>1. /\ gc' \in GcRecords /\ sweeps' \in Nat
        /\ UNCHANGED <<setting, clock, head, writer>>
        /\ \/ \E batch \in SUBSET gc.condemned : Deletes(batch)
           \/ UNCHANGED mtime
    BY <1>3, GcEffect
  <2>2. mtime' \in [Objects -> Nat \union {Missing}]
    BY <2>1 DEF Deletes
  <2> QED
    BY <2>1, <2>2 DEF GcRecords
<1> QED
  BY <1>1, <1>2, <1>3 DEF Next

-----------------------------------------------------------------------------
(* The sweep, whoever writes beside it.                                    *)

\* The window holds.
LEMMA ClocksStep ==
    ASSUME TypeOK, Clocks, Next
    PROVE  Clocks'
<1>0. /\ clock \in Nat /\ Grace \in Nat
      /\ writer \in [Writers -> WriterRecords]
      /\ \A w \in Writers : writer[w].began \in Nat
      /\ gc.cutoff \in Int
  BY ObjectGcAssumption DEF TypeOK, WriterRecords
<1>1. CASE Tick
  BY <1>0, <1>1 DEF Tick, Clocks, Active
<1>2. ASSUME NEW w \in Writers, WriterStep(w)
      PROVE  Clocks'
  <2>1. PICK record \in WriterRecords :
             /\ writer' = [writer EXCEPT ![w] = record]
             /\ record.pc # "idle" =>
                  \/ writer[w].pc = "idle" /\ record.began = clock
                  \/ writer[w].pc # "idle" /\ record.began = writer[w].began
             /\ UNCHANGED <<clock, gc>>
    BY <1>2, WriterEffect
  <2>2. ASSUME NEW v \in Writers, writer'[v].pc # "idle"
        PROVE  writer'[v].began <= clock /\ clock <= writer'[v].began + Grace
    <3>1. CASE v = w
      <4>1. writer'[v] = record
        BY <1>0, <2>1, <3>1
      <4> QED
        BY <1>0, <2>1, <2>2, <3>1, <4>1 DEF Clocks, Active
    <3>2. CASE v # w
      <4>1. writer'[v] = writer[v]
        BY <1>0, <2>1, <3>2
      <4> QED
        BY <2>2, <4>1 DEF Clocks, Active
    <3> QED
      BY <3>1, <3>2
  <2> QED
    BY <2>1, <2>2 DEF Clocks, Active
<1>3. CASE GcStep
  <2>1. UNCHANGED <<clock, writer>>
    BY <1>3, GcEffect
  <2>2. \/ gc'.pc = "idle"
        \/ gc'.cutoff = clock - Grace
        \/ gc'.cutoff = gc.cutoff /\ gc.pc # "idle"
    BY <1>3, GcEffect DEF Deletes, Starts, Reads, Marks, Lists, Proceeds
  <2> QED
    BY <1>0, <2>1, <2>2 DEF Clocks, Active
<1> QED
  BY <1>1, <1>2, <1>3 DEF Next

\* What is put during a sweep is young for it.
LEMMA NowIsYoung ==
    ASSUME TypeOK, Clocks, gc.pc # "idle"
    PROVE  clock \in Nat /\ gc.cutoff \in Int /\ clock >= gc.cutoff
BY ObjectGcAssumption DEF TypeOK, Clocks

\* The sweep of a kind is thorough, and condemns what is stored and unmarked.
LEMMA CondemnedStep ==
    ASSUME TypeOK, Clocks, Condemned, Next
    PROVE  Condemned'
<1>0. /\ mtime \in [Objects -> Nat \union {Missing}]
      /\ Missing \notin Nat
      /\ gc.condemned \in SUBSET Objects
      /\ KindOf(gc.kind) \in SUBSET Objects
  BY ObjectGcAssumption DEF TypeOK, KindOf, Objects
<1>1. ASSUME UNCHANGED gc,
             \A o \in Objects : mtime'[o] = mtime[o] \/ mtime'[o] = clock
      PROVE  Condemned'
  <2>1. SUFFICES ASSUME gc.pc = "delete"
                 PROVE  /\ gc.condemned \subseteq Stored'
                        /\ gc.condemned \intersect gc.marked = {}
                        /\ \A o \in KindOf(gc.kind) \intersect Stored' :
                             o \in gc.marked \/ o \in gc.condemned
                               \/ mtime'[o] >= gc.cutoff
    BY <1>1 DEF Condemned, Young, KindOf
  <2>2. clock \in Nat /\ gc.cutoff \in Int /\ clock >= gc.cutoff
    BY <2>1, NowIsYoung
  <2>3. /\ gc.condemned \subseteq Stored
        /\ gc.condemned \intersect gc.marked = {}
        /\ \A o \in KindOf(gc.kind) \intersect Stored :
             o \in gc.marked \/ o \in gc.condemned \/ mtime[o] >= gc.cutoff
    BY <2>1 DEF Condemned, Young
  <2>4. Stored \subseteq Stored'
    BY <1>0, <1>1, <2>2 DEF Stored
  <2>5. ASSUME NEW o \in KindOf(gc.kind) \intersect Stored'
        PROVE  o \in gc.marked \/ o \in gc.condemned \/ mtime'[o] >= gc.cutoff
    <3>1. o \in Objects /\ mtime'[o] # Missing
      BY <1>0 DEF Stored
    <3>2. CASE mtime'[o] = clock
      BY <2>2, <3>2
    <3>3. CASE mtime'[o] = mtime[o]
      BY <2>3, <3>1, <3>3 DEF Stored
    <3> QED
      BY <1>1, <3>1, <3>2, <3>3
  <2> QED
    BY <2>3, <2>4, <2>5
<1>2. CASE Tick
  BY <1>1, <1>2 DEF Tick
<1>3. ASSUME NEW w \in Writers, WriterStep(w)
      PROVE  Condemned'
  BY <1>1, <1>3, WriterEffect
<1>4. CASE GcStep
  <2>1. ASSUME NEW batch \in SUBSET gc.condemned, Deletes(batch)
        PROVE  Condemned'
    <3>1. /\ gc.pc = "delete" /\ gc'.cutoff = gc.cutoff /\ gc'.kind = gc.kind
          /\ gc'.marked = gc.marked /\ gc'.condemned = gc.condemned \ batch
          /\ \A o \in Objects : mtime'[o] = IF o \in batch THEN Missing ELSE mtime[o]
      BY <2>1 DEF Deletes
    <3>2. Stored' = Stored \ batch
      BY <3>1 DEF Stored
    <3>3. ASSUME NEW o \in KindOf(gc.kind) \intersect Stored'
          PROVE  o \in gc.marked \/ o \in gc'.condemned \/ mtime'[o] >= gc.cutoff
      <4>1. o \in Objects /\ o \in KindOf(gc.kind) \intersect Stored /\ o \notin batch
        BY <1>0, <3>2
      <4>2. o \in gc.marked \/ o \in gc.condemned \/ mtime[o] >= gc.cutoff
        BY <3>1, <4>1 DEF Condemned, Young
      <4> QED
        BY <3>1, <4>1, <4>2
    <3>4. gc'.condemned \subseteq Stored' /\ gc'.condemned \intersect gc'.marked = {}
      BY <3>1, <3>2 DEF Condemned
    <3> QED
      BY <3>1, <3>3, <3>4 DEF Condemned, Young, KindOf
  <2>2. CASE Lists /\ UNCHANGED mtime
    <3>1. /\ gc'.condemned = {o \in KindOf(gc.kind) \intersect Stored :
                                 o \notin gc.marked /\ ~Young(o)}
          /\ gc'.kind = gc.kind /\ gc'.marked = gc.marked /\ gc'.cutoff = gc.cutoff
          /\ UNCHANGED mtime
      BY <2>2 DEF Lists
    <3>2. Stored' = Stored
      BY <3>1 DEF Stored
    <3>3. \A o : Young(o)' <=> Young(o)
      BY <3>1 DEF Young
    <3>4. KindOf(gc.kind)' = KindOf(gc.kind)
      BY <3>1 DEF KindOf
    <3> QED
      BY <3>1, <3>2, <3>3, <3>4 DEF Condemned
  <2>3. CASE gc'.pc # "delete"
    BY <2>3 DEF Condemned
  <2> QED
    BY <1>4, <2>1, <2>2, <2>3, GcEffect DEF Starts, Reads, Marks, Proceeds
<1> QED
  BY <1>2, <1>3, <1>4 DEF Next

\* Kept apart, a sweep has read the refs, and marked what they reach.
LEMMA ApartStep ==
    ASSUME TypeOK, Apart, Next
    PROVE  Apart'
<1>0. /\ writer \in [Writers -> WriterRecords]
      /\ gc.refs \in SUBSET Branches
  BY DEF TypeOK, WriterRecords
<1>1. CASE Tick
  <2>1. UNCHANGED <<setting, mtime, head, writer, gc>>
    BY <1>1 DEF Tick
  <2>2. Heads' = Heads /\ Found(Heads)' = Found(Heads)
    BY <2>1 DEF Heads, Found, Stored
  <2> QED
    BY <2>1, <2>2 DEF Apart, Active
<1>2. ASSUME NEW w \in Writers, WriterStep(w)
      PROVE  Apart'
  <2>1. PICK record \in WriterRecords :
             /\ record.pc # "idle" =>
                  \/ writer[w].pc = "idle" /\ (setting.apart => gc.pc = "idle")
                  \/ writer[w].pc # "idle"
             /\ writer' = [writer EXCEPT ![w] = record]
             /\ UNCHANGED <<setting, gc>>
    BY <1>2, WriterEffect
  <2>2. ASSUME setting.apart, gc.pc # "idle"
        PROVE  FALSE
    <3>1. writer[w].pc = "idle"
      BY <2>2 DEF Apart, Active
    <3>2. \/ \E b \in Branches, k \in Commits, from \in Branches :
                \/ BeginWrite(w, b, k)
                \/ BeginReset(w, b, k)
                \/ BeginDelete(w, b)
                \/ BeginBranch(w, b, from)
          \/ PutBlob(w) \/ PutTree(w) \/ PutCommit(w)
          \/ MoveRef(w)
          \/ WriterCrash(w)
      BY <1>2, WriterCases
    <3>3. ~(PutBlob(w) \/ PutTree(w) \/ PutCommit(w))
      BY <3>1, PutEffect
    <3>4. ~MoveRef(w) /\ ~WriterCrash(w)
      BY <3>1, MoveEffect DEF WriterCrash
    <3>5. PICK b \in Branches, k \in Commits, from \in Branches :
                \/ BeginWrite(w, b, k)
                \/ BeginReset(w, b, k)
                \/ BeginDelete(w, b)
                \/ BeginBranch(w, b, from)
      BY <3>2, <3>3, <3>4
    <3>6. setting.apart => gc.pc = "idle"
      BY <3>5, BeginEffect
    <3> QED
      BY <2>2, <3>6
  <2> QED
    BY <2>1, <2>2 DEF Apart
<1>3. CASE GcStep
  <2>1. UNCHANGED <<setting, head, writer>>
    BY <1>3, GcEffect
  <2>2. Heads' = Heads
    BY <2>1 DEF Heads
  <2>3. CASE Starts /\ UNCHANGED mtime
    <3>1. {head'[b] : b \in Branches \ gc'.refs} \ {None} = {}
      BY <2>3 DEF Starts
    <3> QED
      BY <2>1, <2>3, <3>1 DEF Apart, Starts, Active
  <2>4. ASSUME NEW b \in gc.refs, Reads(b)
        PROVE  Apart'
    <3>1. Branches \ gc'.refs = (Branches \ gc.refs) \union {b}
      BY <1>0, <2>4 DEF Reads
    <3>2. SUFFICES ASSUME setting.apart
                   PROVE  gc'.roots = {head[c] : c \in Branches \ gc'.refs} \ {None}
      BY <2>1, <2>4 DEF Apart, Reads, Active
    <3>3. gc.roots = {head[c] : c \in Branches \ gc.refs} \ {None}
      BY <2>4, <3>2 DEF Apart, Reads
    <3>4. gc'.roots = gc.roots \union ({head[b]} \ {None})
      BY <2>4 DEF Reads
    <3> QED
      BY <3>1, <3>3, <3>4
  <2>5. CASE Marks /\ UNCHANGED mtime
    <3>1. gc.refs = {} /\ gc'.marked = Found(gc.roots) /\ gc.pc = "refs"
      BY <2>5 DEF Marks
    <3>2. Found(Heads)' = Found(Heads)
      BY <2>2, <2>5 DEF Found, Stored
    <3>3. setting.apart => gc.roots = Heads
      BY <3>1 DEF Apart, Heads
    <3> QED
      BY <2>1, <2>5, <3>1, <3>2, <3>3 DEF Apart, Marks, Active
  <2>6. CASE (Lists \/ Proceeds) /\ UNCHANGED mtime
    <3>1. Found(Heads)' = Found(Heads)
      BY <2>2, <2>6 DEF Found, Stored
    <3> QED
      BY <2>1, <2>6, <3>1 DEF Apart, Lists, Proceeds, Active
  <2>7. ASSUME NEW batch \in SUBSET gc.condemned, Deletes(batch)
        PROVE  Apart'
    <3>1. Stored' \subseteq Stored
      BY <2>7 DEF Deletes, Stored
    <3>2. Found(Heads)' \subseteq Found(Heads)
      BY <2>2, <3>1 DEF Found
    <3> QED
      BY <2>1, <2>7, <3>2 DEF Apart, Deletes, Active
  <2>8. CASE gc'.pc = "idle"
    BY <2>8 DEF Apart
  <2> QED
    BY <1>3, <2>3, <2>4, <2>5, <2>6, <2>7, <2>8, GcEffect
<1> QED
  BY <1>1, <1>2, <1>3 DEF Next

-----------------------------------------------------------------------------
(* The window, beside writers of new content.                              *)

\* The closure of a ref.
LEMMA ClosureOfValue ==
    ASSUME NEW k \in Commits
    PROVE  ClosureOf(k) = Needs[k] /\ Closure({k}) = Needs[k] /\ ClosureOf(None) = {}
BY ObjectGcAssumption DEF ClosureOf, Closure

\* What is live is needed by the head of some branch.
LEMMA Live ==
    ASSUME TypeOK, NEW o
    PROVE  o \in Closure(Heads) <=> \E b \in Branches : o \in ClosureOf(head[b])
<1>1. ASSUME NEW b \in Branches, o \in ClosureOf(head[b])
      PROVE  o \in Closure(Heads)
  <2>1. head[b] \in Commits
    BY <1>1, HeadsType DEF ClosureOf, Closure
  <2>2. head[b] \in Heads /\ o \in Needs[head[b]]
    BY <1>1, <2>1, HeadsType, ClosureOfValue, ObjectGcAssumption
  <2> QED
    BY <2>2, InClosure
<1>2. ASSUME o \in Closure(Heads)
      PROVE  \E b \in Branches : o \in ClosureOf(head[b])
  <2>1. PICK k \in Heads : o \in Needs[k]
    BY <1>2, InClosure
  <2>2. PICK b \in Branches : head[b] = k
    BY <2>1 DEF Heads
  <2>3. k \in Commits
    BY HeadsType
  <2> QED
    BY <2>1, <2>2, <2>3, ClosureOfValue
<1> QED
  BY <1>1, <1>2

\* The numbers of the window.
LEMMA WindowTyping ==
    ASSUME TypeOK, Clocks
    PROVE  /\ mtime \in [Objects -> Nat \union {Missing}]
           /\ Missing \notin Nat
           /\ clock \in Nat
           /\ gc.cutoff \in Int
           /\ gc.condemned \in SUBSET Objects
           /\ gc.roots \in SUBSET Commits
           /\ writer \in [Writers -> WriterRecords]
           /\ gc.pc # "idle" => gc.cutoff <= clock
           /\ \A w \in Writers : writer[w].pc # "idle" =>
                /\ writer[w].began \in Nat
                /\ writer[w].began <= clock
                /\ gc.pc # "idle" => gc.cutoff <= writer[w].began
<1>1. /\ clock \in Nat /\ Grace \in Nat /\ gc.cutoff \in Int
      /\ \A w \in Writers : writer[w].began \in Nat
  BY ObjectGcAssumption DEF TypeOK
<1>2. gc.pc # "idle" => gc.cutoff <= clock
  BY <1>1 DEF Clocks
<1>3. \A w \in Writers : writer[w].pc # "idle" =>
                /\ writer[w].began <= clock
                /\ gc.pc # "idle" => gc.cutoff <= writer[w].began
  BY <1>1 DEF Clocks, Active
<1> QED
  BY <1>1, <1>2, <1>3, ObjectGcAssumption DEF TypeOK, WriterRecords

\* What is published by a writer that begins is live or missing.
LEMMA WindowBegin ==
    ASSUME TypeOK, Clocks, Condemned, Window, NewContentOnly,
           NEW w \in Writers, NEW record \in WriterRecords,
           writer' = [writer EXCEPT ![w] = record],
           UNCHANGED <<setting, clock, mtime, head, gc, sweeps>>,
           \/ /\ record.pc = "put"
              /\ record.new \in Commits
              /\ record.expected # None => record.expected \in Parents[record.new]
              /\ record.todo = Added(record.new)
              /\ Parents[record.new] \subseteq Heads
              /\ FreshOrLive(Added(record.new))
           \/ /\ record.expected = None
              /\ record.new \in Heads
              /\ record.todo = {}
    PROVE  Window'
<1> USE WindowTyping
<1>1. /\ record.new \in Commits
      /\ record.expected # None => record.expected \in Parents[record.new]
      /\ record.todo \intersect Commits \subseteq {record.new}
  BY AddedCommits, HeadsType
<1>2. ASSUME NEW o \in Needs[record.new]
      PROVE  \/ o \in Closure(Heads)
             \/ record.pc = "put" /\ o \in record.todo /\ mtime[o] = Missing
  <2>1. CASE record.new \in Heads
    BY <1>2, <2>1, InClosure
  <2>2. CASE /\ record.pc = "put"
             /\ record.todo = Added(record.new)
             /\ Parents[record.new] \subseteq Heads
             /\ FreshOrLive(Added(record.new))
    <3>1. o \in Added(record.new) \/ o \in Closure(Parents[record.new])
      BY <1>1, <1>2, AddedCommits
    <3>2. Closure(Parents[record.new]) \subseteq Closure(Heads)
      BY <2>2 DEF Closure
    <3>3. o \in Added(record.new) => o \in Objects
      BY <1>1, AddedCommits
    <3>4. o \in Added(record.new) => mtime[o] = Missing \/ o \in Closure(Heads)
      BY <2>2, <3>3 DEF FreshOrLive, Stored
    <3> QED
      BY <2>2, <3>1, <3>2, <3>4
  <2> QED
    BY <2>1, <2>2
<1>3. ASSUME gc.pc = "delete"
      PROVE  gc.condemned \intersect Needs[record.new] = {}
  <2>1. gc.condemned \subseteq Stored /\ gc.condemned \intersect Closure(Heads) = {}
    BY <1>3 DEF Condemned, Window, Spared
  <2> QED
    BY <1>2, <2>1 DEF Stored
<1>4. /\ Heads' = Heads /\ Stored' = Stored
      /\ writer'[w] = record
      /\ \A v \in Writers \ {w} : writer'[v] = writer[v]
  BY DEF Heads, Stored
<1>5. Closure({record.new}) = Needs[record.new]
  BY <1>1, ClosureOfValue
<1>6. ASSUME NEW v \in Writers, Active(v)'
      PROVE  /\ Growing(v)' /\ Publishing(v)'
             /\ gc.pc = "delete" => gc.condemned \intersect Closure({writer'[v].new}) = {}
  <2>1. CASE v = w
    BY <1>1, <1>2, <1>3, <1>4, <1>5, <2>1 DEF Growing, Publishing
  <2>2. CASE v # w
    <3>1. writer'[v] = writer[v] /\ Active(v)
      BY <1>4, <1>6, <2>2 DEF Active
    <3>2. Growing(v) /\ Publishing(v)
      BY <3>1 DEF Window
    <3>3. gc.pc = "delete" => gc.condemned \intersect Closure({writer[v].new}) = {}
      BY <3>1 DEF Window, Spared
    <3> QED
      BY <1>4, <3>1, <3>2, <3>3 DEF Growing, Publishing, Recent
  <2> QED
    BY <2>1, <2>2
<1>7. Closure(Heads)' \subseteq Stored'
  BY <1>4 DEF Window
<1>8. Tracked'
  BY <1>4 DEF Window, Tracked, Recent
<1>9. Spared'
  BY <1>4, <1>6 DEF Window, Spared
<1> QED
  BY <1>6, <1>7, <1>8, <1>9 DEF Window

\* Recent after a step, for a time from before it.
Renewed(o, t) == mtime'[o] # Missing /\ mtime'[o] >= t

\* What is put is young for the sweep, and for the writer.
LEMMA WindowPut ==
    ASSUME TypeOK, Clocks, Condemned, Window, NewContentOnly,
           NEW w \in Writers, PutBlob(w) \/ PutTree(w) \/ PutCommit(w)
    PROVE  Window'
<1> USE WindowTyping
<1>1. /\ writer[w].pc = "put"
      /\ \A o \in Objects : mtime'[o] = mtime[o] \/ mtime'[o] = clock
      /\ UNCHANGED <<setting, clock, head, gc, sweeps>>
  BY PutEffect
<1>2. PICK record \in WriterRecords :
        /\ writer' = [writer EXCEPT ![w] = record]
        /\ record.pc # "idle"
        /\ record.began = writer[w].began
        /\ record.new = writer[w].new
        /\ record.expected = writer[w].expected
        /\ record.todo \subseteq writer[w].todo
        /\ \/ /\ record.pc = "put"
              /\ \A o \in writer[w].todo \ record.todo : mtime'[o] # Missing
           \/ /\ writer[w].todo \subseteq Commits
              /\ writer[w].new \in Commits => mtime'[writer[w].new] = clock
  BY PutEffect
<1>3. /\ Heads' = Heads
      /\ writer'[w] = record
      /\ \A v \in Writers \ {w} : writer'[v] = writer[v]
  BY <1>1, <1>2 DEF Heads
<1>4. ASSUME NEW o \in Objects, NEW t \in Int, t <= clock,
             Recent(o, t) \/ mtime'[o] = clock
      PROVE  Renewed(o, t)
  BY <1>1, <1>4 DEF Recent, Renewed
<1>5. Closure(Heads) \subseteq Objects
  BY HeadsType, ClosureType
<1>6. Active(w) /\ Growing(w) /\ Publishing(w)
  BY <1>1 DEF Window, Active
<1>7. ASSUME NEW v \in Writers, Active(v), Growing(v), NEW o \in Closure({writer[v].new})
      PROVE  o \in Objects
  BY <1>7, ClosureType DEF Growing
<1>8. Growing(w)' /\ Publishing(w)'
  <2>1. Growing(w)'
    BY <1>2, <1>3, <1>6 DEF Growing
  <2>2. SUFFICES ASSUME NEW o \in Closure({writer[w].new})
                 PROVE  \/ o \in Closure(Heads)
                        \/ record.pc = "put" /\ o \in record.todo /\ mtime'[o] = Missing
                        \/ Renewed(o, writer[w].began)
    <3>1. Closure({writer[w].new})' = Closure({writer[w].new})
      BY <1>2, <1>3
    <3> QED
      BY <1>2, <1>3, <2>1, <3>1 DEF Publishing, Recent, Renewed
  <2>3. o \in Objects /\ writer[w].began \in Int /\ writer[w].began <= clock
    BY <1>6, <1>7 DEF Active
  <2>4. CASE Recent(o, writer[w].began)
    BY <1>4, <2>3, <2>4
  <2>5. CASE o \in writer[w].todo /\ mtime[o] = Missing
    <3>1. CASE mtime'[o] = clock
      BY <1>4, <2>3, <3>1
    <3>2. CASE mtime'[o] = Missing
      <4>1. ~(writer[w].todo \subseteq Commits /\ mtime'[writer[w].new] = clock)
        BY <1>6, <2>5, <3>2 DEF Growing
      <4>2. record.pc = "put" /\ o \in record.todo
        BY <1>2, <1>6, <2>5, <3>2, <4>1 DEF Growing
      <4> QED
        BY <3>2, <4>2
    <3> QED
      BY <1>1, <2>3, <2>5, <3>1, <3>2
  <2> QED
    BY <1>6, <2>2, <2>4, <2>5 DEF Publishing
<1>9. ASSUME NEW v \in Writers \ {w}, Active(v)
      PROVE  Growing(v)' /\ Publishing(v)'
  <2>1. Growing(v) /\ Publishing(v) /\ writer'[v] = writer[v]
    BY <1>3, <1>9 DEF Window
  <2>2. SUFFICES ASSUME NEW o \in Closure({writer[v].new})
                 PROVE  \/ o \in Closure(Heads)
                        \/ writer[v].pc = "put" /\ o \in writer[v].todo
                             /\ mtime'[o] = Missing
                        \/ Renewed(o, writer[v].began)
    BY <1>3, <2>1 DEF Growing, Publishing, Recent, Renewed
  <2>3. o \in Objects /\ writer[v].began \in Int /\ writer[v].began <= clock
    BY <1>7, <1>9, <2>1 DEF Active
  <2>4. CASE Recent(o, writer[v].began)
    BY <1>4, <2>3, <2>4
  <2>5. CASE mtime[o] = Missing
    BY <1>1, <1>4, <2>1, <2>3, <2>5 DEF Publishing
  <2> QED
    BY <2>1, <2>2, <2>4, <2>5 DEF Publishing
<1>10. Closure(Heads)' \subseteq Stored'
  <2>1. Stored \subseteq Stored'
    BY <1>1 DEF Stored
  <2> QED
    BY <1>3, <2>1 DEF Window
<1>11. gc.pc # "idle" => \A o \in Closure(Heads) : Recent(o, gc.cutoff) => Renewed(o, gc.cutoff)
  BY <1>1, <1>4, <1>5
<1>12. Tracked'
  <2>1. Tracked
    BY DEF Window
  <2>2. gc.pc = "refs" =>
         /\ Closure(gc.roots) \subseteq Closure(Heads)
         /\ \A o \in Closure(Heads) :
              \/ o \in Closure(gc.roots)
              \/ Renewed(o, gc.cutoff)
              \/ \E b \in gc.refs : o \in ClosureOf(head[b])
    BY <1>11, <2>1 DEF Tracked
  <2>3. gc.pc \in {"list", "delete"} =>
         \A o \in Closure(Heads) : o \in gc.marked \/ Renewed(o, gc.cutoff)
    BY <1>11, <2>1 DEF Tracked
  <2> QED
    BY <1>1, <1>3, <2>2, <2>3 DEF Tracked, Recent, Renewed
<1>13. Spared'
  <2>1. \A v \in Writers : writer'[v].new = writer[v].new /\ (Active(v)' => Active(v))
    BY <1>2, <1>3, <1>6 DEF Active
  <2> QED
    BY <1>1, <1>3, <2>1 DEF Window, Spared
<1>14. ASSUME NEW v \in Writers, Active(v)'
       PROVE  Growing(v)' /\ Publishing(v)'
  <2>1. v # w => Active(v)
    BY <1>3, <1>14 DEF Active
  <2> QED
    BY <1>8, <1>9, <2>1
<1> QED
  BY <1>10, <1>12, <1>13, <1>14 DEF Window

\* A ref that moves keeps what it reached; what it gains was published since
\* the writer began.
LEMMA MoveGrows ==
    ASSUME TypeOK, Window, NewContentOnly, NEW w \in Writers, MoveRef(w)
    PROVE  /\ \A b \in Branches : ClosureOf(head[b]) \subseteq ClosureOf(head'[b])
           /\ Closure(Heads) \subseteq Closure(Heads)'
           /\ \A o \in Closure(Heads)' :
                o \in Closure(Heads)
                  \/ (o \in Closure({writer[w].new}) /\ Recent(o, writer[w].began))
<1>1. /\ writer[w].pc = "cas"
      /\ Growing(w) /\ Publishing(w)
  BY MoveEffect DEF Window, Active
<1>2. /\ head \in [Branches -> Commits \union {None}]
      /\ writer[w].branch \in Branches
      /\ writer[w].new \in Commits
  BY <1>1 DEF TypeOK, Growing
<1>4. ASSUME NEW b \in Branches
      PROVE  /\ ClosureOf(head[b]) \subseteq ClosureOf(head'[b])
             /\ \/ head'[b] = head[b]
                \/ ClosureOf(head'[b]) = Closure({writer[w].new})
  <2>1. CASE head'[b] = head[b]
    BY <2>1
  <2>2. CASE head'[b] # head[b]
    <3>1. head'[b] = writer[w].new /\ head[b] = writer[w].expected
      BY <1>2, <2>2, MoveEffect
    <3>2. /\ ClosureOf(head'[b]) = Needs[writer[w].new]
          /\ Closure({writer[w].new}) = Needs[writer[w].new]
      BY <1>2, <3>1, ClosureOfValue
    <3>3. CASE head[b] = None
      BY <1>2, <3>2, <3>3, ClosureOfValue
    <3>4. CASE head[b] # None
      <4>1. head[b] \in Commits /\ head[b] \in Parents[writer[w].new]
        BY <1>1, <1>2, <3>1, <3>4 DEF Growing
      <4>2. ClosureOf(head[b]) = Needs[head[b]]
        BY <4>1, ClosureOfValue
      <4>3. Needs[head[b]] \subseteq Needs[writer[w].new]
        BY <1>2, <4>1, ClosureOfParent
      <4> QED
        BY <3>2, <4>2, <4>3
    <3> QED
      BY <3>3, <3>4
  <2> QED
    BY <2>1, <2>2
<1>5. ASSUME NEW o
      PROVE  o \in Closure(Heads)' <=> \E b \in Branches : o \in ClosureOf(head'[b])
  <2>1. \A b \in Branches :
          o \in ClosureOf(head'[b]) <=> head'[b] # None /\ o \in Needs[head'[b]]
    BY DEF ClosureOf, Closure
  <2>2. o \in Closure(Heads)' <=> \E k \in Heads' : o \in Needs[k]
    BY DEF Closure
  <2>3. \A k : k \in Heads' <=> k # None /\ \E b \in Branches : k = head'[b]
    BY DEF Heads
  <2> QED
    BY <2>1, <2>2, <2>3
<1>6. Closure(Heads) \subseteq Closure(Heads)'
  <2>1. ASSUME NEW o \in Closure(Heads)
        PROVE  o \in Closure(Heads)'
    BY <1>4, <1>5, <2>1, Live
  <2> QED
    BY <2>1
<1>7. ASSUME NEW o \in Closure(Heads)'
      PROVE  o \in Closure(Heads)
                  \/ (o \in Closure({writer[w].new}) /\ Recent(o, writer[w].began))
  <2>1. PICK b \in Branches : o \in ClosureOf(head'[b])
    BY <1>5, <1>7
  <2>2. CASE head'[b] = head[b]
    BY <2>1, <2>2, Live
  <2>3. CASE ClosureOf(head'[b]) = Closure({writer[w].new})
    BY <1>1, <2>1, <2>3 DEF Publishing
  <2> QED
    BY <1>4, <2>2, <2>3
<1> QED
  BY <1>4, <1>6, <1>7

\* A ref that moves to what was published moves to stored objects, which no
\* sweep has condemned.
LEMMA WindowMove ==
    ASSUME TypeOK, Clocks, Window, NewContentOnly,
           NEW w \in Writers, MoveRef(w)
    PROVE  Window'
<1> USE WindowTyping
<1>1. /\ writer[w].pc = "cas"
      /\ writer' = [writer EXCEPT ![w] = IdleWriter]
      /\ UNCHANGED <<setting, clock, mtime, gc, sweeps>>
  BY MoveEffect
<1>2. /\ \A b \in Branches : ClosureOf(head[b]) \subseteq ClosureOf(head'[b])
      /\ Closure(Heads) \subseteq Closure(Heads)'
      /\ \A o \in Closure(Heads)' :
                o \in Closure(Heads)
                  \/ (o \in Closure({writer[w].new}) /\ Recent(o, writer[w].began))
  BY MoveGrows
<1>3. writer[w].began \in Nat /\ (gc.pc # "idle" => gc.cutoff <= writer[w].began)
  BY <1>1
<1>4. Growing(w) /\ Active(w)
  BY <1>1 DEF Window, Active
<1>5. ASSUME NEW o \in Objects, Recent(o, writer[w].began)
      PROVE  o \in Stored /\ (gc.pc # "idle" => Recent(o, gc.cutoff))
  <2>1. mtime[o] \in Nat /\ mtime[o] >= writer[w].began
    BY <1>5 DEF Recent
  <2> QED
    BY <1>3, <2>1 DEF Recent, Stored
<1>6. Closure({writer[w].new}) \subseteq Objects
  BY <1>4, ClosureType DEF Growing
<1>7. Stored' = Stored
  BY <1>1 DEF Stored
<1>8. Closure(Heads)' \subseteq Stored'
  BY <1>2, <1>5, <1>6, <1>7 DEF Window
<1>9. ASSUME NEW v \in Writers, Active(v)'
      PROVE  Growing(v)' /\ Publishing(v)' /\ Active(v) /\ writer'[v] = writer[v]
  <2>1. v # w
    BY <1>1, <1>9, IdleTypes DEF Active
  <2>2. writer'[v] = writer[v] /\ Active(v)
    BY <1>1, <1>9, <2>1 DEF Active
  <2>3. Growing(v) /\ Publishing(v)
    BY <2>2 DEF Window
  <2>4. Growing(v)'
    BY <2>2, <2>3 DEF Growing
  <2>5. Publishing(v)'
    BY <1>1, <1>2, <2>2, <2>3 DEF Publishing, Recent
  <2> QED
    BY <2>2, <2>4, <2>5
<1>10. Tracked'
  <2>1. Tracked
    BY DEF Window
  <2>2. ASSUME gc.pc = "refs"
        PROVE  /\ Closure(gc.roots) \subseteq Closure(Heads)'
               /\ \A o \in Closure(Heads)' :
                    \/ o \in Closure(gc.roots)
                    \/ Recent(o, gc.cutoff)
                    \/ \E b \in gc.refs : o \in ClosureOf(head'[b])
    <3>1. gc.refs \in SUBSET Branches
      BY DEF TypeOK
    <3>2. Closure(gc.roots) \subseteq Closure(Heads)'
      BY <1>2, <2>1, <2>2 DEF Tracked
    <3>3. ASSUME NEW o \in Closure(Heads)
          PROVE  \/ o \in Closure(gc.roots)
                 \/ Recent(o, gc.cutoff)
                 \/ \E b \in gc.refs : o \in ClosureOf(head'[b])
      BY <1>2, <2>1, <2>2, <3>1 DEF Tracked
    <3>4. ASSUME NEW o \in Closure({writer[w].new}), Recent(o, writer[w].began)
          PROVE  Recent(o, gc.cutoff)
      BY <1>5, <1>6, <2>2, <3>4
    <3> QED
      BY <1>2, <3>2, <3>3, <3>4
  <2>3. ASSUME gc.pc \in {"list", "delete"}, NEW o \in Closure(Heads)'
        PROVE  o \in gc.marked \/ Recent(o, gc.cutoff)
    <3>1. CASE o \in Closure(Heads)
      BY <2>1, <2>3, <3>1 DEF Tracked
    <3>2. CASE o \in Closure({writer[w].new}) /\ Recent(o, writer[w].began)
      BY <1>5, <1>6, <2>3, <3>2
    <3> QED
      BY <1>2, <3>1, <3>2
  <2> QED
    BY <1>1, <2>2, <2>3 DEF Tracked, Recent
<1>11. Spared'
  <2>1. ASSUME gc.pc = "delete"
        PROVE  /\ gc.condemned \intersect Closure(Heads)' = {}
               /\ \A v \in Writers :
                    Active(v)' => gc.condemned \intersect Closure({writer'[v].new}) = {}
    <3>1. /\ gc.condemned \intersect Closure(Heads) = {}
          /\ \A v \in Writers :
                Active(v) => gc.condemned \intersect Closure({writer[v].new}) = {}
      BY <2>1 DEF Window, Spared
    <3> QED
      BY <1>2, <1>4, <1>9, <3>1
  <2> QED
    BY <1>1, <2>1 DEF Spared
<1> QED
  BY <1>8, <1>9, <1>10, <1>11 DEF Window

\* A writer that gives up, and the clock, leave all that matters as it is.
LEMMA WindowQuiet ==
    ASSUME Window, NewContentOnly,
           UNCHANGED <<setting, mtime, head, gc>>,
           \A v \in Writers : writer'[v] = writer[v] \/ writer'[v].pc = "idle"
    PROVE  Window'
<1>1. Heads' = Heads /\ Stored' = Stored
  BY DEF Heads, Stored
<1>2. ASSUME NEW v \in Writers, Active(v)'
      PROVE  Growing(v)' /\ Publishing(v)' /\ Active(v) /\ writer'[v] = writer[v]
  <2>1. writer'[v] = writer[v] /\ Active(v)
    BY <1>2 DEF Active
  <2>2. Growing(v) /\ Publishing(v)
    BY <2>1 DEF Window
  <2> QED
    BY <1>1, <2>1, <2>2 DEF Growing, Publishing, Recent
<1>3. Tracked'
  BY <1>1 DEF Window, Tracked, Recent
<1>4. Spared'
  BY <1>1, <1>2 DEF Window, Spared
<1> QED
  BY <1>1, <1>2, <1>3, <1>4 DEF Window

\* A sweep condemns nothing that is live or being published.
LEMMA WindowGc ==
    ASSUME TypeOK, Clocks, Condemned, Window, NewContentOnly, GcStep
    PROVE  Window'
<1> USE WindowTyping
<1>1. UNCHANGED <<setting, clock, head, writer>>
  BY GcEffect
<1>2. Heads' = Heads
  BY <1>1 DEF Heads
<1>3. /\ Closure(Heads) \subseteq Stored
      /\ \A v \in Writers : Active(v) => Growing(v) /\ Publishing(v)
      /\ Tracked
      /\ Spared
  BY DEF Window
<1>4. Closure(Heads) \subseteq Objects
  BY HeadsType, ClosureType
<1>5. ASSUME UNCHANGED mtime
      PROVE  /\ Closure(Heads)' \subseteq Stored'
             /\ \A v \in Writers : Active(v)' => Growing(v)' /\ Publishing(v)'
  <2>1. Stored' = Stored
    BY <1>5 DEF Stored
  <2> QED
    BY <1>1, <1>2, <1>3, <1>5, <2>1 DEF Active, Growing, Publishing, Recent
<1>6. CASE UNCHANGED mtime /\ Starts
  <2>1. gc'.pc = "refs" /\ gc'.refs = Branches /\ gc'.roots = {}
    BY <1>6 DEF Starts
  <2>2. \A o \in Closure(Heads) : \E b \in Branches : o \in ClosureOf(head[b])
    BY Live
  <2>3. Closure(gc'.roots) = {}
    BY <2>1 DEF Closure
  <2>4. Tracked' /\ Spared'
    BY <1>1, <1>2, <2>1, <2>2, <2>3 DEF Tracked, Spared
  <2> QED
    BY <1>5, <1>6, <2>4 DEF Window
<1>7. ASSUME UNCHANGED mtime, NEW b \in gc.refs, Reads(b)
      PROVE  Window'
  <2>1. /\ gc.pc = "refs" /\ gc'.pc = "refs"
        /\ gc'.cutoff = gc.cutoff /\ gc'.refs = gc.refs \ {b}
        /\ gc'.roots = gc.roots \union ({head[b]} \ {None})
    BY <1>7 DEF Reads
  <2>2. Closure(gc'.roots) = Closure(gc.roots) \union ClosureOf(head[b])
    BY <2>1 DEF Closure, ClosureOf
  <2>3. ClosureOf(head[b]) \subseteq Closure(Heads)
    <3>1. b \in Branches
      BY DEF TypeOK
    <3> QED
      BY <3>1, Live
  <2>4. Closure(gc'.roots) \subseteq Closure(Heads)
    BY <1>3, <2>1, <2>2, <2>3 DEF Tracked
  <2>5. ASSUME NEW o \in Closure(Heads)
        PROVE  \/ o \in Closure(gc'.roots)
               \/ Recent(o, gc.cutoff)
               \/ \E c \in gc'.refs : o \in ClosureOf(head[c])
    BY <1>3, <2>1, <2>2 DEF Tracked
  <2>6. Tracked' /\ Spared'
    BY <1>1, <1>2, <1>7, <2>1, <2>4, <2>5 DEF Tracked, Spared, Recent
  <2> QED
    BY <1>5, <1>7, <2>6 DEF Window
<1>8. CASE UNCHANGED mtime /\ Marks
  <2>1. /\ gc.pc = "refs" /\ gc'.pc = "list" /\ gc.refs = {}
        /\ gc'.cutoff = gc.cutoff /\ gc'.marked = Found(gc.roots)
    BY <1>8 DEF Marks
  <2>2. gc.roots \in SUBSET Commits /\ Closure(gc.roots) \subseteq Stored
    BY <1>3, <2>1 DEF Tracked
  <2>3. ASSUME NEW o \in Closure(gc.roots)
        PROVE  o \in Found(gc.roots)
    <3>1. PICK k \in gc.roots : o \in Needs[k]
      BY <2>3, InClosure
    <3>2. PICK a \in History[k] : o = a \/ o = TreeOf[a] \/ o \in BlobsOf[TreeOf[a]]
      BY <2>2, <3>1, InNeeds
    <3>3. a \in Commits /\ TreeOf[a] \in Trees
      BY <2>2, <3>2, HistorySelf, ObjectGcAssumption
    <3>4. TreeOf[a] \in Needs[k]
      BY <2>2, <3>1, <3>2, InNeeds
    <3>5. TreeOf[a] \in Closure(gc.roots) \intersect Trees \intersect Stored
      BY <2>2, <3>1, <3>3, <3>4, InClosure
    <3>6. CASE o \in BlobsOf[TreeOf[a]]
      BY <3>5, <3>6 DEF Found
    <3>7. CASE o = a \/ o = TreeOf[a]
      <4>1. o \notin Blobs
        BY <3>3, <3>7, ObjectGcAssumption
      <4> QED
        BY <2>3, <4>1 DEF Found
    <3> QED
      BY <3>2, <3>6, <3>7
  <2>4. \A o \in Closure(Heads) : o \in gc'.marked \/ Recent(o, gc.cutoff)
    BY <1>3, <2>1, <2>3 DEF Tracked
  <2>5. Tracked' /\ Spared'
    BY <1>1, <1>2, <1>8, <2>1, <2>4 DEF Tracked, Spared, Recent
  <2> QED
    BY <1>5, <1>8, <2>5 DEF Window
<1>9. CASE UNCHANGED mtime /\ Lists
  <2>1. /\ gc.pc = "list" /\ gc'.pc = "delete"
        /\ gc'.cutoff = gc.cutoff /\ gc'.marked = gc.marked
    BY <1>9 DEF Lists
  <2>2. \A o \in gc'.condemned : o \in Stored /\ o \notin gc.marked /\ ~Young(o)
    BY <1>9 DEF Lists
  <2>3. \A o \in Closure(Heads) : o \in gc.marked \/ Recent(o, gc.cutoff)
    BY <1>3, <2>1 DEF Tracked
  <2>4. gc'.condemned \intersect Closure(Heads) = {}
    BY <2>2, <2>3 DEF Recent, Young
  <2>5. ASSUME NEW v \in Writers, Active(v), NEW o \in Closure({writer[v].new}),
               o \in gc'.condemned
        PROVE  FALSE
    <3>1. o \in Objects /\ mtime[o] \in Nat
      BY <2>2, <2>5 DEF Stored
    <3>2. Recent(o, writer[v].began)
      BY <1>3, <2>4, <2>5, <3>1 DEF Publishing
    <3>3. gc.cutoff <= writer[v].began /\ writer[v].began \in Nat
      BY <2>1, <2>5 DEF Active
    <3>4. mtime[o] >= gc.cutoff
      BY <3>1, <3>2, <3>3 DEF Recent
    <3> QED
      BY <2>2, <2>5, <3>4 DEF Young
  <2>6. Tracked'
    BY <1>2, <1>9, <2>1, <2>3 DEF Tracked, Recent
  <2>7. Spared'
    BY <1>1, <1>2, <2>4, <2>5 DEF Spared, Active
  <2> QED
    BY <1>5, <1>9, <2>6, <2>7 DEF Window
<1>10. ASSUME NEW batch \in SUBSET gc.condemned, Deletes(batch)
       PROVE  Window'
  <2>1. /\ gc.pc = "delete" /\ gc'.pc = "delete"
        /\ gc'.cutoff = gc.cutoff /\ gc'.marked = gc.marked
        /\ gc'.condemned = gc.condemned \ batch
        /\ \A o \in Objects : o \notin batch => mtime'[o] = mtime[o]
    BY <1>10 DEF Deletes
  <2>2. /\ gc.condemned \intersect Closure(Heads) = {}
        /\ \A v \in Writers :
             Active(v) => gc.condemned \intersect Closure({writer[v].new}) = {}
    BY <1>3, <2>1 DEF Spared
  <2>3. \A o \in Closure(Heads) : mtime'[o] = mtime[o]
    BY <1>4, <2>1, <2>2
  <2>4. Closure(Heads)' \subseteq Stored'
    BY <1>2, <1>3, <1>4, <2>3 DEF Stored
  <2>5. ASSUME NEW v \in Writers, Active(v)
        PROVE  Growing(v)' /\ Publishing(v)'
    <3>1. Growing(v) /\ Publishing(v)
      BY <1>3, <2>5
    <3>2. \A o \in Closure({writer[v].new}) : o \in Objects /\ o \notin batch
      BY <2>2, <2>5, <3>1, ClosureType DEF Growing
    <3>3. \A o \in Closure({writer[v].new}) : mtime'[o] = mtime[o]
      BY <2>1, <3>2
    <3> QED
      BY <1>1, <1>2, <3>1, <3>3 DEF Growing, Publishing, Recent
  <2>6. Tracked'
    BY <1>2, <1>3, <2>1, <2>3 DEF Tracked, Recent
  <2>7. Spared'
    BY <1>1, <1>2, <2>1, <2>2 DEF Spared, Active
  <2> QED
    BY <1>1, <2>4, <2>5, <2>6, <2>7 DEF Window, Active
<1>11. CASE UNCHANGED mtime /\ Proceeds
  <2>1. /\ gc.pc = "delete" /\ gc'.pc = "list"
        /\ gc'.cutoff = gc.cutoff /\ gc'.marked = gc.marked
    BY <1>11 DEF Proceeds
  <2>2. Tracked' /\ Spared'
    BY <1>2, <1>3, <1>11, <2>1 DEF Tracked, Spared, Recent
  <2> QED
    BY <1>5, <1>11, <2>2 DEF Window
<1>12. CASE UNCHANGED mtime /\ gc'.pc = "idle"
  BY <1>5, <1>12 DEF Window, Tracked, Spared
<1> QED
  BY <1>6, <1>7, <1>8, <1>9, <1>10, <1>11, <1>12, GcEffect

\* Every step keeps the window.
LEMMA WindowStep ==
    ASSUME TypeOK, Clocks, Condemned, Window, Next
    PROVE  Window'
<1>0. setting' = setting
  BY WriterEffect, GcEffect DEF Next, Tick
<1>1. CASE ~NewContentOnly
  BY <1>0, <1>1 DEF Window, NewContentOnly
<1>2. ASSUME NewContentOnly, Tick
      PROVE  Window'
  BY <1>2, WindowQuiet DEF Tick
<1>3. ASSUME NewContentOnly, NEW w \in Writers, WriterStep(w)
      PROVE  Window'
  <2>1. ASSUME NEW b \in Branches, NEW k \in Commits, NEW from \in Branches,
               \/ BeginWrite(w, b, k)
               \/ BeginReset(w, b, k)
               \/ BeginDelete(w, b)
               \/ BeginBranch(w, b, from)
        PROVE  Window'
    <3>1. PICK record \in WriterRecords :
             /\ writer' = [writer EXCEPT ![w] = record]
             /\ UNCHANGED <<setting, clock, mtime, head, gc, sweeps>>
             /\ NewContentOnly =>
                  \/ /\ record.pc = "put"
                     /\ record.new \in Commits
                     /\ record.expected # None => record.expected \in Parents[record.new]
                     /\ record.todo = Added(record.new)
                     /\ Parents[record.new] \subseteq Heads
                     /\ FreshOrLive(Added(record.new))
                  \/ /\ record.expected = None
                     /\ record.new \in Heads
                     /\ record.todo = {}
      BY <2>1, BeginEffect
    <3> QED
      BY <1>3, <3>1, WindowBegin
  <2>2. CASE WriterCrash(w)
    <3>1. /\ writer' = [writer EXCEPT ![w] = IdleWriter]
          /\ UNCHANGED <<setting, clock, mtime, head, gc, sweeps>>
      BY <2>2 DEF WriterCrash
    <3>2. \A v \in Writers : writer'[v] = writer[v] \/ writer'[v].pc = "idle"
      BY <3>1, IdleTypes DEF TypeOK
    <3> QED
      BY <1>3, <3>1, <3>2, WindowQuiet
  <2> QED
    BY <1>3, <2>1, <2>2, WindowPut, WindowMove, WriterCases
<1>4. ASSUME NewContentOnly, GcStep
      PROVE  Window'
  BY <1>4, WindowGc
<1> QED
  BY <1>1, <1>2, <1>3, <1>4 DEF Next

-----------------------------------------------------------------------------
(* The theorems.                                                           *)

LEMMA InitInv ==
    ASSUME Init
    PROVE  Inv
<1>1. writer \in [Writers -> WriterRecords] /\ gc \in GcRecords
  BY IdleTypes DEF Init
<1>2. gc.pc = "idle" /\ \A w \in Writers : ~Active(w)
  BY IdleTypes DEF Init, Active
<1>3. TypeOK
  BY <1>1, ObjectGcAssumption DEF Init, TypeOK, WriterRecords, GcRecords
<1>4. Closure(Heads) \subseteq Stored
  <2>1. Closure(Heads) \in SUBSET Objects
    BY <1>3, HeadsType, ClosureType
  <2>2. \A o \in Closure(Heads) : mtime[o] = 0
    BY <2>1 DEF Init
  <2>3. Missing # 0
    BY ObjectGcAssumption
  <2> QED
    BY <2>1, <2>2, <2>3 DEF Stored
<1> QED
  BY <1>2, <1>3, <1>4 DEF Inv, Clocks, Condemned, Apart, Window, Tracked, Spared

LEMMA StutterInv ==
    ASSUME Inv, UNCHANGED vars
    PROVE  Inv'
<1>1. UNCHANGED <<setting, clock, mtime, head, writer, gc, sweeps>>
  BY DEF vars
<1>2. Heads' = Heads /\ Stored' = Stored
  BY <1>1 DEF Heads, Stored
<1>3. TypeOK' /\ Clocks'
  BY <1>1 DEF Inv, TypeOK, Clocks, Active
<1>4. Condemned'
  BY <1>1, <1>2 DEF Inv, Condemned, Young, KindOf
<1>5. Apart'
  BY <1>1, <1>2 DEF Inv, Apart, Active, Found
<1>6. Window'
  BY <1>1, WindowQuiet DEF Inv, Window, NewContentOnly
<1> QED
  BY <1>3, <1>4, <1>5, <1>6 DEF Inv

\* The inductive invariant.
LEMMA Invariance == Spec => []Inv
<1>1. ASSUME Inv, Next
      PROVE  Inv'
  BY <1>1, TypeStep, ClocksStep, CondemnedStep, ApartStep, WindowStep DEF Inv
<1> QED
  BY <1>1, InitInv, StutterInv, PTL DEF Spec

\* The state is well typed: of gc --prune and its writers, for every store.
THEOREM TypeCorrect == Spec => []TypeOK
<1>1. Inv => TypeOK
  BY DEF Inv
<1> QED
  BY <1>1, Invariance, PTL

\* gc --prune beside writers of new content that finish within gc_grace_seconds
\* never takes an object that a branch head reaches.
THEOREM HeadsWhole == Spec => []HeadsClosed
<1>1. Inv => HeadsClosed
  BY DEF Inv, Window, HeadsClosed
<1> QED
  BY <1>1, Invariance, PTL

\* _sweep_kind leaves of a kind what is marked and what is young.
THEOREM Thorough == Spec => []SweepIsThorough
<1>1. Inv => SweepIsThorough
  BY DEF Inv, Condemned, SweepIsThorough
<1> QED
  BY <1>1, Invariance, PTL

\* Kept apart from writers, _sweep_kind deletes nothing that a walk from the
\* branch heads finds.
THEOREM LiveKept == Spec => LiveDataIsKept
<1>1. ASSUME Inv, Next, setting.apart
      PROVE  Found(Heads) \intersect Stored \subseteq {o \in Objects : mtime'[o] # Missing}
  <2>0. TypeOK /\ Clocks /\ Condemned /\ Apart
    BY <1>1 DEF Inv
  <2> USE <2>0, WindowTyping
  <2>1. Stored \subseteq Objects
    BY DEF Stored
  <2>2. ASSUME \A o \in Objects : mtime'[o] = mtime[o] \/ mtime'[o] = clock
        PROVE  \A o \in Stored : mtime'[o] # Missing
    BY <2>1, <2>2 DEF Stored
  <2>3. CASE Tick
    BY <2>1, <2>2, <2>3 DEF Tick
  <2>4. ASSUME NEW w \in Writers, WriterStep(w)
        PROVE  \A o \in Stored : mtime'[o] # Missing
    BY <2>2, <2>4, WriterEffect
  <2>5. ASSUME NEW batch \in SUBSET gc.condemned, Deletes(batch)
        PROVE  \A o \in Found(Heads) \intersect Stored : mtime'[o] # Missing
    <3>1. /\ gc.pc = "delete"
          /\ \A o \in Objects : o \notin batch => mtime'[o] = mtime[o]
      BY <2>5 DEF Deletes
    <3>2. gc.condemned \intersect gc.marked = {} /\ Found(Heads) \subseteq gc.marked
      BY <1>1, <3>1 DEF Condemned, Apart
    <3>3. \A o \in Found(Heads) \intersect Stored : o \in Objects /\ o \notin batch
      BY <2>1, <2>5, <3>2
    <3> QED
      BY <3>1, <3>3 DEF Stored
  <2>6. ASSUME UNCHANGED mtime
        PROVE  \A o \in Stored : mtime'[o] # Missing
    BY <2>2, <2>6
  <2>7. CASE GcStep
    BY <2>1, <2>5, <2>6, <2>7, GcEffect
  <2> QED
    BY <1>1, <2>1, <2>3, <2>4, <2>7 DEF Next
<1>2. Inv /\ [Next]_vars =>
        [setting.apart =>
         Found(Heads) \intersect Stored \subseteq {o \in Objects : mtime'[o] # Missing}]_vars
  BY <1>1
<1> QED
  BY <1>2, Invariance, PTL DEF Spec, LiveDataIsKept
=============================================================================
