------------------------------- MODULE Staging -------------------------------
(***************************************************************************)
(* The staging area of one branch, and the operations that turn it, the    *)
(* worktree or S3 objects into commits (services/staging.py,               *)
(* services/entries.py, repository_ops.py and commit of repository.py).    *)
(*                                                                         *)
(* Processes share one repository directory: its worktree, its staging     *)
(* file and its snapshot of the branch.  Nothing locks them: add, rm and   *)
(* mv load the staged changes, and save all of them later; commit loads    *)
(* them first and deletes the file last.  Other clones move the branch.    *)
(*                                                                         *)
(* A commit is its set of files, a function from paths to entries (module  *)
(* Trees shows that the tree algorithms keep to that).  A compare-and-set  *)
(* and the snapshot that follows it are one step (module BranchOps takes   *)
(* them apart).  The repository's identity mode is content.                *)
(***************************************************************************)
EXTENDS FilePaths

CONSTANTS
    Procs,         \* processes in the repository directory
    Paths,         \* logical paths; also the files of the worktree
    Objects,       \* S3 objects under one prefix, unlike any path
    Key,           \* their keys below it, as paths
    Contents,      \* of files and objects; an object's ETag is its content
    Starts,        \* records [disk, files]: worktree and first commit
    Ops,           \* the operations each process performs
    PeerEdits,     \* records [adds, removed]: commits of other clones
    Writes,        \* records [source, content]: what others write
    StagedRetries, \* _STAGED_COMMIT_RETRIES
    MaxOps,        \* bound: operations started
    MaxOthers      \* bound: commits of other clones, and writes

VARIABLES
    disk,       \* content of every source: worktree files and S3 objects
    staged,     \* staging/<branch>.json: a change for some paths
    trees,      \* the commits so far
    head,       \* the branch: an index into trees, 0 if unborn
    snapshot,   \* what this directory last saw of it; None: nothing
    proc,       \* the processes
    count,      \* [ops, others] so far
    intent,     \* history: the changes staged and not committed, by those
                \* who were told so
    overlapped, \* history: two operations on the staging area overlapped
    unchecked   \* history: mv has staged something, or rm has taken back
                \* an addition: neither compares the additions that are left

vars == <<disk, staged, trees, head, snapshot, proc, count, intent, overlapped, unchecked>>

Sources == Paths \union Objects
NoFiles == [p \in {} |-> None]
FilesAt(id) == IF id = 0 THEN NoFiles ELSE trees[id]
Worktree == Only(disk, {p \in Paths : disk[p] # None})

\* a file or a directory
Exists(path) == \E q \in DOMAIN Worktree : Within(q, path)

(***************************************************************************)
(* Entries and staged changes.                                             *)
(***************************************************************************)
Blob(c) == [mode |-> "content", hash |-> c]

\* a pointer has the hash of its path and size; its source, and the tag (the
\* ETag, of a local file size and mtime), say what it points to
Pointer(s, tag) == [mode |-> "pointer", source |-> s, tag |-> tag]

Remove == [action |-> "remove"]
Add(s, mode) == [action |-> "add", mode |-> mode, source |-> s, hash |-> None]

\* mutant of AddMoved: a moved pointer is promoted on the way
AddMovedAsContent(e) ==
    IF e.mode = "pointer" THEN Add(e.source, "content")
    ELSE [action |-> "add", mode |-> "content", source |-> None, hash |-> e.hash]

\* mv stages an addition that knows a blob, or the source of a pointer
AddMoved(e) ==
    IF e.mode = "pointer" THEN Add(e.source, "pointer")
    ELSE [action |-> "add", mode |-> "content", source |-> None, hash |-> e.hash]

EntrySet == {Blob(c) : c \in Contents} \union {Pointer(s, c) : s \in Sources, c \in Contents}

ChangeSet ==
    {Remove} \union {Add(s, m) : s \in Sources, m \in {"content", "pointer"}}
             \union {AddMoved(e) : e \in EntrySet}

IsFiles(f) == f \in [DOMAIN f -> EntrySet] /\ PrefixFree(DOMAIN f)

AddsOf(changes) == {p \in DOMAIN changes : changes[p].action = "add"}
RemovesOf(changes) == {p \in DOMAIN changes : changes[p].action = "remove"}

\* entry_from_source_uri
EntryFromSource(s, mode) == IF mode = "content" THEN Blob(disk[s]) ELSE Pointer(s, disk[s])

\* a change without a source prefers the worktree file of its path, and
\* raises at a directory
EntryFromChange(p, change) ==
    IF change.source # None
    THEN IF disk[change.source] = None THEN None
         ELSE EntryFromSource(change.source, change.mode)
    ELSE IF disk[p] # None THEN EntryFromSource(p, change.mode)
    ELSE IF ~Exists(p) /\ change.mode = "content" /\ change.hash # None THEN Blob(change.hash)
    ELSE None

(***************************************************************************)
(* The operations.                                                         *)
(***************************************************************************)
MovedPath(p, from, to) == to \o SubSeq(p, Len(from) + 1, Len(p))

OpSet ==
         [kind : {"add"}, from : Paths \union {None}, to : Paths, mode : {"content", "pointer"}]
  \union [kind : {"mv", "move"}, from : Paths, to : Paths]
  \union [kind : {"rm", "remove"}, path : Paths]
  \union [kind : {"restore"}, path : Paths \union {<<>>}, force : BOOLEAN]
  \union [kind : {"commit"}, staged : BOOLEAN]
  \union [kind : {"import"}, mode : {"content", "pointer"}]
  \union [kind : {"promote"}]

\* Paths holds every path that an operation can make of those it finds
StaysInPaths(op) ==
    op.kind \in {"add", "mv", "move"} =>
        IF op.from = None THEN \A o \in Objects : op.to \o Key[o] \in Paths
        ELSE \A p \in Paths : Within(p, op.from) => MovedPath(p, op.from, op.to) \in Paths

ASSUME StagingAssumption ==
    /\ Paths \subseteq Seq(Nat) \ {<<>>} /\ IsFiniteSet(Paths)
    /\ Objects \intersect Paths = {}
    /\ Key \in [Objects -> Paths]
    /\ None \notin Nat \union Contents \union Sources \union EntrySet
    /\ StagedRetries \in Nat
    /\ Ops \in [Procs -> SUBSET OpSet]
    /\ \A p \in Procs : \A op \in Ops[p] : StaysInPaths(op)
    /\ \A s \in Starts :
         /\ s.disk \in [Sources -> Contents \union {None}]
         /\ PrefixFree({p \in Paths : s.disk[p] # None})
         /\ IsFiles(s.files) /\ DOMAIN s.files \subseteq Paths
    /\ \A c \in PeerEdits : IsFiles(c.adds) /\ DOMAIN c.adds \subseteq Paths
    /\ Writes \subseteq [source : Sources, content : Contents \union {None}]

(***************************************************************************)
(* What add, rm and mv stage.                                              *)
(***************************************************************************)

\* the objects of the prefix, below the path to
Listed(to) == {<<to \o Key[o], o>> : o \in {x \in Objects : disk[x] # None}}

\* <<logical path, source>>: a file, the files of a directory, S3 objects
Expand(op) ==
    IF op.from = None THEN Listed(op.to)
    ELSE {<<MovedPath(p, op.from, op.to), p>> : p \in {q \in DOMAIN Worktree : Within(q, op.from)}}

SourceOf(pairs, p) == (CHOOSE pair \in pairs : pair[1] = p)[2]
PathsOf(pairs) == {pair[1] : pair \in pairs}

AddChanges(op) ==
    [p \in PathsOf(Expand(op)) |-> Add(SourceOf(Expand(op), p), op.mode)]

\* each addition is compared with the next one
NextAdd(adds, p, q) ==
    PathLess(p, q) /\ ~ \E r \in adds : PathLess(p, r) /\ PathLess(r, q)

\* mutant of NoConflictingAdds: the neighbours are compared the wrong way
OnlyNewClashes(changes) ==
    LET adds == AddsOf(changes)
    IN  \A p, q \in adds : NextAdd(adds, p, q) => ~Within(p, q)
\* _reject_conflicting_adds
NoConflictingAdds(changes) ==
    LET adds == AddsOf(changes)
    IN  \A p, q \in adds : NextAdd(adds, p, q) => ~Within(q, p)

\* mv takes the files one by one, in walk order: remove the old path, add
\* the new one; what is written later for a path stays
MoveChanges(files, from, to) ==
    LET sources == {p \in DOMAIN files : Within(p, from)}
        new(p) == MovedPath(p, from, to)
        removes == {p \in sources : \A q \in sources : new(q) = p => WalkLess(q, p)}
        adds == {new(p) : p \in sources} \ removes
    IN  Over([p \in removes |-> Remove],
             [p \in adds |-> AddMoved(files[CHOOSE q \in sources : new(q) = p])])

\* _require_directory_destination
UnderFile(files, to) == \E p \in DOMAIN files : Within(to, p) /\ to # p

MoveRefused(files, from, to) ==
    \/ Within(to, from)
    \/ UnderFile(files, to)
    \/ ~ \E p \in DOMAIN files : Within(p, from)

StageChanges(op, files) ==
    CASE op.kind = "add" -> AddChanges(op)
      [] op.kind = "rm"  -> [p \in {op.path} |-> Remove]
      [] op.kind = "mv"  -> MoveChanges(files, op.from, op.to)

StageRefused(op, files, changes) ==
    CASE op.kind = "add" -> Expand(op) = {} \/ ~NoConflictingAdds(changes)
      [] op.kind = "rm"  -> FALSE
      [] op.kind = "mv"  -> files = NoFiles \/ MoveRefused(files, op.from, op.to)

(***************************************************************************)
(* What an operation makes of the files of its parent commit; entries are  *)
(* the staged additions, materialised.  An operation that raises makes     *)
(* nothing: Raises.                                                        *)
(***************************************************************************)
Entries(changes) == [p \in AddsOf(changes) |-> EntryFromChange(p, changes[p])]

\* the files are hashed, the identity mode being content
WorkEntries == [p \in DOMAIN Worktree |-> Blob(disk[p])]

Imported(op) == [p \in PathsOf(Listed(<<>>)) |-> EntryFromSource(SourceOf(Listed(<<>>), p), op.mode)]

Moved(files, from, to) ==
    LET sources == {p \in DOMAIN files : Within(p, from)}
    IN  [q \in {MovedPath(p, from, to) : p \in sources} |->
            files[CHOOSE p \in sources : MovedPath(p, from, to) = q]]

Pointers(files) == {p \in DOMAIN files : files[p].mode = "pointer"}

\* mutant of Promoted: the pointer is described anew
StillPointers(files) ==
    [p \in Pointers(files) |-> Pointer(files[p].source, disk[files[p].source])]
Promoted(files) == [p \in Pointers(files) |-> Blob(disk[files[p].source])]

Unvalidated(op, entries, removed) == FALSE \* mutant of Clash

\* the additions of one splice clash: validate_tree_node refuses the node
Clash(op, entries, removed) ==
    IF op.staged THEN ~PrefixFree(DOMAIN entries)
    ELSE ~PrefixFree(LateAdds({p \in DOMAIN Worktree : ~PathIsRemoved(p, removed)},
                              DOMAIN entries))

\* mutant of Collides: only what moves itself is in the way
CollidesWithin(files, op) ==
    \E q \in DOMAIN Moved(files, op.from, op.to) \intersect DOMAIN files : Within(q, op.from)
Collides(files, op) ==
    \E q \in DOMAIN Moved(files, op.from, op.to) \intersect DOMAIN files : ~Within(q, op.from)

Raises(op, files, entries, removed) ==
    CASE op.kind = "commit" -> Clash(op, entries, removed)
      [] op.kind = "import" -> ~PrefixFree(DOMAIN Imported(op))
      [] op.kind = "move" -> MoveRefused(files, op.from, op.to) \/ Collides(files, op)
      [] op.kind = "remove" -> ~ \E p \in DOMAIN files : Within(p, op.path)
      [] op.kind = "promote" ->
            Pointers(files) = {} \/ \E p \in Pointers(files) : disk[files[p].source] = None

Result(op, files, entries, removed) ==
    CASE op.kind = "commit" ->
            IF op.staged THEN FlatSplice(files, entries, removed)
            ELSE FlatCommit(files, WorkEntries, entries, removed)
      [] op.kind = "import"  -> FlatSplice(files, Imported(op), {})
      [] op.kind = "move"    -> FlatSplice(files, Moved(files, op.from, op.to), {op.from})
      [] op.kind = "remove"  -> FlatSplice(files, NoFiles, {op.path})
      [] op.kind = "promote" -> FlatSplice(files, Promoted(files), {})

(***************************************************************************)
(* status --working-tree.                                                  *)
(***************************************************************************)
\* mutant of StatusOf: a pointer is compared by its ETag
StatusByTag(files) ==
    [added    |-> DOMAIN Worktree \ DOMAIN files,
     removed  |-> DOMAIN files \ DOMAIN Worktree,
     modified |-> {p \in DOMAIN files \intersect DOMAIN Worktree :
                    disk[p] # IF files[p].mode = "pointer" THEN files[p].tag ELSE files[p].hash}]

\* a pointer's hash is not that of any content
StatusOf(files) ==
    [added    |-> DOMAIN Worktree \ DOMAIN files,
     removed  |-> DOMAIN files \ DOMAIN Worktree,
     modified |-> {p \in DOMAIN files \intersect DOMAIN Worktree : files[p] # Blob(disk[p])}]

(***************************************************************************)
(* Actions.                                                                *)
(***************************************************************************)
Idle == [pc |-> "idle", op |-> None, loaded |-> NoFiles, entries |-> NoFiles,
         parent |-> 0, result |-> NoFiles, tries |-> 0, calm |-> TRUE, was |-> None]

StagingKinds == {"add", "rm", "mv", "commit"}

Init ==
    \E s \in Starts :
        /\ disk = s.disk
        /\ staged = NoFiles
        /\ trees = IF s.files = NoFiles THEN <<>> ELSE <<s.files>>
        /\ head = Len(trees)
        /\ snapshot = None
        /\ proc = [p \in Procs |-> Idle]
        /\ count = [ops |-> 0, others |-> 0]
        /\ intent = NoFiles
        /\ overlapped = FALSE
        /\ unchecked = FALSE

store == <<trees, head, snapshot>>
area == <<staged, intent, unchecked>>

Restored(op) == Only(FilesAt(head), {p \in DOMAIN FilesAt(head) : Within(p, op.path)})

\* add, rm, mv and commit load the staged changes first; restore lists the
\* files of the head first
Begin(p) ==
    \E op \in Ops[p] :
        /\ proc[p].pc = "idle"
        /\ count.ops < MaxOps
        /\ count' = [count EXCEPT !.ops = @ + 1]
        /\ proc' = [proc EXCEPT ![p] =
             [Idle EXCEPT !.op = op,
                !.pc = CASE op.kind \in {"add", "rm", "mv"} -> "stage"
                         [] op.kind = "commit"  -> "entries"
                         [] op.kind = "restore" -> "look"
                         [] OTHER -> "build",
                !.loaded = IF op.kind \in StagingKinds THEN staged ELSE NoFiles,
                !.entries = IF op.kind = "restore" THEN Restored(op) ELSE NoFiles,
                !.result = IF op.kind = "restore" THEN Restored(op) ELSE NoFiles,
                !.was = IF op.kind = "restore" THEN disk ELSE None]]
        /\ overlapped' = (overlapped \/ /\ op.kind \in StagingKinds
                                        /\ \E q \in Procs : /\ proc[q].pc # "idle"
                                                            /\ proc[q].op.kind \in StagingKinds)
        /\ UNCHANGED <<disk, store, area>>

Done(p) == proc' = [proc EXCEPT ![p] = Idle]

\* repo_add, repo_rm, repo_move_staged from the load on
Stage(p) ==
    LET op == proc[p].op
        own == StageChanges(op, FilesAt(head))
        changes == Over(own, proc[p].loaded)
    IN  /\ proc[p].pc = "stage"
        /\ IF StageRefused(op, FilesAt(head), changes)
           THEN UNCHANGED area
           ELSE /\ staged' = changes
                /\ intent' = Over(own, intent)
                /\ unchecked' =
                     \/ unchecked
                     \/ op.kind = "mv"
                     \/ op.kind = "rm" /\ op.path \in AddsOf(proc[p].loaded)
        /\ Done(p)
        /\ UNCHANGED <<disk, store, count, overlapped>>

\* mutant of Materialize: the staging file is deleted at the start
MaterializeAndClear(p) ==
    LET entries == Entries(proc[p].loaded)
    IN  /\ proc[p].pc = "entries"
        /\ IF \E q \in DOMAIN entries : entries[q] = None
           THEN Done(p) /\ UNCHANGED staged
           ELSE /\ proc' = [proc EXCEPT ![p].pc = "build", ![p].entries = entries,
                                ![p].tries = IF proc[p].op.staged THEN StagedRetries ELSE 1]
                /\ staged' = NoFiles
        /\ UNCHANGED <<disk, store, intent, unchecked, count, overlapped>>

\* commit makes entries of the staged additions, and stores their blobs, once
Materialize(p) ==
    LET entries == Entries(proc[p].loaded)
    IN  /\ proc[p].pc = "entries"
        /\ IF \E q \in DOMAIN entries : entries[q] = None
           THEN Done(p)
           ELSE proc' = [proc EXCEPT ![p].pc = "build", ![p].entries = entries,
                            ![p].tries = IF proc[p].op.staged THEN StagedRetries ELSE 1]
        /\ UNCHANGED <<disk, store, area, count, overlapped>>

\* require_branch_state, and the new tree.  Promotion takes the ref itself.
Build(p) ==
    LET op == proc[p].op
        parent == IF op.kind = "promote" \/ snapshot = None THEN head ELSE snapshot
        removed == RemovesOf(proc[p].loaded)
        unborn == parent = 0 /\ op.kind \notin {"commit", "import"}
    IN  /\ proc[p].pc = "build"
        /\ snapshot' = IF op.kind = "promote" \/ parent = 0 THEN snapshot ELSE parent
        /\ IF unborn \/ Raises(op, FilesAt(parent), proc[p].entries, removed)
           THEN Done(p)
           ELSE proc' = [proc EXCEPT ![p].pc = "cas", ![p].parent = parent,
                    ![p].result = Result(op, FilesAt(parent), proc[p].entries, removed)]
        /\ UNCHANGED <<disk, area, trees, head, count, overlapped>>

\* mutant of Cas: the retry publishes the tree of the first attempt
CasWithoutRebuild(p) ==
    /\ proc[p].pc = "cas"
    /\ IF head = proc[p].parent
       THEN /\ trees' = Append(trees, proc[p].result)
            /\ head' = Len(trees')
            /\ snapshot' = head'
            /\ IF proc[p].op.kind = "commit"
               THEN proc' = [proc EXCEPT ![p].pc = "clear"]
               ELSE Done(p)
       ELSE /\ snapshot' = head
            /\ IF proc[p].tries > 1
               THEN proc' = [proc EXCEPT ![p].parent = head, ![p].tries = @ - 1]
               ELSE Done(p)
            /\ UNCHANGED <<trees, head>>
    /\ UNCHANGED <<disk, area, count, overlapped>>

\* write_commit_object: on a conflict the snapshot becomes the head, and
\* commit --staged builds again
Cas(p) ==
    /\ proc[p].pc = "cas"
    /\ IF head = proc[p].parent
       THEN /\ trees' = Append(trees, proc[p].result)
            /\ head' = Len(trees')
            /\ snapshot' = head'
            /\ IF proc[p].op.kind = "commit"
               THEN proc' = [proc EXCEPT ![p].pc = "clear"]
               ELSE Done(p)
       ELSE /\ snapshot' = head
            /\ IF proc[p].tries > 1
               THEN proc' = [proc EXCEPT ![p].pc = "build", ![p].tries = @ - 1]
               ELSE Done(p)
            /\ UNCHANGED <<trees, head>>
    /\ UNCHANGED <<disk, area, count, overlapped>>

\* commit deletes the staging file last
Clear(p) ==
    LET loaded == proc[p].loaded
    IN  /\ proc[p].pc = "clear"
        /\ staged' = NoFiles
        /\ intent' = Without(intent, {q \in DOMAIN loaded : At(intent, q) = loaded[q]})
        /\ Done(p)
        /\ UNCHANGED <<disk, store, count, unchecked, overlapped>>

(***************************************************************************)
(* restore takes its files one by one in path order: it looks whether the  *)
(* target exists, writes a temporary file and renames that over it.        *)
(***************************************************************************)
FirstOf(todo) == {p \in DOMAIN todo : \A q \in DOMAIN todo : q = p \/ PathLess(p, q)}

Skip(p, path) == [proc[p] EXCEPT !.pc = "look", !.result = Without(proc[p].result, {path})]

LookForces(p) == \* mutant of Look: existing targets are not skipped
    /\ proc[p].pc = "look"
    /\ IF proc[p].result = NoFiles THEN Done(p)
       ELSE proc' = [proc EXCEPT ![p].pc = "put"]
    /\ UNCHANGED <<disk, store, area, count, overlapped>>
Look(p) ==
    /\ proc[p].pc = "look"
    /\ \/ proc[p].result = NoFiles /\ Done(p)
       \/ \E path \in FirstOf(proc[p].result) :
            proc' = [proc EXCEPT ![p] =
                IF Exists(path) /\ ~proc[p].op.force THEN Skip(p, path)
                ELSE [@ EXCEPT !.pc = "put"]]
    /\ UNCHANGED <<disk, store, area, count, overlapped>>

\* calm: no source has changed since the operation began
Disturbed == [p \in Procs |-> IF proc[p] = Idle THEN Idle ELSE [proc[p] EXCEPT !.calm = FALSE]]

Bytes(entry) == IF entry.mode = "content" THEN entry.hash ELSE disk[entry.source]

\* no file above the path, and no directory at it
Writable(path) == \A q \in DOMAIN Worktree : (Within(path, q) \/ Within(q, path)) => q = path

Put(p) ==
    /\ proc[p].pc = "put"
    /\ \E path \in FirstOf(proc[p].result) :
        LET bytes == Bytes(proc[p].result[path])
        IN  IF bytes = None \/ ~Writable(path)
            THEN Done(p) /\ UNCHANGED disk
            ELSE /\ proc' = [Disturbed EXCEPT ![p] = Skip(p, path)]
                 /\ disk' = [disk EXCEPT ![path] = bytes]
    /\ UNCHANGED <<store, area, count, overlapped>>

Crash(p) ==
    /\ proc[p].pc # "idle"
    /\ Done(p)
    /\ UNCHANGED <<disk, store, area, count, overlapped>>

\* another clone commits; this one learns of it when its next CAS fails
Peer ==
    \E c \in PeerEdits :
        /\ count.others < MaxOthers
        /\ count' = [count EXCEPT !.others = @ + 1]
        /\ trees' = Append(trees, FlatSplice(FilesAt(head), c.adds, c.removed))
        /\ head' = Len(trees')
        /\ UNCHANGED <<disk, area, snapshot, proc, overlapped>>

\* the user edits, creates or deletes a file, someone an object
WriteSource ==
    \E w \in Writes :
        /\ count.others < MaxOthers
        /\ count' = [count EXCEPT !.others = @ + 1]
        /\ disk[w.source] # w.content
        /\ w.source \in Paths /\ w.content # None => Writable(w.source)
        /\ disk' = [disk EXCEPT ![w.source] = w.content]
        /\ proc' = Disturbed
        /\ UNCHANGED <<store, area, overlapped>>

Next ==
    \/ \E p \in Procs : \/ Begin(p) \/ Stage(p)
                        \/ Materialize(p) \/ Build(p) \/ Cas(p) \/ Clear(p)
                        \/ Look(p) \/ Put(p)
                        \/ Crash(p)
    \/ Peer
    \/ WriteSource

Spec == Init /\ [][Next]_vars

-------------------------------------------------------------------------------
(***************************************************************************)
(* Properties.                                                             *)
(***************************************************************************)
\* Worktree and commits are sets of files, none of which is also a
\* directory, and the history and the processes are well formed: validation
\* of the tree nodes refuses any commit that is not.
TypeOK ==
    /\ DOMAIN disk = Sources /\ \A s \in Sources : disk[s] \in Contents \union {None}
    /\ PrefixFree(DOMAIN Worktree)
    /\ \A p \in DOMAIN staged : staged[p] \in ChangeSet
    /\ \A i \in DOMAIN trees : IsFiles(trees[i]) /\ DOMAIN trees[i] \subseteq Paths
    /\ head \in 0 .. Len(trees)
    /\ snapshot \in (1 .. Len(trees)) \union {None}
    /\ \A p \in Procs :
        /\ proc[p].pc \in {"idle", "stage", "entries", "build", "cas", "clear", "look", "put"}
        /\ proc[p].pc = "cas" => IsFiles(proc[p].result)

\* Unless operations of two processes on the staging area overlap, what is
\* staged is what was staged by operations that reported success and was
\* not committed since: an operation that raises, a commit that loses its
\* compare-and-set, runs out of retries or dies before its last step, and
\* the retries themselves, leave it alone.
StagedIsIntent == ~overlapped => staged = intent

\* Where _reject_conflicting_adds lets two clashing additions pass: mv does
\* not call it, nor does rm, which may take back what stood between the two,
\* and it compares neighbours in string order, so a name that extends the
\* file's name hides the clash.  commit then raises, or drops the file.
Hidden(p, q) ==
    \E r \in AddsOf(staged) : PathLess(p, r) /\ PathLess(r, q) /\ ~Within(r, p)
ClashesAreCaught ==
    \A p, q \in AddsOf(staged) :
        Within(q, p) /\ p # q => unchecked \/ Hidden(p, q)

\* What p's compare-and-set has just published.
Applied(p) == proc[p].pc = "cas" /\ proc'[p] # proc[p] /\ trees' # trees
Published == trees'[Len(trees')]

\* A commit is what its operation makes of the branch as it is, and of what
\* is staged, at the compare-and-set: nothing a peer did since the snapshot
\* is lost, whatever the retries and however old the snapshot, and staged
\* changes are taken whole.  Sources that change meanwhile, and processes
\* that stage meanwhile, void this.
AppliesToTheHead ==
    [][\A p \in Procs :
        LET op == proc[p].op
            changes == IF op.kind = "commit" THEN staged ELSE NoFiles
        IN  Applied(p) /\ ~overlapped /\ proc[p].calm =>
              /\ ~Raises(op, FilesAt(head), Entries(changes), RemovesOf(changes))
              /\ Published = Result(op, FilesAt(head), Entries(changes), RemovesOf(changes))]_vars

\* status foretells the full commit of a branch with nothing staged: it
\* changes the files reported as added and modified, it keeps the ones
\* reported as removed, unless the worktree has a file where the branch has
\* a directory or the reverse.
StatusPredictsCommit ==
    LET files == FilesAt(head)
        status == StatusOf(files)
        after == FlatCommit(files, WorkEntries, NoFiles, {})
        displaced == {p \in status.removed : \E q \in DOMAIN Worktree : Within(p, q) \/ Within(q, p)}
    IN  Changed(files, after) = status.added \union status.modified \union displaced

\* mv --staged and commit make what mv makes, or would make of a move that
\* only mv refuses, for any source and destination.  They differ, by name:
\* where a moved file comes to the old path of another; where the worktree
\* has a file at the destination of a blob, which is committed in its place,
\* or a directory; and where the source of a pointer has changed or gone,
\* which is described again.
Faithful(p, e, to) ==
    IF e.mode = "content" THEN ~Exists(to) ELSE disk[e.source] = e.tag

StagedMoveIsMove ==
    LET files == FilesAt(head)
        sources(from) == {p \in DOMAIN files : Within(p, from)}
    IN  \A from \in {p \in Paths : sources(p) # {}} :
          LET moves == sources(from)
          IN  \A to \in {t \in Paths : \A p \in moves : MovedPath(p, from, t) \in Paths \ moves} :
                LET changes == MoveChanges(files, from, to)
                IN  (\A p \in moves : Faithful(p, files[p], MovedPath(p, from, to)))
                    => FlatSplice(files, Entries(changes), RemovesOf(changes))
                         = FlatSplice(files, Moved(files, from, to), {from})

\* A direct mv keeps every file, at its new path if it was moved and at its
\* old one if not, save those a moved file displaces: the files of a
\* directory at its new path, and a file above it inside the destination.
MoveLosesNothing ==
    [][\A p \in Procs :
        LET op == proc[p].op
            old == FilesAt(head)
            goal(q) == IF Within(q, op.from) THEN MovedPath(q, op.from, op.to) ELSE q
            moves == {q \in DOMAIN old : Within(q, op.from)}
            displaced == {q \in DOMAIN old \ moves : \E r \in moves :
                            /\ q # goal(r)
                            /\ Within(q, goal(r)) \/ Within(goal(r), q)}
        IN  Applied(p) /\ op.kind = "move" =>
              /\ DOMAIN Published = {goal(q) : q \in DOMAIN old \ displaced}
              /\ \A q \in DOMAIN old \ displaced : Published[goal(q)] = old[q]]_vars

\* Promotion changes no path and leaves no pointer, and the content it
\* stores is the content recorded unless the source has changed since.
PromoteKeepsBytes ==
    [][\A p \in Procs :
        LET old == FilesAt(head)
        IN  Applied(p) /\ proc[p].op.kind = "promote" =>
              /\ DOMAIN Published = DOMAIN old /\ Pointers(Published) = {}
              /\ \A q \in DOMAIN old :
                    \/ Published[q] = old[q]
                    \/ /\ old[q].mode = "pointer"
                       /\ \/ Published[q] = Blob(old[q].tag)
                          \/ old[q].tag # disk[old[q].source]
                          \/ ~proc[p].calm]_vars

\* A restore that nobody disturbed ends with each of its files in the
\* worktree, with the bytes of its entry or, without --force, with those it
\* had before, and it touches no other file.  The bytes of a pointer are
\* its source's, which may be a file of the same restore.
RestoreFillsTheGaps ==
    \A p \in Procs :
        LET r == proc[p]
            kept(q) == r.was[q] # None /\ ~r.op.force
            given(q) == {Bytes(r.entries[q])} \union
                        (IF r.entries[q].mode = "content" THEN {} ELSE {r.was[r.entries[q].source]})
        IN  r.pc = "look" /\ r.result = NoFiles /\ r.calm =>
              \A q \in Paths :
                IF q \notin DOMAIN r.entries \/ kept(q) THEN disk[q] = r.was[q]
                ELSE Exists(q) /\ (disk[q] # None => disk[q] \in given(q))
=============================================================================
