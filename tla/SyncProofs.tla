------------------------------ MODULE SyncProofs ------------------------------
(***************************************************************************)
(* Theorems of Sync, for any number of clones, every history, every        *)
(* sharing of trees and blobs and any number of transfers:                 *)
(*   TypeCorrect   the state is well typed,                                *)
(*   RemoteAdvances  the remote branch only moves to descendants,          *)
(*   Delivered     a reported success is one,                              *)
(*   WholeHeads    heads are whole where no transfer was interrupted.      *)
(*                                                                         *)
(* WholeHeads rests on where commits come from: a clone has the commits it *)
(* made, with their data, and otherwise what it took from the remote when  *)
(* that was whole.  So a commit the remote lacks has one clone that can    *)
(* push it, and nobody else puts it there half way.                        *)
(***************************************************************************)
EXTENDS Sync, TLAPS

-----------------------------------------------------------------------------
(* The refs.                                                               *)

\* A transfer moves a commit, from a head that reaches the expected one.
Aimed ==
    \A c \in Clones :
        /\ proc[c].pc # "idle" => proc[c].tip \in Commits
        /\ proc[c].pc \in {"check", "state", "cas"} => proc[c].kind # "fetch"
        /\ proc[c].pc = "cas" =>
             proc[c].expected = None \/ proc[c].expected \in History[proc[c].tip]

\* The ref has v in its history.
Holds(x, v) == head[x] \in Commits /\ v \in History[head[x]]

\* A snapshot is behind its ref.
Behind ==
    \A c \in Clones :
        /\ snap[c]["push"] \in Commits => Holds(Remote, snap[c]["push"])
        /\ snap[c]["pull"] \in Commits => Holds(c, snap[c]["pull"])

\* A transfer that reports success has its tip in the ref.
Reached ==
    \A c \in Clones :
        /\ proc[c].pc = "done"
        /\ proc[c].kind # "fetch"
        /\ proc[c].result \in {"updated", "unchanged"}
        => Holds(Dst(c), proc[c].tip)

RefInv == TypeOK /\ Aimed /\ Behind /\ Reached

-----------------------------------------------------------------------------
(* The data.                                                               *)

\* No transfer into the repository, or into the remote, was interrupted.
Uncut(x) == {x, Remote} \intersect cut = {}

\* The parents and the data of a commit are there.
Whole(k, x) == Parents[k] \union DataOf({k}) \subseteq has[x]

\* A commit and its data are with the clone that made it; what a clone did not
\* make it has from the remote.
Origin ==
    /\ \A x \in Repos : \A k \in has[x] \intersect Commits :
         {k} \union DataOf({k}) \subseteq has[Author[k]]
    /\ \A c \in Clones : \A k \in has[c] \intersect Commits :
         \/ Author[k] = c
         \/ k \in has[Remote] /\ (Remote \notin cut => Whole(k, Remote))

\* What a download downloads is whole at the remote.
Downloadable ==
    \A c \in Clones :
        proc[c].pc # "idle" /\ proc[c].kind # "push" /\ Remote \notin cut =>
            Closure(proc[c].tip) \subseteq has[Remote]

\* The commits to copy are those of the history that the destination lacks;
\* those to push are the clone's own.
Collected(c) ==
    /\ proc[c].commits \subseteq has[Src(c)] \intersect History[proc[c].tip]
    /\ History[proc[c].tip] \ proc[c].commits \subseteq has[Dst(c)]
    /\ proc[c].kind = "push" => \A k \in proc[c].commits : Author[k] = c
    /\ proc[c].pc = "plan" => proc[c].commits \intersect has[Dst(c)] = {}
    /\ proc[c].pc = "copy" =>
         proc[c].todo \intersect Commits \subseteq proc[c].commits \ has[Dst(c)]

\* What the commits to copy need is at the source, and at the destination or
\* still to be copied; the rest of the history is whole.
Planned(c) ==
    /\ \A k \in proc[c].commits : DataOf({k}) \subseteq has[Src(c)]
    /\ \A k \in History[proc[c].tip] \ proc[c].commits : Whole(k, Dst(c))
    /\ proc[c].pc = "copy" =>
         /\ proc[c].todo \subseteq has[Src(c)]
         /\ \A k \in proc[c].commits :
              {k} \union Parents[k] \union DataOf({k}) \subseteq has[Dst(c)] \union proc[c].todo

Transfers ==
    \A c \in Clones :
        /\ proc[c].pc \in {"plan", "copy"} =>
             Collected(c) /\ (Uncut(Dst(c)) => Planned(c))
        /\ proc[c].pc \in {"state", "cas"} /\ Uncut(Dst(c)) =>
             Closure(proc[c].tip) \subseteq has[Dst(c)]

\* Every commit is whole, or one of those being copied.
Stocked ==
    \A x \in Repos : Uncut(x) =>
        \A k \in has[x] \intersect Commits :
            \/ Whole(k, x)
            \/ \E c \in Clones :
                 Dst(c) = x /\ proc[c].pc = "copy" /\ k \in proc[c].commits

DataInv ==
    /\ TypeOK /\ Aimed
    /\ Origin /\ Downloadable /\ Transfers /\ Stocked
    /\ WholeUnlessCut

-----------------------------------------------------------------------------
(* Reachability.                                                           *)

\* A commit is in its own history, and only commits are.
LEMMA HistorySelf ==
    ASSUME NEW k \in Commits
    PROVE  k \in History[k] /\ History[k] \in SUBSET Commits
BY DEF History

\* A history is closed under parents.
LEMMA HistoryStep ==
    ASSUME NEW k \in Commits, NEW d \in History[k]
    PROVE  Parents[d] \subseteq History[k]
<1>1. d \in Commits
  BY HistorySelf
<1>2. Parents[d] \in SUBSET Commits
  BY <1>1, SyncAssumption
<1>3. SUFFICES ASSUME NEW p \in Parents[d],
                      NEW S \in SUBSET Commits, k \in S,
                      \A e \in S : Parents[e] \subseteq S
               PROVE  p \in S
  BY <1>2 DEF History
<1>4. d \in S
  BY <1>3 DEF History
<1> QED
  BY <1>3, <1>4

\* It is the least closed set.
LEMMA HistoryLeast ==
    ASSUME NEW k \in Commits, NEW S \in SUBSET Commits, k \in S,
           \A e \in S : Parents[e] \subseteq S
    PROVE  History[k] \subseteq S
BY DEF History

\* The history of an ancestor is part of the history.
LEMMA HistoryTransitive ==
    ASSUME NEW k \in Commits, NEW d \in History[k]
    PROVE  History[d] \subseteq History[k]
<1>1. d \in Commits /\ History[k] \in SUBSET Commits
  BY HistorySelf
<1>2. \A e \in History[k] : Parents[e] \subseteq History[k]
  BY HistoryStep
<1> QED
  BY <1>1, <1>2, HistoryLeast

\* is_ancestor_commit is right when it says yes: missing commits only hide.
LEMMA AncestorSound ==
    ASSUME NEW k \in Commits, NEW a, NEW repo, IsAncestor(a, k, repo)
    PROVE  a \in History[k]
<1>1. k \in History[k] /\ History[k] \in SUBSET Commits
  BY HistorySelf
<1>2. \A e \in History[k] \intersect has[repo] : Parents[e] \subseteq History[k]
  BY HistoryStep
<1> QED
  BY <1>1, <1>2 DEF IsAncestor

\* The data of one commit, and of several.
LEMMA DataOfOne ==
    ASSUME NEW k
    PROVE  DataOf({k}) = {TreeOf[k]} \union BlobsOf[TreeOf[k]]
BY DEF DataOf

LEMMA DataOfEach ==
    ASSUME NEW ks, NEW o
    PROVE  o \in DataOf(ks) <=> \E k \in ks : o \in DataOf({k})
BY DEF DataOf

\* Data are trees and blobs.
LEMMA DataType ==
    ASSUME NEW k \in Commits
    PROVE  /\ TreeOf[k] \in Trees
           /\ DataOf({k}) \in SUBSET (Trees \union Blobs)
           /\ DataOf({k}) \in SUBSET Objects
           /\ DataOf({k}) \intersect Commits = {}
           /\ Parents[k] \in SUBSET Commits
BY DataOfOne, SyncAssumption DEF Objects

\* A ref value needs its history and the data of that.
LEMMA InClosure ==
    ASSUME NEW k \in Commits
    PROVE  /\ Closure(k) = History[k] \union DataOf(History[k])
           /\ \A j \in History[k] : {j} \union DataOf({j}) \subseteq Closure(k)
           /\ Closure(k) \in SUBSET Objects
<1>1. k # None
  BY SyncAssumption
<1>2. Closure(k) = History[k] \union DataOf(History[k])
  BY <1>1 DEF Closure
<1>3. \A j \in History[k] : DataOf({j}) \subseteq DataOf(History[k])
  BY DEF DataOf
<1>4. ASSUME NEW o \in Closure(k)
      PROVE  o \in Objects
  <2>1. CASE o \in History[k]
    BY <2>1, HistorySelf DEF Objects
  <2>2. CASE o \in DataOf(History[k])
    <3>1. PICK j \in History[k] : o \in DataOf({j})
      BY <2>2, DataOfEach
    <3> QED
      BY <3>1, HistorySelf, DataType
  <2> QED
    BY <1>2, <2>1, <2>2
<1> QED
  BY <1>2, <1>3, <1>4

\* A history that is there, with the data of each commit, is a closure.
LEMMA ClosureIn ==
    ASSUME NEW k \in Commits, NEW S,
           \A j \in History[k] : {j} \union DataOf({j}) \subseteq S
    PROVE  Closure(k) \subseteq S
<1>1. Closure(k) = History[k] \union DataOf(History[k])
  BY InClosure
<1>2. DataOf(History[k]) \subseteq S
  BY DataOfEach
<1> QED
  BY <1>1, <1>2

-----------------------------------------------------------------------------
(* Steps.                                                                  *)

ProcRecords ==
    [pc: {"idle", "check", "collect", "plan", "copy", "state", "cas", "done"},
     kind: Kinds, tip: Values, commits: SUBSET Commits,
     todo: SUBSET Objects, expected: Values,
     result: {"none", "updated", "unchanged", "nonff", "conflict", "error"}]

\* The transfer is the same one.
Kept(c) == proc'[c].kind = proc[c].kind /\ proc'[c].tip = proc[c].tip

Starts(c) ==
    /\ proc[c].pc = "idle"
    /\ proc'[c].pc \in {"check", "collect"}
    /\ proc'[c].pc = "check" => proc'[c].kind # "fetch"
    /\ proc'[c].tip = head[IF proc'[c].kind = "push" THEN c ELSE Remote]
    /\ proc'[c].tip \in Commits
    /\ UNCHANGED <<has, head, snap, cut>>

Checks(c) ==
    /\ proc[c].pc = "check" /\ Kept(c)
    /\ \/ proc'[c].pc = "collect"
       \/ /\ proc'[c].pc = "done"
          /\ proc'[c].result = "unchanged" => head[Dst(c)] = proc[c].tip
          /\ proc'[c].result # "updated"
    /\ UNCHANGED <<has, head, snap, cut>>

Collects(c) ==
    /\ proc[c].pc = "collect" /\ Kept(c)
    /\ \/ proc'[c].pc = "done" /\ proc'[c].result = "error"
       \/ /\ proc'[c].pc \in {"state", "plan"}
          /\ History[proc[c].tip] \subseteq has[Src(c)]
          /\ proc'[c].commits = History[proc[c].tip] \ has[Dst(c)]
          /\ proc'[c].pc = "state" => proc'[c].commits = {} /\ proc[c].kind # "fetch"
    /\ UNCHANGED <<has, head, snap, cut>>

Plans(c) ==
    LET trees == {TreeOf[k] : k \in proc[c].commits}
        blobs == UNION {BlobsOf[t] : t \in trees \intersect has[Src(c)]}
    IN
    /\ proc[c].pc = "plan" /\ Kept(c)
    /\ proc'[c].pc = "copy"
    /\ proc'[c].commits = proc[c].commits
    /\ proc'[c].todo = (proc[c].commits \union trees \union blobs) \ has[Dst(c)]
    /\ UNCHANGED <<has, head, snap, cut>>

Copies(c, o) ==
    /\ proc[c].pc = "copy" /\ Kept(c)
    /\ o \in proc[c].todo
    /\ proc'[c].commits = proc[c].commits
    /\ \/ /\ proc'[c].pc = "copy" /\ proc'[c].todo = proc[c].todo \ {o}
          /\ o \in has[Src(c)]
          /\ has' = [has EXCEPT ![Dst(c)] = has[Dst(c)] \union {o}]
       \/ /\ proc'[c].pc = "copy" /\ proc'[c].todo = proc[c].todo \ {o}
          /\ o \notin has[Src(c)]
          /\ has' = has
       \/ /\ proc'[c].pc = "done" /\ proc'[c].result = "error"
          /\ o \notin has[Src(c)] \/ o \in Commits \intersect has[Dst(c)]
          /\ has' = has
    /\ UNCHANGED <<head, snap, cut>>

Finishes(c) ==
    /\ proc[c].pc = "copy" /\ Kept(c)
    /\ proc[c].todo = {}
    /\ \/ proc'[c].pc = "done" /\ proc[c].kind = "fetch"
       \/ proc'[c].pc = "state" /\ proc[c].kind # "fetch"
    /\ UNCHANGED <<has, head, snap, cut>>

FastForwards(c) ==
    LET kind == proc[c].kind
        now == IF snap[c][kind] = NoSnap THEN head[Dst(c)] ELSE snap[c][kind]
    IN
    /\ proc[c].pc = "state" /\ Kept(c)
    /\ snap' = [snap EXCEPT ![c][kind] = now]
    /\ \/ proc'[c].pc = "done" /\ now = proc[c].tip
       \/ proc'[c].pc = "done" /\ proc'[c].result = "nonff"
       \/ /\ proc'[c].pc = "cas" /\ proc'[c].expected = now
          /\ now = None \/ IsAncestor(now, proc[c].tip, Dst(c))
    /\ UNCHANGED <<has, head, cut>>

UpdatesRef(c) ==
    LET dst == Dst(c)
        value == IF head[dst] = proc[c].expected THEN proc[c].tip ELSE head[dst]
    IN
    /\ proc[c].pc = "cas" /\ Kept(c)
    /\ proc'[c].pc = "done"
    /\ head' = [head EXCEPT ![dst] = value]
    /\ snap' = [snap EXCEPT ![c][proc[c].kind] = value]
    /\ proc'[c].result # "unchanged"
    /\ proc'[c].result = "updated" => head[dst] = proc[c].expected
    /\ UNCHANGED <<has, cut>>

Ends(c) ==
    /\ proc'[c].pc = "idle"
    /\ \/ proc[c].pc = "done" /\ cut' = cut
       \/ proc[c].pc \notin {"idle", "done"} /\ cut' = cut \union {Dst(c)}
    /\ UNCHANGED <<has, head, snap>>

\* A record that is replaced.
LEMMA Replaced ==
    ASSUME TypeOK, NEW c \in Clones, NEW rec \in ProcRecords,
           proc' = [proc EXCEPT ![c] = rec]
    PROVE  /\ proc'[c] = rec
           /\ proc' \in [Clones -> ProcRecords]
           /\ \A d \in Clones \ {c} : proc'[d] = proc[d]
BY DEF TypeOK, ProcRecords

\* What a transfer reads and writes.
LEMMA EndTypes ==
    ASSUME TypeOK, NEW c \in Clones
    PROVE  /\ Src(c) \in Repos /\ Dst(c) \in Repos
           /\ proc[c] \in ProcRecords
           /\ Idle \in ProcRecords /\ Idle.pc = "idle"
           /\ head[Src(c)] \in Values /\ head[Dst(c)] \in Values
           /\ proc[c].kind # "fetch" => snap[c][proc[c].kind] \in Values \union {NoSnap}
BY DEF TypeOK, Src, Dst, Repos, ProcRecords, Idle, Kinds, Values

\* A step of a transfer, its own record aside.
TransferStep(c) ==
    \/ Starts(c) \/ Checks(c) \/ Collects(c) \/ Plans(c)
    \/ \E o \in Objects : Copies(c, o)
    \/ Finishes(c) \/ FastForwards(c) \/ UpdatesRef(c) \/ Ends(c)

\* Only the clone's record changes.
Own(c) ==
    /\ proc' \in [Clones -> ProcRecords]
    /\ \A d \in Clones \ {c} : proc'[d] = proc[d]

\* Stop sets the result and keeps the rest.
LEMMA StopEffect ==
    ASSUME TypeOK, NEW c \in Clones,
           NEW result \in {"updated", "unchanged", "nonff", "conflict", "error"},
           Stop(c, result)
    PROVE  /\ Own(c) /\ Kept(c)
           /\ proc'[c].pc = "done" /\ proc'[c].result = result
           /\ proc'[c].commits = proc[c].commits
<1> DEFINE rec == [proc[c] EXCEPT !.pc = "done", !.result = result]
<1>1. /\ rec \in ProcRecords /\ rec.pc = "done" /\ rec.result = result
      /\ rec.kind = proc[c].kind /\ rec.tip = proc[c].tip
      /\ rec.commits = proc[c].commits
  BY EndTypes DEF ProcRecords
<1>2. proc' = [proc EXCEPT ![c] = rec]
  BY DEF Stop, TypeOK
<1> HIDE DEF rec
<1> QED
  BY <1>1, <1>2, Replaced DEF Own, Kept

LEMMA StartEffect ==
    ASSUME TypeOK, NEW c \in Clones, NEW kind \in Kinds, Start(c, kind)
    PROVE  Own(c) /\ Starts(c) /\ started' \in [Clones -> Nat]
<1> DEFINE from == IF kind = "push" THEN c ELSE Remote
           pc == IF kind = "fetch" THEN "collect" ELSE "check"
           rec == [Idle EXCEPT !.pc = pc, !.kind = kind, !.tip = head[from]]
<1>1. /\ proc' = [proc EXCEPT ![c] = rec]
      /\ proc[c].pc = "idle" /\ head[from] # None
      /\ started' = [started EXCEPT ![c] = started[c] + 1]
      /\ UNCHANGED <<has, head, snap, cut>>
  BY DEF Start
<1>2. head[from] \in Commits
  BY <1>1 DEF TypeOK, Repos, Values
<1>3. pc \in {"check", "collect"} /\ (pc = "check" => kind # "fetch")
  OBVIOUS
<1>4. /\ rec \in ProcRecords
      /\ rec.pc = pc /\ rec.kind = kind /\ rec.tip = head[from]
  <2> HIDE DEF pc, from
  <2> QED
    BY <1>2, <1>3, EndTypes DEF ProcRecords, Values
<1>5. started' \in [Clones -> Nat]
  BY <1>1 DEF TypeOK
<1>6. proc'[c] = rec /\ Own(c)
  <2> HIDE DEF rec
  <2> QED
    BY <1>1, <1>4, Replaced DEF Own
<1> QED
  BY <1>1, <1>2, <1>3, <1>4, <1>5, <1>6 DEF Starts

LEMMA CheckEffect ==
    ASSUME TypeOK, NEW c \in Clones, Check(c)
    PROVE  Own(c) /\ Checks(c) /\ UNCHANGED started
<1>1. proc[c].pc = "check" /\ UNCHANGED <<has, head, snap, started, cut>>
  BY DEF Check
<1>2. CASE head[Dst(c)] = proc[c].tip /\ Stop(c, "unchanged")
  BY <1>1, <1>2, StopEffect DEF Checks
<1>3. CASE Stop(c, "nonff")
  BY <1>1, <1>3, StopEffect DEF Checks
<1>4. CASE proc' = [proc EXCEPT ![c].pc = "collect"]
  <2> DEFINE rec == [proc[c] EXCEPT !.pc = "collect"]
  <2>1. /\ rec \in ProcRecords /\ rec.pc = "collect"
        /\ rec.kind = proc[c].kind /\ rec.tip = proc[c].tip
    BY EndTypes DEF ProcRecords
  <2>2. proc' = [proc EXCEPT ![c] = rec]
    BY <1>4 DEF TypeOK
  <2> HIDE DEF rec
  <2> QED
    BY <1>1, <2>1, <2>2, Replaced DEF Own, Kept, Checks
<1> QED
  BY <1>2, <1>3, <1>4 DEF Check

LEMMA CollectEffect ==
    ASSUME TypeOK, Aimed, NEW c \in Clones, Collect(c)
    PROVE  Own(c) /\ Collects(c) /\ UNCHANGED started
<1> DEFINE missing == History[proc[c].tip] \ has[Dst(c)]
           next == IF missing = {} /\ proc[c].kind # "fetch" THEN "state" ELSE "plan"
<1>1. proc[c].pc = "collect" /\ UNCHANGED <<has, head, snap, started, cut>>
  BY DEF Collect
<1>2. CASE Stop(c, "error")
  BY <1>1, <1>2, StopEffect DEF Collects
<1>3. CASE /\ History[proc[c].tip] \subseteq has[Src(c)]
           /\ proc' = [proc EXCEPT ![c].commits = missing, ![c].pc = next]
  <2> DEFINE rec == [proc[c] EXCEPT !.commits = missing, !.pc = next]
  <2>1. missing \in SUBSET Commits
    BY <1>1, HistorySelf DEF Aimed
  <2>2. next \in {"state", "plan"} /\ (next = "state" => missing = {} /\ proc[c].kind # "fetch")
    OBVIOUS
  <2> HIDE DEF missing, next
  <2>3. /\ rec \in ProcRecords /\ rec.pc = next /\ rec.commits = missing
        /\ rec.kind = proc[c].kind /\ rec.tip = proc[c].tip
    BY <2>1, <2>2, EndTypes DEF ProcRecords
  <2>4. proc' = [proc EXCEPT ![c] = rec]
    BY <1>3 DEF TypeOK
  <2> HIDE DEF rec
  <2>5. proc'[c] = rec /\ Own(c)
    BY <2>3, <2>4, Replaced DEF Own
  <2>6. proc'[c].commits = History[proc[c].tip] \ has[Dst(c)]
    BY <2>3, <2>5 DEF missing
  <2> QED
    BY <1>1, <1>3, <2>2, <2>3, <2>5, <2>6 DEF Kept, Collects
<1> QED
  BY <1>2, <1>3 DEF Collect

LEMMA PlanEffect ==
    ASSUME TypeOK, NEW c \in Clones, Plan(c)
    PROVE  Own(c) /\ Plans(c) /\ UNCHANGED started
<1> DEFINE trees == {TreeOf[k] : k \in proc[c].commits}
           blobs == UNION {BlobsOf[t] : t \in trees \intersect has[Src(c)]}
           todo == (proc[c].commits \union trees \union blobs) \ has[Dst(c)]
           rec == [proc[c] EXCEPT !.pc = "copy", !.todo = todo]
<1>1. /\ proc[c].pc = "plan" /\ UNCHANGED <<has, head, snap, started, cut>>
      /\ proc' = [proc EXCEPT ![c].pc = "copy", ![c].todo = todo]
  BY DEF Plan
<1>2. todo \in SUBSET Objects
  <2>1. proc[c].commits \in SUBSET Commits
    BY EndTypes DEF ProcRecords
  <2>2. trees \in SUBSET Trees
    BY <2>1, SyncAssumption
  <2>3. blobs \in SUBSET Blobs
    BY <2>2, SyncAssumption
  <2> QED
    BY <2>1, <2>2, <2>3 DEF Objects
<1>3. proc'[c].todo = todo /\ proc'[c] = rec /\ rec \in ProcRecords /\ Own(c)
      /\ rec.pc = "copy" /\ rec.commits = proc[c].commits
      /\ rec.kind = proc[c].kind /\ rec.tip = proc[c].tip
  <2> HIDE DEF todo
  <2>1. /\ rec \in ProcRecords /\ rec.pc = "copy" /\ rec.commits = proc[c].commits
        /\ rec.kind = proc[c].kind /\ rec.tip = proc[c].tip /\ rec.todo = todo
    BY <1>2, EndTypes DEF ProcRecords
  <2>2. proc' = [proc EXCEPT ![c] = rec]
    BY <1>1 DEF TypeOK
  <2> HIDE DEF rec
  <2> QED
    BY <2>1, <2>2, Replaced DEF Own
<1> QED
  BY <1>1, <1>3 DEF Plans, Kept

LEMMA CopyEffect ==
    ASSUME TypeOK, NEW c \in Clones, CopyItem(c)
    PROVE  /\ Own(c) /\ (\E o \in Objects : Copies(c, o)) /\ UNCHANGED started
           /\ has' \in [Repos -> SUBSET Objects]
<1>1. proc[c].pc = "copy" /\ UNCHANGED <<head, snap, started, cut>>
  BY DEF CopyItem
<1>2. PICK o \in Leading(proc[c].todo) :
        \/ /\ o \in has[Src(c)]
           /\ has' = [has EXCEPT ![Dst(c)] = has[Dst(c)] \union {o}]
           /\ proc' = [proc EXCEPT ![c].todo = proc[c].todo \ {o}]
        \/ /\ o \notin has[Src(c)]
           /\ proc' = [proc EXCEPT ![c].todo = proc[c].todo \ {o}]
           /\ UNCHANGED has
        \/ /\ o \notin has[Src(c)] \/ o \in Commits \intersect has[Dst(c)]
           /\ Stop(c, "error")
           /\ UNCHANGED has
  BY DEF CopyItem
<1>3. o \in proc[c].todo /\ o \in Objects
  BY EndTypes DEF Leading, ProcRecords
<1>4. ASSUME proc' = [proc EXCEPT ![c].todo = proc[c].todo \ {o}]
      PROVE  /\ Own(c) /\ Kept(c) /\ proc'[c].pc = "copy"
             /\ proc'[c].todo = proc[c].todo \ {o}
             /\ proc'[c].commits = proc[c].commits
  <2> DEFINE rec == [proc[c] EXCEPT !.todo = proc[c].todo \ {o}]
  <2>1. /\ rec \in ProcRecords /\ rec.pc = "copy" /\ rec.commits = proc[c].commits
        /\ rec.kind = proc[c].kind /\ rec.tip = proc[c].tip
        /\ rec.todo = proc[c].todo \ {o}
    BY <1>1, EndTypes DEF ProcRecords
  <2>2. proc' = [proc EXCEPT ![c] = rec]
    BY <1>4 DEF TypeOK
  <2> HIDE DEF rec
  <2> QED
    BY <2>1, <2>2, Replaced DEF Own, Kept
<1>5. has' \in [Repos -> SUBSET Objects]
  BY <1>2, <1>3 DEF TypeOK
<1>6. Own(c) /\ Copies(c, o)
  BY <1>1, <1>2, <1>3, <1>4, StopEffect DEF Copies
<1> QED
  BY <1>1, <1>3, <1>5, <1>6

LEMMA FinishEffect ==
    ASSUME TypeOK, NEW c \in Clones, CopyDone(c)
    PROVE  Own(c) /\ Finishes(c) /\ UNCHANGED started
<1>1. /\ proc[c].pc = "copy" /\ proc[c].todo = {}
      /\ UNCHANGED <<has, head, snap, started, cut>>
  BY DEF CopyDone
<1>2. CASE proc[c].kind = "fetch" /\ Stop(c, "unchanged")
  BY <1>1, <1>2, StopEffect DEF Finishes
<1>3. CASE proc[c].kind # "fetch" /\ proc' = [proc EXCEPT ![c].pc = "state"]
  <2> DEFINE rec == [proc[c] EXCEPT !.pc = "state"]
  <2>1. /\ rec \in ProcRecords /\ rec.pc = "state"
        /\ rec.kind = proc[c].kind /\ rec.tip = proc[c].tip
    BY EndTypes DEF ProcRecords
  <2>2. proc' = [proc EXCEPT ![c] = rec]
    BY <1>3 DEF TypeOK
  <2> HIDE DEF rec
  <2> QED
    BY <1>1, <1>3, <2>1, <2>2, Replaced DEF Own, Kept, Finishes
<1> QED
  BY <1>2, <1>3 DEF CopyDone

LEMMA FastForwardEffect ==
    ASSUME TypeOK, Aimed, NEW c \in Clones, FastForward(c)
    PROVE  /\ Own(c) /\ FastForwards(c) /\ UNCHANGED started
           /\ snap' \in [Clones -> [{"push", "pull"} -> Values \union {NoSnap}]]
<1> DEFINE kind == proc[c].kind
           now == IF snap[c][kind] = NoSnap THEN head[Dst(c)] ELSE snap[c][kind]
<1>1. proc[c].pc = "state" /\ UNCHANGED <<has, head, started, cut>>
  BY DEF FastForward
<1>2. kind # "fetch" /\ kind \in Kinds
  BY <1>1, EndTypes DEF Aimed, ProcRecords
<1>3. now \in Values
  BY <1>2, EndTypes
<1>4. snap' = [snap EXCEPT ![c][kind] = now]
  BY DEF FastForward
<1>5. snap' \in [Clones -> [{"push", "pull"} -> Values \union {NoSnap}]]
  <2> HIDE DEF now
  <2> QED
    BY <1>2, <1>3, <1>4 DEF TypeOK, Kinds
<1>6. CASE now = proc[c].tip /\ Stop(c, "unchanged")
  BY <1>1, <1>4, <1>5, <1>6, StopEffect DEF FastForwards
<1>7. CASE Stop(c, "nonff")
  BY <1>1, <1>4, <1>5, <1>7, StopEffect DEF FastForwards
<1>8. CASE /\ now = None \/ IsAncestor(now, proc[c].tip, Dst(c))
           /\ proc' = [proc EXCEPT ![c].pc = "cas", ![c].expected = now]
  <2> DEFINE rec == [proc[c] EXCEPT !.pc = "cas", !.expected = now]
  <2>1. /\ rec \in ProcRecords /\ rec.pc = "cas" /\ rec.expected = now
        /\ rec.kind = proc[c].kind /\ rec.tip = proc[c].tip
    <3> HIDE DEF now
    <3> QED
      BY <1>3, EndTypes DEF ProcRecords
  <2>2. proc' = [proc EXCEPT ![c] = rec]
    BY <1>8 DEF TypeOK
  <2>3. Own(c) /\ Kept(c) /\ proc'[c].pc = "cas" /\ proc'[c].expected = now
    <3> HIDE DEF rec, now
    <3> QED
      BY <2>1, <2>2, Replaced DEF Own, Kept
  <2> QED
    BY <1>1, <1>4, <1>5, <1>8, <2>3 DEF FastForwards
<1> QED
  BY <1>6, <1>7, <1>8 DEF FastForward

LEMMA UpdateEffect ==
    ASSUME TypeOK, Aimed, NEW c \in Clones, UpdateRef(c)
    PROVE  /\ Own(c) /\ UpdatesRef(c) /\ UNCHANGED started
           /\ head' \in [Repos -> Values]
           /\ snap' \in [Clones -> [{"push", "pull"} -> Values \union {NoSnap}]]
<1> DEFINE dst == Dst(c)
           value == IF head[dst] = proc[c].expected THEN proc[c].tip ELSE head[dst]
           result == IF head[dst] = proc[c].expected THEN "updated" ELSE "conflict"
<1>1. /\ proc[c].pc = "cas" /\ UNCHANGED <<has, started, cut>>
      /\ head' = [head EXCEPT ![dst] = value]
      /\ snap' = [snap EXCEPT ![c][proc[c].kind] = value]
      /\ Stop(c, result)
  BY DEF UpdateRef
<1>2. value \in Values
  BY EndTypes DEF ProcRecords
<1>3. /\ result \in {"updated", "conflict"}
      /\ result = "updated" => head[dst] = proc[c].expected
  OBVIOUS
<1>4. Own(c) /\ Kept(c) /\ proc'[c].pc = "done" /\ proc'[c].result = result
  <2> HIDE DEF result
  <2> QED
    BY <1>1, <1>3, StopEffect
<1>5. head' \in [Repos -> Values]
  BY <1>1, <1>2 DEF TypeOK
<1>6. snap' \in [Clones -> [{"push", "pull"} -> Values \union {NoSnap}]]
  <2> HIDE DEF value
  <2> QED
    BY <1>1, <1>2 DEF TypeOK
<1>7. UpdatesRef(c)
  BY <1>1, <1>3, <1>4 DEF UpdatesRef
<1> QED
  BY <1>1, <1>4, <1>5, <1>6, <1>7

LEMMA EndEffect ==
    ASSUME TypeOK, NEW c \in Clones, Return(c) \/ Interrupt(c)
    PROVE  Own(c) /\ Ends(c) /\ UNCHANGED started
BY EndTypes, Replaced DEF Return, Interrupt, Own, Ends

\* A clone's step: a commit, or a step of its transfer.
LEMMA Steps ==
    ASSUME TypeOK, Aimed, Next
    PROVE  /\ \E c \in Clones :
                \/ \E k \in Commits : Commit(c, k)
                \/ Own(c) /\ TransferStep(c)
           /\ TypeOK'
<1>1. PICK c \in Clones :
        \/ \E k \in Commits : Commit(c, k)
        \/ \E kind \in Kinds : Start(c, kind)
        \/ Check(c) \/ Collect(c) \/ Plan(c) \/ CopyItem(c) \/ CopyDone(c)
        \/ FastForward(c) \/ UpdateRef(c) \/ Return(c) \/ Interrupt(c)
  BY DEF Next
<1>2. /\ has \in [Repos -> SUBSET Objects] /\ head \in [Repos -> Values]
      /\ snap \in [Clones -> [{"push", "pull"} -> Values \union {NoSnap}]]
      /\ started \in [Clones -> Nat] /\ cut \subseteq Repos
  BY DEF TypeOK
<1>3. ASSUME NEW k \in Commits, Commit(c, k)
      PROVE  TypeOK'
  <2>1. {k} \union DataOf({k}) \subseteq Objects
    BY DataType DEF Objects
  <2>2. has' = [has EXCEPT ![c] = has[c] \union {k} \union DataOf({k})]
    BY <1>3 DEF Commit
  <2>3. has' \in [Repos -> SUBSET Objects]
    BY <1>2, <2>1, <2>2
  <2>4. head' \in [Repos -> Values]
    BY <1>2, <1>3 DEF Commit, Values
  <2>5. snap' \in [Clones -> [{"push", "pull"} -> Values \union {NoSnap}]]
    BY <1>2, <1>3 DEF Commit, Values
  <2> QED
    BY <1>3, <2>3, <2>4, <2>5 DEF Commit, TypeOK
<1>4. ASSUME Own(c), UNCHANGED <<head, snap, cut>>,
             has' \in [Repos -> SUBSET Objects], started' \in [Clones -> Nat]
      PROVE  TypeOK'
  BY <1>2, <1>4 DEF TypeOK, Own, ProcRecords
<1>5. CASE \E kind \in Kinds : Start(c, kind)
  BY <1>2, <1>4, <1>5, StartEffect DEF Starts, TransferStep
<1>6. CASE Check(c) \/ Collect(c) \/ Plan(c) \/ CopyDone(c)
  <2>1. Own(c) /\ TransferStep(c) /\ UNCHANGED <<has, head, snap, started, cut>>
    BY <1>6, CheckEffect, CollectEffect, PlanEffect, FinishEffect
       DEF TransferStep, Checks, Collects, Plans, Finishes
  <2> QED
    BY <1>2, <1>4, <2>1
<1>7. CASE CopyItem(c)
  <2>1. /\ Own(c) /\ TransferStep(c) /\ UNCHANGED <<head, snap, started, cut>>
        /\ has' \in [Repos -> SUBSET Objects]
    BY <1>7, CopyEffect DEF TransferStep, Copies
  <2> QED
    BY <1>2, <1>4, <2>1
<1>8. CASE FastForward(c)
  <2>1. /\ Own(c) /\ FastForwards(c) /\ UNCHANGED started
        /\ snap' \in [Clones -> [{"push", "pull"} -> Values \union {NoSnap}]]
    BY <1>8, FastForwardEffect
  <2>2. UNCHANGED <<has, head, cut>>
    BY <2>1 DEF FastForwards
  <2> QED
    BY <1>2, <2>1, <2>2 DEF TransferStep, TypeOK, Own, ProcRecords
<1>9. CASE UpdateRef(c)
  <2>1. /\ Own(c) /\ UpdatesRef(c) /\ UNCHANGED started
        /\ head' \in [Repos -> Values]
        /\ snap' \in [Clones -> [{"push", "pull"} -> Values \union {NoSnap}]]
    BY <1>9, UpdateEffect
  <2>2. UNCHANGED <<has, cut>>
    BY <2>1 DEF UpdatesRef
  <2> QED
    BY <1>2, <2>1, <2>2 DEF TransferStep, TypeOK, Own, ProcRecords
<1>10. CASE Return(c) \/ Interrupt(c)
  <2>1. Own(c) /\ Ends(c) /\ UNCHANGED started
    BY <1>10, EndEffect
  <2>2. UNCHANGED <<has, head, snap>> /\ cut' \subseteq Repos
    BY <1>2, <2>1, EndTypes DEF Ends
  <2> QED
    BY <1>2, <2>1, <2>2 DEF TransferStep, TypeOK, Own, ProcRecords
<1> QED
  BY <1>1, <1>3, <1>5, <1>6, <1>7, <1>8, <1>9, <1>10

-----------------------------------------------------------------------------
(* Refs: what a step does to them.                                         *)

\* Transfers keep their aim.
LEMMA AimedStep ==
    ASSUME TypeOK, Aimed, Next
    PROVE  Aimed'
<1>1. PICK c \in Clones :
        (\E k \in Commits : Commit(c, k)) \/ (Own(c) /\ TransferStep(c))
  BY Steps
<1>2. CASE \E k \in Commits : Commit(c, k)
  BY <1>2 DEF Commit, Aimed
<1>3. CASE Own(c) /\ TransferStep(c)
  <2>1. ASSUME proc'[c].pc # "idle"
        PROVE  proc'[c].tip \in Commits
    <3>1. CASE Starts(c)
      BY <3>1 DEF Starts
    <3>2. CASE ~Starts(c)
      <4>1. Kept(c) /\ proc[c].pc # "idle"
        BY <1>3, <2>1, <3>2 DEF TransferStep, Checks, Collects, Plans, Copies,
           Finishes, FastForwards, UpdatesRef, Ends
      <4> QED
        BY <4>1 DEF Kept, Aimed
    <3> QED
      BY <3>1, <3>2
  <2>2. ASSUME proc'[c].pc \in {"check", "state", "cas"}
        PROVE  proc'[c].kind # "fetch"
    <3>1. CASE proc'[c].pc = "check"
      BY <1>3, <3>1 DEF TransferStep, Starts, Checks, Collects, Plans, Copies,
           Finishes, FastForwards, UpdatesRef, Ends
    <3>2. CASE proc'[c].pc = "state"
      BY <1>3, <3>2 DEF TransferStep, Starts, Checks, Collects, Plans, Copies,
           Finishes, FastForwards, UpdatesRef, Ends, Kept
    <3>3. CASE proc'[c].pc = "cas"
      <4>1. FastForwards(c)
        BY <1>3, <3>3 DEF TransferStep, Starts, Checks, Collects, Plans, Copies,
           Finishes, UpdatesRef, Ends
      <4> QED
        BY <4>1 DEF FastForwards, Kept, Aimed
    <3> QED
      BY <2>2, <3>1, <3>2, <3>3
  <2>3. ASSUME proc'[c].pc = "cas"
        PROVE  proc'[c].expected = None \/ proc'[c].expected \in History[proc'[c].tip]
    <3>1. FastForwards(c)
      BY <1>3, <2>3 DEF TransferStep, Starts, Checks, Collects, Plans, Copies,
           Finishes, UpdatesRef, Ends
    <3>2. PICK now : /\ proc'[c].expected = now
                     /\ now = None \/ IsAncestor(now, proc[c].tip, Dst(c))
                     /\ proc[c].pc = "state" /\ proc'[c].tip = proc[c].tip
      BY <2>3, <3>1 DEF FastForwards, Kept
    <3>3. proc[c].tip \in Commits
      BY <3>2 DEF Aimed
    <3> QED
      BY <3>2, <3>3, AncestorSound
  <2> QED
    BY <1>3, <2>1, <2>2, <2>3 DEF Aimed, Own
<1> QED
  BY <1>1, <1>2, <1>3

\* A ref only moves to descendants, here and at the remote.
LEMMA RefAdvances ==
    ASSUME TypeOK, Aimed, Next, NEW x \in Repos
    PROVE  \/ head'[x] = head[x]
           \/ /\ head'[x] \in Commits
              /\ head[x] = None \/ head[x] \in History[head'[x]]
<1>1. PICK c \in Clones :
        (\E k \in Commits : Commit(c, k)) \/ (Own(c) /\ TransferStep(c))
  BY Steps
<1>2. head \in [Repos -> Values]
  BY DEF TypeOK
<1>3. ASSUME NEW k \in Commits, Commit(c, k), x = c
      PROVE  /\ head'[x] \in Commits
             /\ head[x] = None \/ head[x] \in History[head'[x]]
  <2>1. head'[c] = k /\ (head[c] = None \/ head[c] \in Parents[k])
    BY <1>2, <1>3 DEF Commit, Repos
  <2>2. Parents[k] \subseteq History[k]
    BY HistorySelf, HistoryStep
  <2> QED
    BY <1>3, <2>1, <2>2
<1>4. ASSUME NEW k \in Commits, Commit(c, k), x # c
      PROVE  head'[x] = head[x]
  BY <1>2, <1>4 DEF Commit
<1>5. CASE UpdatesRef(c)
  <2>1. PICK value : /\ head' = [head EXCEPT ![Dst(c)] = value]
                     /\ \/ value = head[Dst(c)]
                        \/ value = proc[c].tip /\ head[Dst(c)] = proc[c].expected
    BY <1>5 DEF UpdatesRef
  <2>2. /\ proc[c].tip \in Commits
        /\ proc[c].expected = None \/ proc[c].expected \in History[proc[c].tip]
    BY <1>5 DEF UpdatesRef, Aimed
  <2> QED
    BY <1>2, <2>1, <2>2, EndTypes
<1>6. CASE Own(c) /\ TransferStep(c) /\ ~UpdatesRef(c)
  BY <1>6 DEF TransferStep, Starts, Checks, Collects, Plans, Copies, Finishes,
     FastForwards, Ends
<1> QED
  BY <1>1, <1>3, <1>4, <1>5, <1>6

\* What a ref has in its history, it keeps.
LEMMA HoldsOn ==
    ASSUME TypeOK, Aimed, Next, NEW x \in Repos, NEW v, Holds(x, v)
    PROVE  head'[x] \in Commits /\ v \in History[head'[x]]
<1>1. head[x] \in Commits /\ v \in History[head[x]] /\ head[x] # None
  BY SyncAssumption DEF Holds
<1>2. CASE head'[x] = head[x]
  BY <1>1, <1>2
<1>3. CASE head'[x] \in Commits /\ head[x] \in History[head'[x]]
  BY <1>1, <1>3, HistoryTransitive
<1> QED
  BY <1>1, <1>2, <1>3, RefAdvances

\* A snapshot stays behind its ref.
LEMMA BehindStep ==
    ASSUME TypeOK, Aimed, Behind, Next
    PROVE  Behind'
<1>1. PICK c \in Clones :
        (\E k \in Commits : Commit(c, k)) \/ (Own(c) /\ TransferStep(c))
  BY Steps
<1>2. /\ head \in [Repos -> Values]
      /\ snap \in [Clones -> [{"push", "pull"} -> Values \union {NoSnap}]]
      /\ Clones \subseteq Repos /\ Remote \in Repos
  BY DEF TypeOK, Repos
<1>3. ASSUME NEW d \in Clones, NEW kind \in {"push", "pull"}, NEW x \in Repos,
             x = (IF kind = "push" THEN Remote ELSE d),
             snap'[d][kind] = snap[d][kind], snap'[d][kind] \in Commits
      PROVE  head'[x] \in Commits /\ snap'[d][kind] \in History[head'[x]]
  <2>1. Holds(x, snap[d][kind])
    BY <1>3 DEF Behind
  <2> QED
    BY <1>3, <2>1, HoldsOn
<1>4. ASSUME NEW d \in Clones, NEW kind \in {"push", "pull"}, NEW x \in Repos,
             snap'[d][kind] = head'[x], snap'[d][kind] \in Commits
      PROVE  head'[x] \in Commits /\ snap'[d][kind] \in History[head'[x]]
  BY <1>4, HistorySelf
<1>5. SUFFICES ASSUME NEW d \in Clones, NEW kind \in {"push", "pull"}
               PROVE  \/ snap'[d][kind] = snap[d][kind]
                      \/ snap'[d][kind] = head'[IF kind = "push" THEN Remote ELSE d]
  BY <1>2, <1>3, <1>4 DEF Behind, Holds
<1>6. ASSUME NEW k \in Commits, Commit(c, k)
      PROVE  \/ snap'[d][kind] = snap[d][kind]
             \/ snap'[d][kind] = head'[IF kind = "push" THEN Remote ELSE d]
  <2>1. snap' = [snap EXCEPT ![c]["pull"] = k] /\ head' = [head EXCEPT ![c] = k]
    BY <1>6 DEF Commit
  <2>2. CASE d = c /\ kind = "pull"
    BY <1>2, <2>1, <2>2
  <2>3. CASE ~(d = c /\ kind = "pull")
    BY <1>2, <2>1, <2>3
  <2> QED
    BY <2>2, <2>3
<1>7. CASE FastForwards(c)
  <2>1. PICK now : /\ snap' = [snap EXCEPT ![c][proc[c].kind] = now]
                   /\ now = snap[c][proc[c].kind] \/ now = head[Dst(c)]
                   /\ head' = head
    BY <1>7 DEF FastForwards
  <2>2. CASE d = c /\ kind = proc[c].kind
    BY <1>2, <2>1, <2>2 DEF Dst
  <2>3. CASE ~(d = c /\ kind = proc[c].kind)
    BY <1>2, <2>1, <2>3
  <2> QED
    BY <2>2, <2>3
<1>8. CASE UpdatesRef(c)
  <2>1. PICK value : /\ snap' = [snap EXCEPT ![c][proc[c].kind] = value]
                     /\ head' = [head EXCEPT ![Dst(c)] = value]
    BY <1>8 DEF UpdatesRef
  <2>2. head'[Dst(c)] = value
    BY <1>2, <2>1, EndTypes
  <2>3. CASE d = c /\ kind = proc[c].kind
    BY <1>2, <2>1, <2>2, <2>3 DEF Dst
  <2>4. CASE ~(d = c /\ kind = proc[c].kind)
    BY <1>2, <2>1, <2>4
  <2> QED
    BY <2>3, <2>4
<1>9. CASE Own(c) /\ TransferStep(c) /\ ~FastForwards(c) /\ ~UpdatesRef(c)
  BY <1>9 DEF TransferStep, Starts, Checks, Collects, Plans, Copies, Finishes, Ends
<1> QED
  BY <1>1, <1>6, <1>7, <1>8, <1>9

\* A transfer that reports success has its tip in the ref, and keeps it there.
LEMMA ReachedStep ==
    ASSUME TypeOK, Aimed, Behind, Reached, Next
    PROVE  Reached'
<1>1. PICK c \in Clones :
        (\E k \in Commits : Commit(c, k)) \/ (Own(c) /\ TransferStep(c))
  BY Steps
<1>2. /\ head \in [Repos -> Values]
      /\ \A d \in Clones : Dst(d) \in Repos
  BY EndTypes DEF TypeOK
<1>3. SUFFICES ASSUME NEW d \in Clones,
                      proc'[d].pc = "done", proc'[d].kind # "fetch",
                      proc'[d].result \in {"updated", "unchanged"}
               PROVE  /\ head'[Dst(d)'] \in Commits
                      /\ proc'[d].tip \in History[head'[Dst(d)']]
  BY DEF Reached, Holds
<1>4. CASE proc'[d] = proc[d]
  <2>1. Holds(Dst(d), proc[d].tip) /\ Dst(d)' = Dst(d)
    BY <1>3, <1>4 DEF Reached, Dst
  <2> QED
    BY <1>2, <1>4, <2>1, HoldsOn
<1>5. CASE d = c /\ Own(c) /\ TransferStep(c)
  <2>1. Checks(c) \/ FastForwards(c) \/ UpdatesRef(c)
    BY <1>3, <1>5 DEF TransferStep, Starts, Collects, Plans, Copies, Finishes, Ends, Kept
  <2>2. /\ Kept(c) /\ Dst(c)' = Dst(c) /\ proc[c].tip \in Commits
    BY <2>1 DEF Checks, FastForwards, UpdatesRef, Kept, Dst, Aimed
  <2>3. ASSUME head'[Dst(c)] = proc[c].tip
        PROVE  /\ head'[Dst(d)'] \in Commits
               /\ proc'[d].tip \in History[head'[Dst(d)']]
    BY <1>5, <2>2, <2>3, HistorySelf DEF Kept
  <2>4. CASE Checks(c)
    BY <1>3, <1>5, <2>3, <2>4 DEF Checks
  <2>5. CASE UpdatesRef(c)
    <3>1. head[Dst(c)] = proc[c].expected
      BY <1>3, <1>5, <2>5 DEF UpdatesRef
    <3>2. head' = [head EXCEPT ![Dst(c)] = proc[c].tip]
      BY <2>5, <3>1 DEF UpdatesRef
    <3> QED
      BY <1>2, <2>3, <3>2
  <2>6. CASE FastForwards(c)
    <3>1. head' = head
      BY <2>6 DEF FastForwards
    <3>2. PICK now : /\ now = snap[c][proc[c].kind] \/ now = head[Dst(c)]
                     /\ now = proc[c].tip
      BY <1>3, <1>5, <2>6 DEF FastForwards
    <3>3. proc[c].kind \in {"push", "pull"}
      BY <1>3, <1>5, <2>2, EndTypes DEF Kept, ProcRecords, Kinds
    <3>4. CASE now = snap[c][proc[c].kind]
      <4>1. Holds(Dst(c), now)
        BY <2>2, <3>2, <3>3, <3>4 DEF Behind, Dst
      <4> QED
        BY <1>5, <2>2, <3>1, <3>2, <4>1 DEF Holds, Kept
    <3>5. CASE now = head[Dst(c)]
      BY <2>3, <3>1, <3>2, <3>5
    <3> QED
      BY <3>2, <3>4, <3>5
  <2> QED
    BY <2>1, <2>4, <2>5, <2>6
<1> QED
  BY <1>1, <1>4, <1>5 DEF Commit, Own

\* The refs at the start.
LEMMA RefInit ==
    ASSUME Init
    PROVE  RefInv
<1>1. /\ \A c \in Clones : proc[c] = Idle /\ snap[c]["push"] = NoSnap /\ snap[c]["pull"] = NoSnap
      /\ NoSnap \notin Commits
  BY SyncAssumption DEF Init, Values
<1>2. Idle \in ProcRecords /\ Idle.pc = "idle"
  BY DEF Idle, ProcRecords, Kinds, Values
<1>3. Closure(InitCommit) \in SUBSET Objects
  <2>1. CASE InitCommit = None
    BY <2>1 DEF Closure
  <2>2. CASE InitCommit \in Commits
    BY <2>2, InClosure
  <2> QED
    BY <2>1, <2>2, SyncAssumption DEF Values
<1>4. TypeOK
  BY <1>2, <1>3, SyncAssumption DEF Init, TypeOK, ProcRecords
<1> QED
  BY <1>1, <1>2, <1>4 DEF RefInv, Aimed, Behind, Reached

LEMMA RefStutter ==
    ASSUME RefInv, UNCHANGED vars
    PROVE  RefInv'
BY DEF RefInv, vars, TypeOK, Aimed, Behind, Reached, Holds, Dst

LEMMA RefInvariance == Spec => []RefInv
<1>1. ASSUME RefInv, Next
      PROVE  RefInv'
  BY <1>1, Steps, AimedStep, BehindStep, ReachedStep DEF RefInv
<1> QED
  BY <1>1, RefInit, RefStutter, PTL DEF Spec

\* The state is well typed, for every set of clones and every history.
THEOREM TypeCorrect == Spec => []TypeOK
<1>1. RefInv => TypeOK
  BY DEF RefInv
<1> QED
  BY <1>1, RefInvariance, PTL

\* push publishes with a compare-and-set that is checked for descent: the remote
\* branch loses no commit, however stale the snapshots and whatever stops.
THEOREM RemoteAdvances == Spec => RemoteFastForwards
<1>1. Remote \in Repos
  BY DEF Repos
<1>2. ASSUME RefInv, Next, head'[Remote] # head[Remote], head[Remote] # None
      PROVE  head'[Remote] # None /\ head[Remote] \in History[head'[Remote]]
  BY <1>1, <1>2, RefAdvances, SyncAssumption DEF RefInv
<1>3. RefInv /\ [Next]_vars =>
        [head'[Remote] # head[Remote] /\ head[Remote] # None =>
         /\ head'[Remote] # None
         /\ head[Remote] \in History[head'[Remote]]]_vars
  BY <1>2
<1> QED
  BY <1>3, RefInvariance, PTL DEF Spec, RemoteFastForwards

\* A push or pull that reports updated or unchanged has left its tip in the
\* history of the destination branch.
THEOREM Delivered == Spec => []SuccessMeansDelivered
<1>1. RefInv => SuccessMeansDelivered
  BY DEF RefInv, Reached, Holds, SuccessMeansDelivered
<1> QED
  BY <1>1, RefInvariance, PTL

-----------------------------------------------------------------------------
(* Data: what a step does to the repositories.                             *)

\* A step of clone c.
StepOf(c) ==
    \/ (\E k \in Commits : Commit(c, k)) /\ proc' = proc
    \/ Own(c) /\ TransferStep(c)

LEMMA SomeStep ==
    ASSUME TypeOK, Aimed, Next
    PROVE  \E c \in Clones : StepOf(c)
BY Steps DEF StepOf, Commit

\* Repositories only grow: by what is committed, or copied.
LEMMA Growth ==
    ASSUME TypeOK, NEW c \in Clones, StepOf(c)
    PROVE  /\ \A x \in Repos : has[x] \subseteq has'[x]
           /\ cut \subseteq cut'
           /\ \A x \in Repos : \A o \in has'[x] \ has[x] :
                \/ \E k \in Commits :
                     Commit(c, k) /\ x = c /\ o \in {k} \union DataOf({k})
                \/ /\ Copies(c, o) /\ x = Dst(c)
                   /\ o \in has[Src(c)] /\ proc'[c].pc = "copy"
<1>1. has \in [Repos -> SUBSET Objects] /\ c \in Repos /\ Dst(c) \in Repos
  BY EndTypes DEF TypeOK, Repos
<1>2. ASSUME NEW k \in Commits, Commit(c, k)
      PROVE  /\ has' = [has EXCEPT ![c] = has[c] \union ({k} \union DataOf({k}))]
             /\ cut' = cut
  BY <1>1, <1>2 DEF Commit
<1>3. ASSUME NEW o, Copies(c, o)
      PROVE  /\ cut' = cut
             /\ \/ has' = has
                \/ /\ has' = [has EXCEPT ![Dst(c)] = has[Dst(c)] \union {o}]
                   /\ o \in has[Src(c)] /\ proc'[c].pc = "copy"
  BY <1>3 DEF Copies
<1>4. CASE \E k \in Commits : Commit(c, k)
  <2>1. PICK k \in Commits : Commit(c, k)
    BY <1>4
  <2> QED
    BY <1>1, <1>2, <2>1
<1>5. CASE \E o \in Objects : Copies(c, o)
  <2>1. PICK o \in Objects : Copies(c, o)
    BY <1>5
  <2> QED
    BY <1>1, <1>3, <2>1
<1>6. CASE /\ TransferStep(c)
           /\ ~\E o \in Objects : Copies(c, o)
  BY <1>6 DEF TransferStep, Starts, Checks, Collects, Plans, Finishes,
     FastForwards, UpdatesRef, Ends
<1> QED
  BY <1>4, <1>5, <1>6 DEF StepOf

\* What was uncut stays whole.
LEMMA UncutBefore ==
    ASSUME TypeOK, NEW c \in Clones, StepOf(c), NEW x, Uncut(x)'
    PROVE  Uncut(x)
BY Growth DEF Uncut

LEMMA WholeOn ==
    ASSUME TypeOK, NEW c \in Clones, StepOf(c), NEW x \in Repos, NEW k, Whole(k, x)
    PROVE  Whole(k, x)'
BY Growth DEF Whole

\* What is copied is one of the commits, if it is a commit, and was lacking.
LEMMA CopiedCommit ==
    ASSUME TypeOK, Transfers, NEW c \in Clones, NEW k \in Commits, Copies(c, k)
    PROVE  /\ k \in proc[c].commits /\ k \notin has[Dst(c)]
           /\ k \in History[proc[c].tip]
           /\ proc[c].kind = "push" => Author[k] = c
BY DEF Transfers, Copies, Collected

\* Where commits come from.
LEMMA OriginStep ==
    ASSUME DataInv, NEW c \in Clones, StepOf(c)
    PROVE  Origin'
<1> USE DEF DataInv
<1>1. Clones \subseteq Repos /\ Remote \in Repos /\ \A k \in Commits : Author[k] \in Repos
  BY SyncAssumption DEF Repos
<1>2. ASSUME NEW x \in Repos, NEW k \in has'[x] \intersect Commits
      PROVE  {k} \union DataOf({k}) \subseteq has'[Author[k]]
  <2>1. CASE k \in has[x]
    <3>1. {k} \union DataOf({k}) \subseteq has[Author[k]]
      BY <1>2, <2>1 DEF Origin
    <3> QED
      BY <1>1, <3>1, Growth
  <2>2. ASSUME NEW j \in Commits, Commit(c, j), k \in {j} \union DataOf({j})
        PROVE  {k} \union DataOf({k}) \subseteq has'[Author[k]]
    <3>1. k = j /\ Author[j] = c
      BY <2>2, DataType DEF Commit
    <3>2. has'[c] = has[c] \union {j} \union DataOf({j})
      BY <1>1, <2>2 DEF Commit, TypeOK
    <3> QED
      BY <3>1, <3>2
  <2>3. CASE k \in has[Src(c)]
    <3>1. {k} \union DataOf({k}) \subseteq has[Author[k]]
      BY <2>3, EndTypes DEF Origin
    <3> QED
      BY <1>1, <3>1, Growth
  <2> QED
    BY <1>2, <2>1, <2>2, <2>3, Growth
<1>3. ASSUME NEW d \in Clones, NEW k \in has'[d] \intersect Commits, Author[k] # d
      PROVE  k \in has'[Remote] /\ (Remote \notin cut' => Whole(k, Remote)')
  <2>1. SUFFICES k \in has[Remote] /\ (Remote \notin cut => Whole(k, Remote))
    BY <1>1, <2>1, Growth, WholeOn
  <2>2. CASE k \in has[d]
    BY <1>3, <2>2 DEF Origin
  <2>3. ASSUME NEW j \in Commits, Commit(c, j), d = c, k \in {j} \union DataOf({j})
        PROVE  FALSE
    BY <1>3, <2>3, DataType DEF Commit
  <2>4. CASE Copies(c, k) /\ d = Dst(c) /\ k \in has[Src(c)]
    <3>1. proc[c].kind # "push" /\ Src(c) = Remote
      BY <2>4, SyncAssumption DEF Dst, Src
    <3>2. k \in History[proc[c].tip]
      BY <2>4, CopiedCommit
    <3>3. proc[c].tip \in Commits /\ proc[c].pc # "idle"
      BY <2>4 DEF Copies, Aimed
    <3>4. Remote \notin cut => Closure(proc[c].tip) \subseteq has[Remote]
      BY <3>1, <3>3 DEF Downloadable
    <3>5. Parents[k] \subseteq Closure(proc[c].tip) /\ DataOf({k}) \subseteq Closure(proc[c].tip)
      BY <3>2, <3>3, HistoryStep, InClosure
    <3> QED
      BY <2>4, <3>1, <3>4, <3>5 DEF Whole
  <2> QED
    BY <1>1, <1>3, <2>2, <2>3, <2>4, Growth
<1> QED
  BY <1>2, <1>3 DEF Origin

\* What a download downloads.
LEMMA DownloadableStep ==
    ASSUME DataInv, NEW c \in Clones, StepOf(c)
    PROVE  Downloadable'
<1> USE DEF DataInv
<1>1. Remote \in Repos /\ has[Remote] \subseteq has'[Remote] /\ cut \subseteq cut'
  BY Growth DEF Repos
<1>2. SUFFICES ASSUME NEW d \in Clones, proc'[d].pc # "idle", proc'[d].kind # "push",
                      Remote \notin cut'
               PROVE  Closure(proc'[d].tip) \subseteq has[Remote]
  BY <1>1 DEF Downloadable
<1>3. CASE /\ proc[d].pc # "idle" /\ proc[d].kind = proc'[d].kind
           /\ proc[d].tip = proc'[d].tip
  BY <1>1, <1>2, <1>3 DEF Downloadable
<1>4. CASE d = c /\ Starts(c)
  <2>1. proc'[c].tip = head[Remote]
    BY <1>2, <1>4 DEF Starts
  <2>2. {Remote, Remote} \intersect cut = {}
    BY <1>1, <1>2
  <2> QED
    BY <1>1, <1>4, <2>1, <2>2 DEF WholeUnlessCut
<1>5. CASE proc'[d] = proc[d]
  BY <1>2, <1>3, <1>5
<1>6. CASE d = c /\ TransferStep(c) /\ ~Starts(c)
  BY <1>2, <1>3, <1>6 DEF TransferStep, Checks, Collects, Plans, Copies, Finishes,
     FastForwards, UpdatesRef, Ends, Kept
<1> QED
  BY <1>4, <1>5, <1>6 DEF StepOf, Own

\* A commit to be copied by one clone is put at its destination by no other.
LEMMA Exclusive ==
    ASSUME DataInv, NEW c \in Clones, StepOf(c),
           NEW d \in Clones, proc'[d] = proc[d], proc[d].pc \in {"plan", "copy"},
           NEW k \in proc[d].commits, k \notin has[Dst(d)]
    PROVE  k \notin has'[Dst(d)]
<1> USE DEF DataInv
<1>1. SUFFICES ASSUME k \in has'[Dst(d)]
               PROVE  FALSE
  OBVIOUS
<1>2. Collected(d) /\ k \in Commits
  BY EndTypes DEF Transfers, ProcRecords
<1>3. ASSUME NEW j \in Commits, Commit(c, j), Dst(d) = c
      PROVE  FALSE
  <2>1. d = c
    BY <1>3, SyncAssumption DEF Dst
  <2> QED
    BY <1>3, <2>1 DEF Commit
<1>4. CASE Copies(c, k) /\ Dst(d) = Dst(c) /\ proc'[c].pc = "copy"
  <2>1. k \in proc[c].commits /\ (proc[c].kind = "push" => Author[k] = c)
    BY <1>2, <1>4, CopiedCommit
  <2>2. c # d
    BY <1>4 DEF Copies
  <2>3. proc[c].kind = "push" /\ proc[d].kind = "push"
    BY <1>4, <2>2, SyncAssumption DEF Dst
  <2> QED
    BY <1>2, <2>1, <2>2, <2>3 DEF Collected
<1> QED
  BY <1>1, <1>3, <1>4, EndTypes, Growth

\* A transfer that is not at work keeps its bearings.
LEMMA OthersTransfer ==
    ASSUME DataInv, NEW c \in Clones, StepOf(c), NEW d \in Clones, proc'[d] = proc[d]
    PROVE  /\ proc'[d].pc \in {"plan", "copy"} =>
                Collected(d)' /\ (Uncut(Dst(d))' => Planned(d)')
           /\ proc'[d].pc \in {"state", "cas"} /\ Uncut(Dst(d))' =>
                Closure(proc'[d].tip) \subseteq has'[Dst(d)']
<1> USE DEF DataInv
<1>1. /\ Src(d)' = Src(d) /\ Dst(d)' = Dst(d)
      /\ Src(d) \in Repos /\ Dst(d) \in Repos
  BY EndTypes DEF Src, Dst
<1>2. has[Src(d)] \subseteq has'[Src(d)] /\ has[Dst(d)] \subseteq has'[Dst(d)]
  BY <1>1, Growth
<1>3. Uncut(Dst(d))' => Uncut(Dst(d))
  BY <1>1, Growth DEF Uncut
<1>4. ASSUME proc[d].pc \in {"plan", "copy"}
      PROVE  Collected(d)' /\ (Uncut(Dst(d))' => Planned(d)')
  <2>1. Collected(d) /\ (Uncut(Dst(d)) => Planned(d))
    BY <1>4 DEF Transfers
  <2>2. \A k \in proc[d].commits : k \notin has[Dst(d)] => k \notin has'[Dst(d)]
    BY <1>4, Exclusive
  <2>3. Collected(d)'
    BY <1>1, <1>2, <2>1, <2>2 DEF Collected
  <2>4. ASSUME Planned(d)
        PROVE  Planned(d)'
    <3>1. \A k \in proc[d].commits : DataOf({k}) \subseteq has'[Src(d)]
      BY <1>2, <2>4 DEF Planned
    <3>2. \A k \in History[proc[d].tip] \ proc[d].commits : Parents[k] \union DataOf({k}) \subseteq has'[Dst(d)]
      BY <1>2, <2>4 DEF Planned, Whole
    <3>3. proc[d].pc = "copy" =>
            /\ proc[d].todo \subseteq has'[Src(d)]
            /\ \A k \in proc[d].commits :
                 {k} \union Parents[k] \union DataOf({k}) \subseteq has'[Dst(d)] \union proc[d].todo
      BY <1>2, <2>4 DEF Planned
    <3> QED
      BY <1>1, <3>1, <3>2, <3>3 DEF Planned, Whole
  <2> QED
    BY <1>3, <2>1, <2>3, <2>4
<1>5. ASSUME proc[d].pc \in {"state", "cas"}, Uncut(Dst(d))
      PROVE  Closure(proc[d].tip) \subseteq has'[Dst(d)]
  BY <1>2, <1>5 DEF Transfers
<1> QED
  BY <1>1, <1>3, <1>4, <1>5

\* When commits are collected, those the destination has are whole there.
LEMMA CollectedWhole ==
    ASSUME DataInv, NEW c \in Clones, proc[c].pc = "collect",
           History[proc[c].tip] \subseteq has[Src(c)], Uncut(Dst(c)),
           NEW k \in History[proc[c].tip], k \in has[Dst(c)]
    PROVE  Whole(k, Dst(c))
<1> USE DEF DataInv
<1>1. k \in Commits /\ Dst(c) \in Repos
  BY HistorySelf, EndTypes DEF Aimed
<1>2. SUFFICES ASSUME NEW e \in Clones, Dst(e) = Dst(c), proc[e].pc = "copy",
                      k \in proc[e].commits
               PROVE  Whole(k, Dst(c))
  BY <1>1 DEF Stocked
<1>3. e # c
  BY <1>2
<1>4. proc[c].kind = "push" /\ proc[e].kind = "push" /\ Dst(c) = Remote /\ Src(c) = c
  BY <1>2, <1>3, SyncAssumption DEF Dst, Src
<1>5. Author[k] = e
  BY <1>2, <1>4 DEF Transfers, Collected
<1>6. k \in has[c] /\ Remote \notin cut
  BY <1>4 DEF Uncut
<1> QED
  BY <1>1, <1>3, <1>4, <1>5, <1>6 DEF Origin

\* A transfer that collects.
LEMMA CollectsTransfer ==
    ASSUME DataInv, NEW c \in Clones, StepOf(c), Collects(c)
    PROVE  /\ proc'[c].pc = "plan" =>
                Collected(c)' /\ (Uncut(Dst(c)) => Planned(c)')
           /\ proc'[c].pc = "state" /\ Uncut(Dst(c)) =>
                Closure(proc'[c].tip) \subseteq has[Dst(c)]
<1> USE DEF DataInv
<1>1. /\ proc[c].pc = "collect" /\ Kept(c) /\ UNCHANGED <<has, head, snap, cut>>
      /\ proc[c].tip \in Commits
  BY DEF Collects, Aimed
<1>2. Src(c)' = Src(c) /\ Dst(c)' = Dst(c) /\ proc'[c].tip = proc[c].tip
  BY <1>1 DEF Kept, Src, Dst
<1>3. SUFFICES ASSUME History[proc[c].tip] \subseteq has[Src(c)],
                      proc'[c].commits = History[proc[c].tip] \ has[Dst(c)],
                      proc'[c].pc \in {"plan", "state"},
                      proc'[c].pc = "state" => proc'[c].commits = {}
               PROVE  /\ proc'[c].pc = "plan" =>
                           Collected(c)' /\ (Uncut(Dst(c)) => Planned(c)')
                      /\ proc'[c].pc = "state" /\ Uncut(Dst(c)) =>
                           Closure(proc'[c].tip) \subseteq has[Dst(c)]
  BY DEF Collects
<1>4. ASSUME NEW k \in proc'[c].commits
      PROVE  k \in Commits /\ (proc[c].kind = "push" => Author[k] = c)
  <2>1. k \in History[proc[c].tip] /\ k \in has[Src(c)] /\ k \notin has[Dst(c)]
    BY <1>3, <1>4
  <2>2. k \in Commits
    BY <1>1, <2>1, HistorySelf
  <2>3. CASE proc[c].kind = "push"
    BY <2>1, <2>2, <2>3 DEF Origin, Src, Dst
  <2> QED
    BY <2>2, <2>3
<1>5. proc'[c].pc = "plan" => Collected(c)'
  BY <1>1, <1>2, <1>3, <1>4 DEF Collected, Kept
<1>6. ASSUME Uncut(Dst(c)), NEW k \in History[proc[c].tip], k \in has[Dst(c)]
      PROVE  Whole(k, Dst(c))
  BY <1>1, <1>3, <1>6, CollectedWhole
<1>7. ASSUME Uncut(Dst(c)), NEW k \in proc'[c].commits
      PROVE  DataOf({k}) \subseteq has[Src(c)]
  <2>1. CASE proc[c].kind = "push"
    <3>1. Author[k] = c /\ k \in has[c] /\ c \in Repos /\ Src(c) = c
      BY <1>3, <1>4, <1>7, <2>1 DEF Src, Repos
    <3> QED
      BY <1>4, <1>7, <3>1 DEF Origin
  <2>2. CASE proc[c].kind # "push"
    <3>1. Closure(proc[c].tip) \subseteq has[Remote] /\ Src(c) = Remote
      BY <1>1, <1>7, <2>2 DEF Downloadable, Uncut, Src
    <3>2. DataOf({k}) \subseteq Closure(proc[c].tip)
      BY <1>1, <1>3, <1>7, InClosure
    <3> QED
      BY <3>1, <3>2
  <2> QED
    BY <2>1, <2>2
<1>8. proc'[c].pc = "plan" /\ Uncut(Dst(c)) => Planned(c)'
  BY <1>1, <1>2, <1>3, <1>6, <1>7 DEF Planned, Whole
<1>9. ASSUME proc'[c].pc = "state", Uncut(Dst(c))
      PROVE  Closure(proc[c].tip) \subseteq has[Dst(c)]
  <2>1. \A k \in History[proc[c].tip] : {k} \union DataOf({k}) \subseteq has[Dst(c)]
    BY <1>3, <1>6, <1>9 DEF Whole
  <2> QED
    BY <1>1, <2>1, ClosureIn
<1> QED
  BY <1>2, <1>5, <1>8, <1>9

\* A transfer that plans.
LEMMA PlansTransfer ==
    ASSUME DataInv, NEW c \in Clones, StepOf(c), Plans(c)
    PROVE  Collected(c)' /\ (Uncut(Dst(c)) => Planned(c)')
<1> USE DEF DataInv
<1> DEFINE trees == {TreeOf[k] : k \in proc[c].commits}
           blobs == UNION {BlobsOf[t] : t \in trees \intersect has[Src(c)]}
<1>1. /\ proc[c].pc = "plan" /\ Kept(c) /\ UNCHANGED <<has, head, snap, cut>>
      /\ proc'[c].pc = "copy" /\ proc'[c].commits = proc[c].commits
      /\ proc'[c].todo = (proc[c].commits \union trees \union blobs) \ has[Dst(c)]
  BY DEF Plans
<1>2. Src(c)' = Src(c) /\ Dst(c)' = Dst(c) /\ proc'[c].tip = proc[c].tip
  BY <1>1 DEF Kept, Src, Dst
<1>3. Collected(c) /\ (Uncut(Dst(c)) => Planned(c)) /\ proc[c].commits \in SUBSET Commits
  BY <1>1, EndTypes DEF Transfers, ProcRecords
<1>4. trees \in SUBSET Trees /\ blobs \in SUBSET Blobs
  <2>1. trees \in SUBSET Trees
    BY <1>3, SyncAssumption
  <2> QED
    BY <2>1, SyncAssumption
<1>5. \A o \in trees \union blobs : \E k \in proc[c].commits : o \in DataOf({k})
  BY ZenonT(60), DataOfOne
<1>6. ASSUME NEW k \in proc[c].commits, DataOf({k}) \subseteq has[Src(c)]
      PROVE  DataOf({k}) \subseteq trees \union blobs
  <2>1. TreeOf[k] \in trees \intersect has[Src(c)]
    BY <1>6, DataOfOne
  <2> QED
    BY <2>1, DataOfOne
<1> HIDE DEF trees, blobs
<1>7. proc'[c].todo \intersect Commits \subseteq proc[c].commits \ has[Dst(c)]
  BY <1>1, <1>4, SyncAssumption
<1>8. Collected(c)'
  BY <1>1, <1>2, <1>3, <1>7 DEF Collected, Kept
<1>9. ASSUME Uncut(Dst(c))
      PROVE  Planned(c)'
  <2>1. /\ \A k \in proc[c].commits : DataOf({k}) \subseteq has[Src(c)]
        /\ \A k \in History[proc[c].tip] \ proc[c].commits : Whole(k, Dst(c))
    BY <1>3, <1>9 DEF Planned
  <2>2. proc'[c].todo \subseteq has[Src(c)]
    BY <1>1, <1>3, <1>5, <2>1 DEF Collected
  <2>3. ASSUME NEW k \in proc[c].commits
        PROVE  {k} \union Parents[k] \union DataOf({k}) \subseteq has[Dst(c)] \union proc'[c].todo
    <3>1. proc[c].tip \in Commits
      BY <1>1 DEF Aimed
    <3>2. Parents[k] \subseteq proc[c].commits \union has[Dst(c)]
      BY <1>3, <3>1, HistoryStep DEF Collected
    <3>3. DataOf({k}) \subseteq trees \union blobs
      BY <1>6, <2>1
    <3> QED
      BY <1>1, <3>2, <3>3
  <2> QED
    BY <1>1, <1>2, <2>1, <2>2, <2>3 DEF Planned, Whole
<1> QED
  BY <1>8, <1>9

\* A transfer whose repositories are uncut never fails to copy.
LEMMA CopySucceeds ==
    ASSUME DataInv, NEW c \in Clones, NEW o \in Objects, Copies(c, o), Uncut(Dst(c))
    PROVE  proc'[c].pc = "copy" /\ o \in has[Src(c)] /\ o \in has'[Dst(c)]
<1> USE DEF DataInv
<1>1. proc[c].pc = "copy" /\ o \in proc[c].todo
  BY DEF Copies
<1>2. Collected(c) /\ Planned(c)
  BY <1>1 DEF Transfers
<1>3. o \in has[Src(c)] /\ o \notin Commits \intersect has[Dst(c)]
  BY <1>1, <1>2 DEF Collected, Planned
<1>4. has' = [has EXCEPT ![Dst(c)] = has[Dst(c)] \union {o}] /\ proc'[c].pc = "copy"
  BY <1>3 DEF Copies
<1> QED
  BY <1>3, <1>4, EndTypes DEF TypeOK

\* A transfer that copies.
LEMMA CopiesTransfer ==
    ASSUME DataInv, NEW c \in Clones, StepOf(c), NEW o \in Objects, Copies(c, o),
           proc'[c].pc = "copy"
    PROVE  Collected(c)' /\ (Uncut(Dst(c)) => Planned(c)')
<1> USE DEF DataInv
<1>1. /\ proc[c].pc = "copy" /\ Kept(c) /\ o \in proc[c].todo
      /\ proc'[c].commits = proc[c].commits /\ proc'[c].todo = proc[c].todo \ {o}
      /\ \/ has' = has
         \/ has' = [has EXCEPT ![Dst(c)] = has[Dst(c)] \union {o}]
  BY DEF Copies
<1>2. Src(c)' = Src(c) /\ Dst(c)' = Dst(c) /\ proc'[c].tip = proc[c].tip
  BY <1>1 DEF Kept, Src, Dst
<1>3. Collected(c) /\ (Uncut(Dst(c)) => Planned(c))
  BY <1>1 DEF Transfers
<1>4. /\ Src(c) \in Repos /\ Dst(c) \in Repos
      /\ has[Src(c)] \subseteq has'[Src(c)] /\ has[Dst(c)] \subseteq has'[Dst(c)]
      /\ has'[Dst(c)] \subseteq has[Dst(c)] \union {o}
  BY <1>1, EndTypes, Growth DEF TypeOK
<1>5. Collected(c)'
  BY <1>1, <1>2, <1>3, <1>4 DEF Collected, Kept
<1>6. ASSUME Uncut(Dst(c))
      PROVE  Planned(c)'
  <2>1. o \in has'[Dst(c)]
    BY <1>6, CopySucceeds
  <2>2. Planned(c)
    BY <1>3, <1>6
  <2>3. \A k \in proc[c].commits : DataOf({k}) \subseteq has'[Src(c)]
    BY <1>4, <2>2 DEF Planned
  <2>4. \A k \in History[proc[c].tip] \ proc[c].commits :
          Parents[k] \union DataOf({k}) \subseteq has'[Dst(c)]
    BY <1>4, <2>2 DEF Planned, Whole
  <2>5. proc'[c].todo \subseteq has'[Src(c)]
    BY <1>1, <1>4, <2>2 DEF Planned
  <2>6. \A k \in proc[c].commits :
          {k} \union Parents[k] \union DataOf({k}) \subseteq has'[Dst(c)] \union proc'[c].todo
    BY <1>1, <1>4, <2>1, <2>2 DEF Planned
  <2> QED
    BY <1>1, <1>2, <2>3, <2>4, <2>5, <2>6 DEF Planned, Whole
<1> QED
  BY <1>5, <1>6

\* A transfer that has copied all.
LEMMA FinishesTransfer ==
    ASSUME DataInv, NEW c \in Clones, Finishes(c), Uncut(Dst(c))
    PROVE  /\ \A k \in History[proc[c].tip] : {k} \union DataOf({k}) \subseteq has[Dst(c)]
           /\ \A k \in proc[c].commits : Whole(k, Dst(c))
           /\ Closure(proc[c].tip) \subseteq has[Dst(c)]
<1> USE DEF DataInv
<1>1. proc[c].pc = "copy" /\ proc[c].todo = {} /\ proc[c].tip \in Commits
  BY DEF Finishes, Aimed
<1>2. Collected(c) /\ Planned(c)
  BY <1>1 DEF Transfers
<1>3. \A k \in proc[c].commits : {k} \union Parents[k] \union DataOf({k}) \subseteq has[Dst(c)]
  BY <1>1, <1>2 DEF Planned
<1>4. \A k \in History[proc[c].tip] : {k} \union DataOf({k}) \subseteq has[Dst(c)]
  BY <1>2, <1>3 DEF Collected, Planned, Whole
<1> QED
  BY <1>1, <1>3, <1>4, ClosureIn DEF Whole

\* Transfers keep their bearings.
LEMMA TransfersStep ==
    ASSUME DataInv, NEW c \in Clones, StepOf(c)
    PROVE  Transfers'
<1> USE DEF DataInv
<1>1. SUFFICES ASSUME NEW d \in Clones
               PROVE  /\ proc'[d].pc \in {"plan", "copy"} =>
                           Collected(d)' /\ (Uncut(Dst(d))' => Planned(d)')
                      /\ proc'[d].pc \in {"state", "cas"} /\ Uncut(Dst(d))' =>
                           Closure(proc'[d].tip) \subseteq has'[Dst(d)']
  BY DEF Transfers
<1>2. CASE proc'[d] = proc[d]
  BY <1>2, OthersTransfer
<1>3. CASE d = c /\ TransferStep(c)
  <2>1. ASSUME Kept(c), cut' = cut
        PROVE  /\ Dst(c)' = Dst(c) /\ proc'[c].tip = proc[c].tip
               /\ Uncut(Dst(c))' <=> Uncut(Dst(c))
    BY <2>1 DEF Kept, Dst, Uncut
  <2>2. CASE Collects(c)
    BY <1>3, <2>1, <2>2, CollectsTransfer DEF Collects
  <2>3. CASE Plans(c)
    BY <1>3, <2>1, <2>3, PlansTransfer DEF Plans
  <2>4. ASSUME NEW o \in Objects, Copies(c, o)
        PROVE  /\ proc'[d].pc \in {"plan", "copy"} =>
                    Collected(d)' /\ (Uncut(Dst(d))' => Planned(d)')
               /\ proc'[d].pc \in {"state", "cas"} /\ Uncut(Dst(d))' =>
                    Closure(proc'[d].tip) \subseteq has'[Dst(d)']
    <3>1. /\ Kept(c) /\ cut' = cut
          /\ proc'[c].pc \in {"copy", "done"}
      BY <2>4 DEF Copies
    <3> QED
      BY <1>3, <2>1, <2>4, <3>1, CopiesTransfer
  <2>5. CASE Finishes(c)
    <3>1. /\ Kept(c) /\ cut' = cut /\ has' = has
          /\ proc'[c].pc \in {"state", "done"}
      BY <2>5 DEF Finishes
    <3> QED
      BY <1>3, <2>1, <2>5, <3>1, FinishesTransfer
  <2>6. CASE FastForwards(c)
    <3>1. /\ Kept(c) /\ cut' = cut /\ has' = has
          /\ proc[c].pc = "state" /\ proc'[c].pc \in {"cas", "done"}
      BY <2>6 DEF FastForwards
    <3> QED
      BY <1>3, <2>1, <3>1 DEF Transfers
  <2>7. CASE Starts(c) \/ Checks(c) \/ UpdatesRef(c) \/ Ends(c)
    BY <1>3, <2>7 DEF Starts, Checks, UpdatesRef, Ends
  <2> QED
    BY <1>3, <2>2, <2>3, <2>4, <2>5, <2>6, <2>7 DEF TransferStep
<1> QED
  BY <1>2, <1>3 DEF StepOf, Own

\* Every commit of an uncut repository is whole or being copied.
LEMMA StockedStep ==
    ASSUME DataInv, NEW c \in Clones, StepOf(c)
    PROVE  Stocked'
<1> USE DEF DataInv
<1>1. SUFFICES ASSUME NEW x \in Repos, Uncut(x)', NEW k \in has'[x] \intersect Commits
               PROVE  \/ Whole(k, x)'
                      \/ \E d \in Clones :
                           Dst(d)' = x /\ proc'[d].pc = "copy" /\ k \in proc'[d].commits
  BY DEF Stocked, Uncut, Whole
<1>2. Uncut(x)
  BY <1>1, UncutBefore
<1>3. CASE Whole(k, x)
  BY <1>3, WholeOn
<1>4. ASSUME NEW e \in Clones, Dst(e) = x, proc[e].pc = "copy", k \in proc[e].commits
      PROVE  \/ Whole(k, x)'
             \/ \E d \in Clones :
                  Dst(d)' = x /\ proc'[d].pc = "copy" /\ k \in proc'[d].commits
  <2>1. CASE proc'[e] = proc[e]
    BY <1>4, <2>1 DEF Dst
  <2>2. ASSUME e = c, NEW o \in Objects, Copies(c, o)
        PROVE  Dst(c)' = x /\ proc'[c].pc = "copy" /\ k \in proc'[c].commits
    <3>1. proc'[c].pc = "copy"
      BY <1>2, <1>4, <2>2, CopySucceeds
    <3>2. Kept(c) /\ proc'[c].commits = proc[c].commits
      BY <2>2 DEF Copies
    <3> QED
      BY <1>4, <2>2, <3>1, <3>2 DEF Kept, Dst
  <2>3. CASE e = c /\ Finishes(c)
    <3>1. Whole(k, x)
      BY <1>2, <1>4, <2>3, FinishesTransfer
    <3> QED
      BY <3>1, WholeOn
  <2>4. CASE e = c /\ Ends(c)
    <3>1. x \in cut'
      BY <1>4, <2>4 DEF Ends
    <3> QED
      BY <1>1, <3>1 DEF Uncut
  <2>5. e = c /\ TransferStep(c) =>
          (\E o \in Objects : Copies(c, o)) \/ Finishes(c) \/ Ends(c)
    BY <1>4 DEF TransferStep, Starts, Checks, Collects, Plans, FastForwards, UpdatesRef
  <2>6. (e = c /\ TransferStep(c)) \/ proc'[e] = proc[e]
    BY DEF StepOf, Own
  <2> QED
    BY <2>1, <2>2, <2>3, <2>4, <2>5, <2>6
<1>5. ASSUME NEW j \in Commits, Commit(c, j), x = c, k \in {j} \union DataOf({j})
      PROVE  Whole(k, x)'
  <2>1. k = j /\ Parents[j] \subseteq has[c]
    BY <1>1, <1>5, DataType DEF Commit
  <2>2. has' = [has EXCEPT ![c] = has[c] \union {j} \union DataOf({j})]
    BY <1>5 DEF Commit
  <2>3. has'[c] = has[c] \union {j} \union DataOf({j})
    BY <1>1, <1>5, <2>2 DEF TypeOK
  <2> QED
    BY <1>5, <2>1, <2>3 DEF Whole
<1>6. CASE Copies(c, k) /\ x = Dst(c) /\ proc'[c].pc = "copy"
  <2>1. k \in proc[c].commits
    BY <1>1, <1>6, CopiedCommit
  <2>2. Kept(c) /\ proc'[c].commits = proc[c].commits
    BY <1>6 DEF Copies
  <2> QED
    BY <1>6, <2>1, <2>2 DEF Kept, Dst
<1>7. k \in has[x] => Whole(k, x) \/ \E e \in Clones :
                           Dst(e) = x /\ proc[e].pc = "copy" /\ k \in proc[e].commits
  BY <1>1, <1>2 DEF Stocked
<1>8. k \notin has[x] =>
        \/ \E j \in Commits : Commit(c, j) /\ x = c /\ k \in {j} \union DataOf({j})
        \/ Copies(c, k) /\ x = Dst(c) /\ proc'[c].pc = "copy"
  BY <1>1, Growth
<1> QED
  BY <1>3, <1>4, <1>5, <1>6, <1>7, <1>8

\* A head is whole where no transfer was interrupted.
LEMMA WholeStep ==
    ASSUME DataInv, NEW c \in Clones, StepOf(c), Stocked'
    PROVE  WholeUnlessCut'
<1> USE DEF DataInv
<1>1. SUFFICES ASSUME NEW x \in Repos, Uncut(x)'
               PROVE  Closure(head'[x]) \subseteq has'[x]
  BY DEF WholeUnlessCut, Uncut
<1>2. Uncut(x) /\ has[x] \subseteq has'[x]
  BY <1>1, UncutBefore, Growth
<1>3. Closure(head[x]) \subseteq has[x]
  BY <1>2 DEF WholeUnlessCut, Uncut
<1>4. CASE head'[x] = head[x]
  BY <1>2, <1>3, <1>4
<1>5. ASSUME NEW k \in Commits, Commit(c, k), x = c
      PROVE  Closure(head'[x]) \subseteq has'[x]
  <2>1. /\ proc' = proc /\ proc[c].pc = "idle"
        /\ has' = [has EXCEPT ![c] = has[c] \union {k} \union DataOf({k})]
        /\ head' = [head EXCEPT ![c] = k]
    BY <1>5 DEF Commit
  <2>2. /\ has'[c] = has[c] \union {k} \union DataOf({k})
        /\ head'[c] = k
    BY <1>1, <1>5, <2>1 DEF TypeOK
  <2>3. ASSUME NEW j \in has'[c] \intersect Commits
        PROVE  Parents[j] \union DataOf({j}) \subseteq has'[c]
    <3>1. ASSUME NEW d \in Clones, Dst(d)' = c
          PROVE  proc'[d].pc # "copy"
      BY <2>1, <3>1, SyncAssumption DEF Dst
    <3>2. Whole(j, c)'
      BY <1>1, <1>5, <2>3, <3>1 DEF Stocked
    <3> QED
      BY <3>2 DEF Whole
  <2> DEFINE S == has'[c] \intersect Commits
  <2>4. S \in SUBSET Commits /\ k \in S
    BY <2>2
  <2>5. \A e \in S : Parents[e] \subseteq S
    BY <2>3, DataType
  <2>6. \A j \in S : {j} \union DataOf({j}) \subseteq has'[c]
    BY <2>3
  <2>7. History[k] \subseteq S
    <3> HIDE DEF S
    <3> QED
      BY <2>4, <2>5, HistoryLeast
  <2>8. \A j \in History[k] : {j} \union DataOf({j}) \subseteq has'[c]
    BY <2>6, <2>7
  <2> QED
    BY <1>5, <2>2, <2>8, ClosureIn
<1>6. CASE UpdatesRef(c)
  <2>1. /\ proc[c].pc = "cas" /\ has' = has
        /\ \/ head' = [head EXCEPT ![Dst(c)] = head[Dst(c)]]
           \/ head' = [head EXCEPT ![Dst(c)] = proc[c].tip]
    BY <1>6 DEF UpdatesRef
  <2>2. CASE head'[x] # head[x]
    <3>1. x = Dst(c) /\ head'[x] = proc[c].tip
      BY <2>1, <2>2 DEF TypeOK
    <3> QED
      BY <1>2, <2>1, <3>1 DEF Transfers
  <2> QED
    BY <1>4, <2>2
<1>7. CASE TransferStep(c) /\ ~UpdatesRef(c)
  <2>1. head' = head
    BY <1>7 DEF TransferStep, Starts, Checks, Collects, Plans, Copies, Finishes,
       FastForwards, Ends
  <2> QED
    BY <1>4, <2>1
<1>8. ASSUME NEW k \in Commits, Commit(c, k), x # c
      PROVE  head'[x] = head[x]
  BY <1>8 DEF Commit, TypeOK
<1> QED
  BY <1>4, <1>5, <1>6, <1>7, <1>8 DEF StepOf

\* The data at the start.
LEMMA DataInit ==
    ASSUME Init
    PROVE  DataInv
<1>1. TypeOK /\ Aimed
  BY RefInit DEF RefInv
<1>2. /\ \A x \in Repos : has[x] = Closure(InitCommit) /\ head[x] = InitCommit
      /\ \A c \in Clones : proc[c].pc = "idle"
      /\ Clones \subseteq Repos /\ Remote \in Repos
  BY DEF Init, Idle, Repos
<1>3. ASSUME NEW k \in Closure(InitCommit) \intersect Commits
      PROVE  {k} \union Parents[k] \union DataOf({k}) \subseteq Closure(InitCommit)
  <2>1. InitCommit \in Commits
    BY <1>3, SyncAssumption DEF Closure, Values
  <2>2. k \in History[InitCommit]
    <3>1. k \in History[InitCommit] \/ k \in DataOf(History[InitCommit])
      BY <1>3, <2>1, InClosure
    <3>2. ASSUME k \in DataOf(History[InitCommit])
          PROVE  FALSE
      <4>1. PICK j \in History[InitCommit] : k \in DataOf({j})
        BY <3>2, DataOfEach
      <4>2. j \in Commits
        BY <2>1, HistorySelf
      <4> QED
        BY <1>3, <4>1, <4>2, DataType
    <3> QED
      BY <3>1, <3>2
  <2> QED
    BY <2>1, <2>2, HistoryStep, InClosure
<1>4. Origin
  <2>1. ASSUME NEW x \in Repos, NEW k \in has[x] \intersect Commits
        PROVE  {k} \union DataOf({k}) \subseteq has[Author[k]]
    <3>1. k \in Closure(InitCommit) \intersect Commits
      BY <1>2, <2>1
    <3>2. Author[k] \in Repos
      BY <1>2, <2>1, SyncAssumption
    <3> QED
      BY <1>2, <1>3, <3>1, <3>2
  <2>2. ASSUME NEW c \in Clones, NEW k \in has[c] \intersect Commits
        PROVE  k \in has[Remote] /\ Whole(k, Remote)
    <3>1. k \in Closure(InitCommit) \intersect Commits
      BY <1>2, <2>2
    <3> QED
      BY <1>2, <1>3, <3>1 DEF Whole
  <2> QED
    BY <2>1, <2>2 DEF Origin
<1>5. Stocked
  BY <1>2, <1>3 DEF Stocked, Whole
<1>6. WholeUnlessCut
  BY <1>2 DEF WholeUnlessCut
<1>7. Downloadable /\ Transfers
  BY <1>2 DEF Downloadable, Transfers
<1> QED
  BY <1>1, <1>4, <1>5, <1>6, <1>7 DEF DataInv

LEMMA DataStutter ==
    ASSUME DataInv, UNCHANGED vars
    PROVE  DataInv'
<1>1. UNCHANGED <<has, head, proc, cut>>
  BY DEF vars
<1>2. \A c \in Clones : Src(c)' = Src(c) /\ Dst(c)' = Dst(c)
  BY <1>1 DEF Src, Dst
<1>3. TypeOK' /\ Aimed'
  BY DEF DataInv, TypeOK, Aimed, vars
<1>4. Origin' /\ Downloadable' /\ WholeUnlessCut'
  BY <1>1 DEF DataInv, Origin, Downloadable, WholeUnlessCut, Whole
<1>5. Transfers'
  BY ZenonT(60), <1>1, <1>2 DEF DataInv, Transfers, Collected, Planned, Uncut, Whole
<1>6. Stocked'
  BY <1>1, <1>2 DEF DataInv, Stocked, Uncut, Whole
<1> QED
  BY <1>3, <1>4, <1>5, <1>6 DEF DataInv

LEMMA DataInvariance == Spec => []DataInv
<1>1. ASSUME DataInv, Next
      PROVE  DataInv'
  <2>1. TypeOK' /\ Aimed'
    BY <1>1, Steps, AimedStep DEF DataInv
  <2>2. PICK c \in Clones : StepOf(c)
    BY <1>1, SomeStep DEF DataInv
  <2>3. Origin' /\ Downloadable' /\ Transfers' /\ Stocked'
    BY <1>1, <2>2, OriginStep, DownloadableStep, TransfersStep, StockedStep
  <2>4. WholeUnlessCut'
    BY <1>1, <2>2, <2>3, WholeStep
  <2> QED
    BY <2>1, <2>3, <2>4 DEF DataInv
<1> QED
  BY <1>1, DataInit, DataStutter, PTL DEF Spec

\* A head lacks an object only where a transfer was interrupted: push, pull and
\* fetch that run to their end, or to an error, publish whole commits, and a
\* broken clone never breaks the remote.
THEOREM WholeHeads == Spec => []WholeUnlessCut
<1>1. DataInv => WholeUnlessCut
  BY DEF DataInv
<1> QED
  BY <1>1, DataInvariance, PTL
=============================================================================
